----------------------------- MODULE PathNodes -----------------------------
(***************************************************************************)
(* The statement being planned, the order of rows as the planner sees it   *)
(* (pathkeys.c), and the nodes that sort and gather (pathnode.c).  A path   *)
(* is run as it is made: path.streams holds the rows of each worker, a      *)
(* single stream when nothing is parallel, and path.keys the order they     *)
(* are believed to have.                                                    *)
(***************************************************************************)
EXTENDS Executor

CONSTANTS
  Queries,  \* the statements
  Tables    \* the tables they read: sequences of rows

VARIABLES
  query,   \* the statement being planned
  table,   \* what its FROM clause yields
  phase,   \* which upper relation path belongs to
  path,    \* the plan so far, with its rows
  root,    \* what preprocessing derived from the statement (PlannerInfo)
  error    \* what ereport said, or "none"

vars == <<query, table, phase, path, root, error>>

-----------------------------------------------------------------------------
(* The order of rows: pathkeys are classes of columns known to be equal.    *)

Representative(c) == IF query.where = "a = b" /\ c = "b" THEN "a" ELSE c
pathkey_is_redundant(key, keys) == \/ query.where = "b = 1" /\ key = "b"
                                   \/ key \in ToSet(keys)
make_pathkeys_for_sortclauses(cols) ==
  FoldLeft(LAMBDA keys, c : IF pathkey_is_redundant(Representative(c), keys) THEN keys
                            ELSE Append(keys, Representative(c)), <<>>, cols)

pathkeys_contained_in(keys1, keys2) == IsPrefix(keys1, keys2)
presorted_keys(keys1, keys2) ==
  CHOOSE n \in 0..Len(keys1) : /\ IsPrefix(SubSeq(keys1, 1, n), keys2)
                               /\ n = Len(keys1) \/ ~IsPrefix(SubSeq(keys1, 1, n + 1), keys2)

grouping_is_sortable(cols) == ToSet(cols) \cap query.unsortable = {}
grouping_is_hashable(cols) == ToSet(cols) \cap query.unhashable = {}

-----------------------------------------------------------------------------
(* Nodes on top of a path; a partial path keeps a stream for each worker.   *)

OnStreams(p, Node(_), keys) == [streams |-> [w \in DOMAIN p.streams |-> Node(p.streams[w])], keys |-> keys]
Rows(p) == p.streams[1]

create_sort_path(p, keys) == OnStreams(p, LAMBDA rows : Sort(rows, keys), keys)
create_incremental_sort_path(p, keys, n) == OnStreams(p, LAMBDA rows : IncrementalSort(rows, keys, n), keys)
create_gather_path(p) == [streams |-> <<Gather(p.streams)>>, keys |-> <<>>]
create_gather_merge_path(p, keys) == [streams |-> <<GatherMerge(p.streams, keys)>>, keys |-> keys]

\* The ways to have p sorted: as it is, by a full sort, or on top of its first keys.
Incremental(p, keys) ==
  {create_incremental_sort_path(p, keys, n) : n \in {presorted_keys(keys, p.keys)} \ {0}}
SortedPaths(p, keys) ==
  IF pathkeys_contained_in(keys, p.keys) THEN {p}
  ELSE {create_sort_path(p, keys)} \cup Incremental(p, keys)
============================================================================
