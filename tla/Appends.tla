------------------------------- MODULE Appends -------------------------------
(***************************************************************************)
(* Relations whose rows are those of several others: partitioned tables,   *)
(* inheritance sets and UNION ALL (allpaths.c, pathnode.c, createplan.c).   *)
(*                                                                         *)
(* A relation is a record: parts, its children (none for a table), key, the *)
(* columns that decide in which part a row is stored, and of a part holds,  *)
(* the values of key it has.  Parts are in the order of their bounds, and   *)
(* may have parts themselves, once.  A temporary table is out of sight of   *)
(* the workers.  Only orders ascending with nulls last are considered.      *)
(***************************************************************************)
EXTENDS PathNodes

CONSTANT Relations  \* those that statements name in FROM
from == Relations[query.from]

Fits(row, key, part) == [k \in DOMAIN key |-> row[key[k]]] \in part.holds
InPart(rows, key, part) == SelectSeq(rows, LAMBDA row : Fits(row, key, part))

\* The rows that are stored at all, and those that pass WHERE.
Passes(row) == CASE query.where = "none" -> TRUE
                 [] query.where = "a = b" -> row.a = row.b /\ row.a # Null
                 [] query.where = "b = 1" -> row.b = 1
Stored == IF from.parts = <<>> THEN table
          ELSE SelectSeq(table, LAMBDA row : \E i \in DOMAIN from.parts : Fits(row, from.key, from.parts[i]))
Joined == SelectSeq(Stored, Passes)

Deal(rows, w) == SelectSeq([i \in DOMAIN rows |-> [at |-> i, row |-> rows[i]]], LAMBDA x : x.at % 2 = w)
Worker(rows, w) == LET d == Deal(rows, w) IN [i \in DOMAIN d |-> d[i].row]

-----------------------------------------------------------------------------
(* Parts that need not be read (plancat.c).                                 *)

\* A check that is not inherited says nothing of the rows of children.
get_relation_constraints(rel) ==
  {check \in rel.checks : check.valid /\ (check.noinherit => rel.parts = <<>>)}
relation_excluded_by_constraints(rel, member) ==
  /\ query.where = "b = 1"
  /\ from.constraint_exclusion \in IF member THEN {"partition", "on"} ELSE {"on"}
  /\ \E check \in get_relation_constraints(rel) : 1 \notin check.allowed

prune_append_rel_partitions(rel, part) ==
  /\ query.where = "b = 1" /\ rel.strategy # "inherit"
  /\ \E k \in DOMAIN rel.key : rel.key[k] = "b" /\ \A value \in part.holds : value[k] # 1

live_parts(rel) ==
  SelectSeq(rel.parts, LAMBDA part : /\ ~prune_append_rel_partitions(rel, part)
                                     /\ ~relation_excluded_by_constraints(part, TRUE))
\* A partitioned part of which nothing is left is as good as excluded.
set_append_rel_size(rel) ==
  SelectSeq(live_parts(rel), LAMBDA part : part.parts = <<>> \/ live_parts(part) # <<>>)

\* One child that the workers cannot read keeps the whole from them.
consider_parallel(rel) ==
  \A part \in ToSet(set_append_rel_size(rel)) :
    ~part.temp /\ \A leaf \in ToSet(live_parts(part)) : ~leaf.temp

-----------------------------------------------------------------------------
(* Paths.                                                                   *)

\* Appends keep their subpaths, which a node above may take over; the first so many of a
\* parallel-aware one are each run by one worker.
Path(kind, subpaths, aware, first_partial_path, safe, streams, keys) ==
  [kind |-> kind, subpaths |-> subpaths, parallel_aware |-> aware, first_partial_path |-> first_partial_path,
   parallel_safe |-> safe, streams |-> streams, keys |-> keys]
AllSafe(paths) == \A i \in DOMAIN paths : paths[i].parallel_safe

truncate_useless_pathkeys(keys) == SubSeq(keys, 1, presorted_keys(root.query_pathkeys, keys))
ScanPaths(rows, part, workers) ==
  {Path("scan", <<>>, FALSE, 0, ~part.temp,
        IF workers = 1 THEN <<Sort(rows, index)>> ELSE <<Worker(Sort(rows, index), 1), Worker(Sort(rows, index), 0)>>,
        truncate_useless_pathkeys(make_pathkeys_for_sortclauses(index))) :
     index \in {<<>>} \cup part.indexes}

\* A subpath's rows as worker w gets them: its share, or all of them if it was not made to be shared.
Stream(p, w, workers) ==
  IF workers > 1 /\ ~p.parallel_safe THEN <<>> ELSE IF Len(p.streams) = 1 THEN p.streams[1] ELSE p.streams[w]
\* The rows a worker gets of the n-th subpath of a parallel-aware Append.
Share(p, n, first_partial_path, w) ==
  IF n > first_partial_path THEN Stream(p, w, 2)
  ELSE IF (n % 2) + 1 = w /\ p.parallel_safe THEN FlattenSeq(p.streams) ELSE <<>>

\* create_append_plan sorts the subpaths that lack the order the whole is to have.
WithSort(p, keys) == IF pathkeys_contained_in(keys, p.keys) THEN p ELSE [p EXCEPT !.streams = create_sort_path(p, keys).streams]

Appended(subpaths, first_partial_path, keys, workers, aware) ==
  LET subplans == [n \in DOMAIN subpaths |-> WithSort(subpaths[n], keys)]
      Of(w, n) == IF aware THEN Share(subplans[n], n, first_partial_path, w) ELSE Stream(subplans[n], w, workers)
  IN Path("append", subpaths, aware, first_partial_path, AllSafe(subpaths),
          [w \in 1..workers |-> FlattenSeq([n \in DOMAIN subplans |-> Of(w, n)])], keys)
create_append_path(subpaths, partial_subpaths, pathkeys, workers, aware) ==
  LET all == subpaths \o partial_subpaths
  IN Appended(all, Len(subpaths), IF Len(all) = 1 THEN all[1].keys ELSE pathkeys, workers, aware)

Merged(subpaths, keys) == GatherMerge([n \in DOMAIN subpaths |-> Rows(WithSort(subpaths[n], keys))], keys)
create_merge_append_path(subpaths, keys) ==
  Path("merge", subpaths, FALSE, 0, AllSafe(subpaths), <<Merged(subpaths, keys)>>, keys)

\* Subpaths of an Append below are taken over one by one; of a parallel-aware one the part that
\* is not shared goes to the list of such subpaths, and if there is none to the Append itself.
Mixed(p) == p.kind = "append" /\ p.parallel_aware /\ p.first_partial_path > 0
accumulate_append_subpath_All(p) == IF p.kind = "scan" THEN <<p>> ELSE p.subpaths
accumulate_append_subpath(p) == IF p.kind = "scan" \/ Mixed(p) THEN <<p>> ELSE p.subpaths
SharedSubpaths(p) ==
  IF Mixed(p) THEN SubSeq(p.subpaths, p.first_partial_path + 1, Len(p.subpaths)) ELSE accumulate_append_subpath(p)
SpecialSubpaths(p) == IF Mixed(p) THEN SubSeq(p.subpaths, 1, p.first_partial_path) ELSE <<>>
get_singleton_append_subpath(p) == IF p.kind # "scan" /\ Len(p.subpaths) = 1 THEN p.subpaths[1] ELSE p

AllSubpaths(paths) == FlattenSeq([n \in DOMAIN paths |-> accumulate_append_subpath(paths[n])])

-----------------------------------------------------------------------------
(* add_paths_to_append_rel, for relations [pathlist, partial_pathlist]; as  *)
(* any path may be the cheapest, any may be the one taken from a child.     *)

OneOfEach(sets) == FoldLeft(LAMBDA acc, set : {Append(seq, p) : seq \in acc, p \in set}, {<<>>}, sets)
Each(childrels, Of(_)) == OneOfEach([i \in DOMAIN childrels |-> Of(childrels[i])])

PartialAppends(childrels) ==
  {create_append_path(<<>>, AllSubpaths(paths), <<>>, 2, from.enable_parallel_append) :
     paths \in Each(childrels, LAMBDA rel : rel.partial_pathlist)}

\* Each child by all workers or by one of them, whichever is cheaper.
ParallelAppends(childrels) ==
  LET IsShared(p) == Len(p.streams) > 1
      Special(p) == IF IsShared(p) THEN SpecialSubpaths(p) ELSE accumulate_append_subpath(p)
      Shared(p) == IF IsShared(p) THEN SharedSubpaths(p) ELSE <<>>
      Lists(paths) == [special |-> FlattenSeq([n \in DOMAIN paths |-> Special(paths[n])]),
                       shared |-> FlattenSeq([n \in DOMAIN paths |-> Shared(paths[n])])]
      both == {Lists(paths) : paths \in Each(childrels, LAMBDA rel :
                 rel.partial_pathlist \cup {p \in rel.pathlist : p.parallel_safe})}
  IN {create_append_path(l.special, l.shared, <<>>, 2, TRUE) : l \in {l \in both : l.special # <<>>}}

\* The columns some class knows: the others are of no use to order by.
ColumnsInClasses ==
  LET clauses == <<query.groupClause, query.distinctClause, query.sortClause>>
                   \o FlattenSeq([i \in DOMAIN query.windows |-> <<query.windows[i].partition, query.windows[i].order>>])
  IN UNION {ToSet(cols) : cols \in ToSet(clauses)}
       \cup (CASE query.where = "none" -> {} [] query.where = "a = b" -> {"a", "b"} [] OTHER -> {"b"})

\* Bounds that overlap, or a part for all other values, leave the parts without an order.
partitions_are_ordered(rel) ==
  \/ rel.strategy = "range" /\ ~rel.has_default
  \/ rel.strategy = "list" /\ ~rel.has_default /\ \A part \in ToSet(rel.parts) : Cardinality(part.holds) = 1
build_partition_pathkeys(rel) ==
  LET n == CHOOSE n \in 0..Len(rel.key) : /\ \A k \in 1..n : rel.key[k] \in ColumnsInClasses
                                          /\ n = Len(rel.key) \/ rel.key[n + 1] \notin ColumnsInClasses
  IN [keys |-> make_pathkeys_for_sortclauses(SubSeq(rel.key, 1, n)), partial |-> n < Len(rel.key)]

\* One part after the other will do if no row of a part sorts before one of the part ahead.
match_partition_order(rel, keys) ==
  LET partition == build_partition_pathkeys(rel)
  IN /\ partitions_are_ordered(rel)
     /\ \/ pathkeys_contained_in(keys, partition.keys)
        \/ ~partition.partial /\ pathkeys_contained_in(partition.keys, keys)

get_cheapest_path_for_pathkeys(paths, keys) == {p \in paths : pathkeys_contained_in(keys, p.keys)}
generate_orderedappend_paths(rel, childrels, keys) ==
  LET Ordered(child) == IF get_cheapest_path_for_pathkeys(child.pathlist, keys) = {} THEN child.pathlist
                        ELSE get_cheapest_path_for_pathkeys(child.pathlist, keys)
      chosen == Each(childrels, Ordered)
  IN IF match_partition_order(rel, keys)
     THEN {create_append_path([n \in DOMAIN paths |-> get_singleton_append_subpath(paths[n])], <<>>, keys, 1, FALSE) :
             paths \in chosen}
     ELSE {create_merge_append_path(AllSubpaths(paths), keys) : paths \in chosen}

add_paths_to_append_rel(rel, childrels, parallel) ==
  LET all_child_pathkeys == {p.keys : p \in UNION {child.pathlist : child \in ToSet(childrels)}} \ {<<>>}
  IN [pathlist |->
        {create_append_path(AllSubpaths(paths), <<>>, <<>>, 1, FALSE) :
           paths \in Each(childrels, LAMBDA child : child.pathlist)}
          \cup UNION {generate_orderedappend_paths(rel, childrels, keys) : keys \in all_child_pathkeys},
      partial_pathlist |->
        IF ~parallel THEN {}
        ELSE PartialAppends(childrels)
               \cup (IF from.enable_parallel_append THEN ParallelAppends(childrels) ELSE {})
               \cup {create_append_path(<<>>, <<p>>, <<>>, 2, TRUE) :
                       p \in IF Len(childrels) > 1 THEN {} ELSE {p \in childrels[1].partial_pathlist : p.keys # <<>>}}]

TableRel(rows, part, parallel) ==
  [pathlist |-> ScanPaths(rows, part, 1), partial_pathlist |-> IF parallel THEN ScanPaths(rows, part, 2) ELSE {}]
ChildRel(rows, part, parallel) ==
  LET leaves == live_parts(part)
  IN IF part.parts = <<>> THEN TableRel(rows, part, parallel)
     ELSE add_paths_to_append_rel(part,
            [i \in DOMAIN leaves |-> TableRel(InPart(rows, part.key, leaves[i]), leaves[i], parallel)], parallel)

\* A relation that is excluded as a whole, or has no part left, gets an Append of nothing.
set_dummy_rel_pathlist == [pathlist |-> {create_append_path(<<>>, <<>>, <<>>, 1, FALSE)}, partial_pathlist |-> {}]
set_append_rel_pathlist(rel) ==
  LET children == set_append_rel_size(rel)
  IN IF children = <<>> \/ relation_excluded_by_constraints(rel, FALSE) THEN set_dummy_rel_pathlist
     ELSE add_paths_to_append_rel(rel,
            [i \in DOMAIN children |->
               ChildRel(InPart(Joined, rel.key, children[i]), children[i], consider_parallel(rel))],
            consider_parallel(rel))
=============================================================================
