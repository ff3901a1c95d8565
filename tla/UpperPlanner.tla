---------------------------- MODULE UpperPlanner ----------------------------
(***************************************************************************)
(* What the planner puts on top of a joined relation: grouping (by sorting, *)
(* by hashing, by both for grouping sets, in two stages under a Gather),    *)
(* window functions, DISTINCT, ORDER BY and LIMIT (planner.c).              *)
(*                                                                         *)
(* A behaviour builds one plan, step by step, for one statement, and runs   *)
(* each node on a table as it is added: path.streams holds the rows of each *)
(* worker (a single stream when nothing is parallel) and path.keys the      *)
(* order the planner believes them to have.  The planner adds many paths to *)
(* a list and continues from them; which is cheapest depends on the         *)
(* statistics, so any of them may be the one a behaviour continues from.    *)
(*                                                                         *)
(* All orders are ascending with nulls last; target lists, set-returning    *)
(* functions, partitionwise grouping and foreign tables are left out.       *)
(***************************************************************************)
EXTENDS Appends

\* What parsing and expand_grouping_sets see to: grouping sets are of columns of GROUP BY, those of fewer
\* columns first.
ASSUME QueriesAssumption ==
  \A q \in Queries :
    /\ q.groupClause \in Seq(Columns) /\ q.sortClause \in Seq(Columns)
    /\ q.groupingSets \in Seq(Seq(Columns))
    /\ \A set \in ToSet(q.groupingSets) : ToSet(set) \subseteq ToSet(q.groupClause)
    /\ \A i, j \in DOMAIN q.groupingSets :
         i < j => Cardinality(ToSet(q.groupingSets[i])) <= Cardinality(ToSet(q.groupingSets[j]))
    /\ q.windows \in Seq([name : Columns, used : BOOLEAN, partition : Seq(Columns), order : Seq(Columns)])

HavingQual(row) == CASE query.having = "none" -> TRUE
                     [] query.having = "large" -> row.v > 3
                     [] query.having = "false" -> FALSE
Filtered(rows) == SelectSeq(rows, HavingQual)
ToEmit(rows, having) == IF having THEN Filtered(rows) ELSE rows

\* AGG_SORTED, AGG_PLAIN and GROUP; a partial aggregate leaves HAVING to the final one.
create_sorted_agg_path(p, cols, having) ==
  OnStreams(p, LAMBDA rows : ToEmit(RollUp(rows, <<ToSet(cols)>>, query.hasAggs), having),
            IF cols = <<>> THEN <<>> ELSE p.keys)
create_hashed_agg_path(p, cols, having) ==
  OnStreams(p, LAMBDA rows : ToEmit(Summaries(Buckets(rows, ToSet(cols)), ToSet(cols), query.hasAggs), having), <<>>)

-----------------------------------------------------------------------------
(* Preprocessing of GROUP BY.                                               *)

\* The longest beginning of seq whose members are all in set.
Beginning(seq, set) ==
  SubSeq(seq, 1, CHOOSE n \in 0..Len(seq) : /\ \A i \in 1..n : seq[i] \in set
                                            /\ n = Len(seq) \/ seq[n + 1] \notin set)
Without(seq, set) == Among(seq, ToSet(seq) \ set)

\* GROUP BY columns in the order of ORDER BY, so that one sort serves both.
preprocess_groupclause(force) ==
  LET cols == query.groupClause
      matched == Beginning(query.sortClause, ToSet(cols))
      others == Without(cols, ToSet(matched))
      partial_match == Len(matched) < Len(query.sortClause)
  IN IF force # <<>> THEN force
     ELSE IF matched = <<>> \/ (others # <<>> /\ (partial_match \/ ~grouping_is_sortable(others))) THEN cols
     ELSE matched \o others

\* A largest matching of sets with sets they contain.
BipartiteMatch(edges) ==
  LET matchings == {m \in SUBSET edges : \A e, f \in m : (e[1] = f[1]) = (e[2] = f[2])}
  IN CHOOSE m \in matchings : \A n \in matchings : Cardinality(n) <= Cardinality(m)

\* Grouping sets, the smaller first, split into as few chains of nested sets as possible.
SmallestOfChain(masks, pairs) ==
  LET Below(m) == {e[2] : e \in {e \in pairs : e[1] = m}}
      smallest[m \in masks] == IF Below(m) = {} THEN m ELSE smallest[CHOOSE k \in Below(m) : TRUE]
  IN smallest
Chained(sets, smallest) ==
  LET InChain(m) == Among(sets, {s \in ToSet(sets) : s # <<>> /\ smallest[ToSet(s)] = m})
      Starts(k) == /\ sets[k] # <<>> /\ smallest[ToSet(sets[k])] = ToSet(sets[k])
                   /\ \A j \in 1..k - 1 : ToSet(sets[j]) # ToSet(sets[k])
      chains == InOrder(sets, {k \in DOMAIN sets : Starts(k)})
  IN [c \in DOMAIN chains |-> (IF c = 1 THEN Among(sets, {<<>>}) ELSE <<>>)
                                \o InChain(ToSet(sets[chains[c]]))]
Split(sets, masks) ==
  Chained(sets, SmallestOfChain(masks, BipartiteMatch({e \in masks \X masks : e[2] \subseteq e[1] /\ e[1] # e[2]})))
extract_rollup_sets(sets) ==
  IF ToSet(sets) \subseteq {<<>>} THEN <<sets>> ELSE Split(sets, {ToSet(s) : s \in ToSet(sets)} \ {{}})

\* The columns of each set in an order that makes the smaller sets prefixes, if possible of ORDER BY.
Reordered(acc, matched, rest, ahead) ==
  LET set == acc.previous \o matched \o rest
  IN [previous |-> set, result |-> <<set>> \o acc.result,
      sort |-> IF rest # <<>> /\ Len(matched) < Len(ahead) THEN <<>> ELSE acc.sort]
reorder_grouping_sets(sets, sortclause) ==
  LET Match(acc, new, ahead, matched) == Reordered(acc, matched, Without(new, ToSet(matched)), ahead)
      Ahead(acc, new, ahead) == Match(acc, new, ahead, Beginning(ahead, ToSet(new)))
      Reorder(acc, candidate) ==
        Ahead(acc, Without(candidate, ToSet(acc.previous)), SubSeq(acc.sort, Len(acc.previous) + 1, Len(acc.sort)))
      reordered[n \in 0..Len(sets)] ==
        IF n = 0 THEN [previous |-> <<>>, sort |-> sortclause, result |-> <<>>] ELSE Reorder(reordered[n - 1], sets[n])
  IN reordered[Len(sets)].result

remap_to_groupclause_idx(groupClause, sets) ==
  [i \in DOMAIN sets |-> [k \in DOMAIN sets[i] |-> CHOOSE n \in DOMAIN groupClause : groupClause[n] = sets[i][k]]]

Rollup(groupClause, sets, hashed) ==
  [groupClause |-> groupClause, gsets_data |-> sets, is_hashed |-> hashed,
   gsets |-> remap_to_groupclause_idx(groupClause, sets),
   hashable |-> sets[1] # <<>> /\ grouping_is_hashable(sets[1])]

RollupData(sets) == Rollup(IF sets[1] = <<>> THEN <<>> ELSE preprocess_groupclause(sets[1]), sets, FALSE)
Rollups(chains) ==
  [i \in DOMAIN chains |->
     RollupData(reorder_grouping_sets(chains[i], IF Len(chains) = 1 THEN query.sortClause ELSE <<>>))]
GroupingSetsData(rollups, unsortable) ==
  [rollups |-> rollups, unsortable_sets |-> unsortable,
   any_hashable |-> unsortable # <<>> \/ \E i \in DOMAIN rollups : rollups[i].hashable]
preprocess_grouping_sets(sortable, unsortable) ==
  GroupingSetsData(IF sortable = <<>> THEN <<>> ELSE Rollups(extract_rollup_sets(sortable)), unsortable)

ColumnRank == [a |-> 1, b |-> 2, c |-> 3, v |-> 4]

\* Windows whose columns start alike come one after the other, the longer first, to share a sort.
uniqueOrder(w) == w.partition \o Without(w.order, ToSet(w.partition))
common_prefix_cmp(w, x) ==
  LET s == uniqueOrder(w)
      t == uniqueOrder(x)
  IN \/ IsStrictPrefix(t, s)
     \/ \E i \in (DOMAIN s) \cap (DOMAIN t) : /\ ColumnRank[s[i]] > ColumnRank[t[i]]
                                             /\ \A j \in 1..i - 1 : s[j] = t[j]
SortedIn(w, windows) ==
  LET before == Beginning(windows, {x \in ToSet(windows) : ~common_prefix_cmp(w, x)})
  IN before \o <<w>> \o SubSeq(windows, Len(before) + 1, Len(windows))
active_windows == {w \in ToSet(query.windows) : w.used}
select_active_windows ==
  LET actives == Among(query.windows, active_windows)
      sorted[n \in 0..Len(actives)] == IF n = 0 THEN <<>> ELSE SortedIn(actives[n], sorted[n - 1])
  IN sorted[Len(actives)]

make_pathkeys_for_window(w) == make_pathkeys_for_sortclauses(w.partition \o w.order)

SortKeys(cols) == IF grouping_is_sortable(cols) THEN make_pathkeys_for_sortclauses(cols) ELSE <<>>
query_pathkeys(group, window, distinct, sort) ==
  IF group # <<>> THEN group ELSE IF window # <<>> THEN window
  ELSE IF Len(distinct) > Len(sort) THEN distinct ELSE sort
PathKeys(groupBy, group, window, distinct, sort) ==
  [gset_data |-> groupBy.gset_data, groupClause |-> groupBy.groupClause, activeWindows |-> groupBy.activeWindows,
   group_pathkeys |-> group, distinct_pathkeys |-> distinct, sort_pathkeys |-> sort,
   query_pathkeys |-> query_pathkeys(group, window, distinct, sort)]
standard_qp_callback(known) ==
  PathKeys(known,
    SortKeys(IF query.groupingSets = <<>> THEN known.groupClause
             ELSE IF known.gset_data.rollups = <<>> THEN <<>> ELSE known.gset_data.rollups[1].groupClause),
    IF known.activeWindows = <<>> THEN <<>> ELSE make_pathkeys_for_window(known.activeWindows[1]),
    SortKeys(query.distinctClause), make_pathkeys_for_sortclauses(query.sortClause))

have_grouping == query.groupClause # <<>> \/ query.groupingSets # <<>> \/ query.hasAggs \/ query.having # "none"

-----------------------------------------------------------------------------
(* Grouping.                                                                *)

can_sort == IF query.groupingSets = <<>> THEN grouping_is_sortable(root.groupClause)
            ELSE root.gset_data.rollups # <<>> \/ grouping_is_sortable(root.groupClause)
can_hash_All == /\ query.groupClause # <<>>
                /\ ~query.orderedAggs
                /\ grouping_is_hashable(root.groupClause)
can_hash == /\ query.groupClause # <<>>
            /\ ~query.orderedAggs
            /\ IF query.groupingSets # <<>> THEN root.gset_data.any_hashable
               ELSE grouping_is_hashable(root.groupClause)
can_partial_agg == /\ query.hasAggs \/ query.groupClause # <<>>
                   /\ query.groupingSets = <<>>
                   /\ ~query.nonPartialAggs
is_degenerate_grouping == /\ query.having # "none" \/ query.groupingSets # <<>>
                          /\ ~query.hasAggs /\ query.groupClause = <<>>

\* One Result row, or one for each of several empty grouping sets.
create_degenerate_grouping_paths ==
  LET row == [c \in Columns |-> Null]
      nrows == IF Len(query.groupingSets) > 1 THEN Len(query.groupingSets) ELSE 1
  IN {[streams |-> <<Filtered([n \in 1..nrows |-> row])>>, keys |-> <<>>]}

\* The sets of columns a rollup groups by: beginnings of its groupClause, unless it is hashed.
SetsGrouped(r) ==
  IF r.is_hashed THEN <<ToSet(r.gsets_data[1])>>
  ELSE [k \in DOMAIN r.gsets |-> ToSet(SubSeq(r.groupClause, 1, Len(r.gsets[k])))]

\* The first rollup that is not hashed takes the input as it comes, the others sort it again.
RowsOfRollups(rows, rollups) ==
  LET First(i) == \A j \in 1..i - 1 : rollups[j].is_hashed
      Input(i) == IF First(i) THEN rows ELSE Sort(rows, rollups[i].groupClause)
      Output(i) == IF rollups[i].is_hashed
                   THEN LET cols == SetsGrouped(rollups[i])[1]
                        IN Summaries(Buckets(rows, cols), cols, query.hasAggs)
                   ELSE RollUp(Input(i), SetsGrouped(rollups[i]), query.hasAggs)
  IN FlattenSeq([i \in DOMAIN rollups |-> Output(i)])
create_groupingsets_path_Ordered(p, strategy, rollups) ==
  OnStreams(p, LAMBDA rows : Filtered(RowsOfRollups(rows, rollups)), root.group_pathkeys)
create_groupingsets_path(p, strategy, rollups) ==
  OnStreams(p, LAMBDA rows : Filtered(RowsOfRollups(rows, rollups)),
            IF strategy = "sorted" /\ Len(rollups) = 1 /\ rollups[1].groupClause # <<>>
            THEN root.group_pathkeys ELSE <<>>)

SetsData(rollups) == FlattenSeq([i \in DOMAIN rollups |-> rollups[i].gsets_data])
HashedRollups(sets) == [i \in DOMAIN sets |-> Rollup(preprocess_groupclause(sets[i]), <<sets[i]>>, TRUE)]

\* All by hashing, but for the rollups given.
AllHashed(unhashed) ==
  LET rollups == root.gset_data.rollups
      others == SubSeq(rollups, Len(unhashed) + 1, Len(rollups))
      sets_data == root.gset_data.unsortable_sets \o SetsData(others)
      empty == Among(sets_data, {<<>>})
      hashed == HashedRollups(Without(sets_data, {<<>>}))
      rest == IF unhashed # <<>> \/ empty = <<>> THEN unhashed ELSE <<Rollup(<<>>, empty, FALSE)>>
  IN IF hashed = <<>> \/ \E i \in DOMAIN others : ~others[i].hashable THEN {} ELSE {hashed \o rest}
\* The first rollup need not be hashed if the input happens to be sorted for it.
HashedGroupingSets(p) ==
  LET rollups == root.gset_data.rollups
      unhashed == IF rollups # <<>> /\ pathkeys_contained_in(root.group_pathkeys, p.keys)
                  THEN <<rollups[1]>> ELSE <<>>
  IN {create_groupingsets_path(p, "mixed", r) : r \in AllHashed(unhashed)}

\* Some rollups by hashing: which, depends on their size and on hash_mem.
SomeHashed ==
  LET rollups == root.gset_data.rollups
      hashable == {i \in 2..Len(rollups) : rollups[i].hashable}
      Some(items) == LET order == InOrder(rollups, items) IN [n \in DOMAIN order |-> rollups[order[n]]]
      hash_sets(items) == root.gset_data.unsortable_sets \o SetsData(Some(items))
  IN {Reverse(HashedRollups(hash_sets(items))) \o Some(DOMAIN rollups \ items) :
        items \in {s \in SUBSET hashable : hash_sets(s) # <<>>}}
MixedGroupingSets(p) == {create_groupingsets_path(p, "mixed", r) : r \in SomeHashed}

consider_groupingsets_paths(p, is_sorted) ==
  IF ~is_sorted THEN HashedGroupingSets(p)
  ELSE IF root.gset_data.rollups = <<>> THEN {}
  ELSE (IF can_hash THEN MixedGroupingSets(p) ELSE {})
         \cup (IF root.gset_data.unsortable_sets # <<>> THEN {}
               ELSE {create_groupingsets_path(p, "sorted", root.gset_data.rollups)})

AggPaths(p, having) ==
  (IF can_sort THEN {create_sorted_agg_path(s, root.groupClause, having) :
                       s \in SortedPaths(p, root.group_pathkeys)} ELSE {})
    \cup (IF can_hash THEN {create_hashed_agg_path(p, root.groupClause, having)} ELSE {})
add_paths_to_grouping_rel(p) ==
  IF query.groupingSets = <<>> THEN AggPaths(p, TRUE)
  ELSE (IF can_sort THEN UNION {consider_groupingsets_paths(s, TRUE) : s \in SortedPaths(p, root.group_pathkeys)}
        ELSE {})
         \cup (IF can_hash THEN consider_groupingsets_paths(p, FALSE) ELSE {})
create_partial_grouping_paths(p) == AggPaths(p, FALSE)

-----------------------------------------------------------------------------
(* Gathering the rows of the workers.                                       *)

SortedGathers(p, keys) ==
  {create_gather_merge_path(s, keys) : s \in {create_sort_path(p, keys)} \cup Incremental(p, keys)}
generate_gather_paths(p) ==
  {create_gather_path(p)} \cup {create_gather_merge_path(p, k) : k \in {p.keys} \ {<<>>}}
get_useful_pathkeys_for_relation(available) ==
  LET keys == root.query_pathkeys
      n == CHOOSE n \in 0..Len(keys) : /\ \A i \in 1..n : keys[i] \in available
                                       /\ n = Len(keys) \/ keys[n + 1] \notin available
  IN {SubSeq(keys, 1, n)} \ {<<>>}
generate_useful_gather_paths(p, available) ==
  generate_gather_paths(p)
    \cup UNION {SortedGathers(p, k) : k \in {k \in get_useful_pathkeys_for_relation(available) :
                                              p.keys # <<>> /\ ~pathkeys_contained_in(k, p.keys)}}
gather_grouping_paths(p) ==
  generate_useful_gather_paths(p, ToSet(query.groupClause))
    \cup (IF pathkeys_contained_in(root.group_pathkeys, p.keys) THEN {} ELSE SortedGathers(p, root.group_pathkeys))

-----------------------------------------------------------------------------
(* Windows, DISTINCT, ORDER BY.                                             *)

create_windowagg_path(p, w) ==
  OnStreams(p, LAMBDA rows : WindowAgg(rows, w.name, ToSet(w.partition), ToSet(w.order)), p.keys)
create_one_window_path(p) ==
  LET Sorting(q, keys) == IF pathkeys_contained_in(keys, q.keys) THEN q ELSE create_sort_path(q, keys)
  IN FoldLeft(LAMBDA q, w : create_windowagg_path(Sorting(q, make_pathkeys_for_window(w)), w), p, root.activeWindows)

create_upper_unique_path(p, n) == OnStreams(p, LAMBDA rows : Unique(rows, ToSet(SubSeq(p.keys, 1, n))), p.keys)
\* An order that will do for Unique on p's own rows, and the one p is sorted by if it has to be.
create_distinct_paths(p) ==
  LET longer == Len(root.distinct_pathkeys) < Len(root.sort_pathkeys)
      presorted == IF query.hasDistinctOn /\ longer THEN root.sort_pathkeys ELSE root.distinct_pathkeys
      sorted == IF longer THEN root.sort_pathkeys ELSE root.distinct_pathkeys
      ToUnique == {s \in {p} : pathkeys_contained_in(presorted, p.keys)}
                    \cup {IF pathkeys_contained_in(sorted, p.keys) THEN p ELSE create_sort_path(p, sorted)}
      by_sort == IF ~grouping_is_sortable(query.distinctClause) THEN {}
                 ELSE {create_upper_unique_path(s, Len(root.distinct_pathkeys)) : s \in ToUnique}
      allow_hash == by_sort = {} \/ ~query.hasDistinctOn
  IN by_sort \cup (IF allow_hash /\ grouping_is_hashable(query.distinctClause)
                   THEN {OnStreams(p, LAMBDA rows : HashUnique(rows, ToSet(query.distinctClause)), <<>>)} ELSE {})

create_ordered_paths(p) ==
  IF Len(p.streams) = 1 THEN SortedPaths(p, root.sort_pathkeys)
  ELSE IF pathkeys_contained_in(root.sort_pathkeys, p.keys) THEN {} ELSE SortedGathers(p, root.sort_pathkeys)

NoLimit == 99
limit_needed == query.limitCount # NoLimit \/ query.limitOffset # 0
create_limit_path(p) ==
  OnStreams(p, LAMBDA rows : Limit(rows, query.limitOffset, query.limitCount), p.keys)

-----------------------------------------------------------------------------
(* One plan.                                                                *)

NoPath == [streams |-> <<>>, keys |-> <<>>]
IsPartial == Len(path.streams) > 1

Init ==
  /\ query \in Queries
  /\ table \in Tables
  /\ phase = "parsed"
  /\ path = NoPath
  /\ root = <<>>
  /\ error = "none"

Raise(what) == error' = what /\ UNCHANGED <<query, table, phase, path, root>>

\* Continue from one of the paths found for an upper relation.
Plan(paths, rel) ==
  /\ \E p \in paths : path' = p
  /\ phase' = rel
  /\ UNCHANGED <<query, table, root, error>>

\* Grouping sets with columns that cannot be sorted go their own way.
GroupBy(unsortable) ==
  IF query.groupingSets # <<>> /\ \E i \in DOMAIN unsortable : ~grouping_is_hashable(unsortable[i])
  THEN Raise("could not implement GROUP BY")
  ELSE /\ phase' = "preprocessed"
       /\ root' = [gset_data |-> preprocess_grouping_sets(Without(query.groupingSets, ToSet(unsortable)), unsortable),
                   groupClause |-> IF query.groupingSets # <<>> \/ query.groupClause = <<>> THEN query.groupClause
                                   ELSE preprocess_groupclause(<<>>),
                   activeWindows |-> select_active_windows]
       /\ UNCHANGED <<query, table, path, error>>
Preprocess ==
  /\ phase = "parsed" /\ error = "none"
  /\ GroupBy(Among(query.groupingSets, {s \in ToSet(query.groupingSets) : ~grouping_is_sortable(s)}))

DerivePathKeys ==
  /\ phase = "preprocessed" /\ error = "none"
  /\ IF \E w \in ToSet(root.activeWindows) : ~grouping_is_sortable(w.partition \o w.order)
     THEN Raise("could not implement window")
     ELSE /\ phase' = "planning"
          /\ root' = standard_qp_callback(root)
          /\ UNCHANGED <<query, table, path, error>>

\* The joined relation offers its rows in no order or in that of an index, whole or by two workers.
ScanJoinPaths ==
  /\ phase = "planning" /\ from.parts = <<>>
  /\ \E index \in {cols \in {<<>>, <<"a">>, <<"b">>, <<"a", "b">>} : grouping_is_sortable(cols)}, workers \in 1..2 :
       LET rows == Sort(Joined, index)
           streams == IF workers = 1 THEN <<rows>> ELSE <<Worker(rows, 1), Worker(rows, 0)>>
       IN Plan({[streams |-> streams, keys |-> make_pathkeys_for_sortclauses(index)]}, "scanjoin")

\* Or it is read part by part.
AppendPaths ==
  /\ phase = "planning" /\ from.parts # <<>>
  /\ LET rel == set_append_rel_pathlist(from)
     IN Plan({[streams |-> p.streams, keys |-> p.keys] : p \in rel.pathlist \cup rel.partial_pathlist}, "scanjoin")

GatherScanJoin ==
  /\ phase = "scanjoin" /\ IsPartial
  /\ Plan(generate_useful_gather_paths(path, {"a", "b", "c", "v"}), "scanjoin")

CreateGroupingPaths ==
  /\ phase = "scanjoin" /\ ~IsPartial /\ have_grouping /\ error = "none"
  /\ LET paths == IF is_degenerate_grouping THEN create_degenerate_grouping_paths
                  ELSE add_paths_to_grouping_rel(path)
     IN IF paths = {} THEN Raise("could not implement GROUP BY") ELSE Plan(paths, "grouped")

CreatePartialGroupingPaths ==
  /\ phase = "scanjoin" /\ IsPartial /\ have_grouping /\ can_partial_agg
  /\ Plan(create_partial_grouping_paths(path), "partially grouped")
GatherGroupingPaths ==
  /\ phase = "partially grouped" /\ IsPartial
  /\ Plan(gather_grouping_paths(path), "partially grouped")
FinalizeGroups ==
  /\ phase = "partially grouped" /\ ~IsPartial
  /\ Plan(AggPaths(path, TRUE), "grouped")

\* Steps the statement does not ask for are passed over.
AfterGrouping == phase = "grouped" \/ (phase = "scanjoin" /\ ~have_grouping)
AfterWindows == phase = "windowed" \/ (AfterGrouping /\ root.activeWindows = <<>>)
AfterDistinct == phase = "distinct" \/ (AfterWindows /\ query.distinctClause = <<>>)
AfterOrdering == phase = "ordered" \/ (AfterDistinct /\ query.sortClause = <<>>)

CreateWindowPaths ==
  /\ AfterGrouping /\ ~IsPartial /\ root.activeWindows # <<>>
  /\ Plan({create_one_window_path(path)}, "windowed")
CreateDistinctPaths ==
  /\ AfterWindows /\ ~IsPartial /\ query.distinctClause # <<>> /\ error = "none"
  /\ LET paths == create_distinct_paths(path)
     IN IF paths = {} THEN Raise("could not implement DISTINCT") ELSE Plan(paths, "distinct")
CreateOrderedPaths ==
  /\ AfterDistinct /\ query.sortClause # <<>>
  /\ Plan(create_ordered_paths(path), "ordered")
CreateFinalPath ==
  /\ AfterOrdering /\ ~IsPartial
  /\ Plan({IF limit_needed THEN create_limit_path(path) ELSE path}, "final")

Planned == (phase = "final" \/ error # "none") /\ UNCHANGED vars

Next ==
  \/ Preprocess \/ DerivePathKeys \/ ScanJoinPaths \/ AppendPaths \/ GatherScanJoin
  \/ CreateGroupingPaths \/ CreatePartialGroupingPaths \/ GatherGroupingPaths \/ FinalizeGroups
  \/ CreateWindowPaths \/ CreateDistinctPaths \/ CreateOrderedPaths \/ CreateFinalPath
  \/ Planned
Spec == Init /\ [][Next]_vars

-----------------------------------------------------------------------------
(* The statement as written.                                                *)

GroupsOf(rows, cols) ==
  IF cols = {} THEN <<Summary(rows, {}, query.hasAggs)>>
  ELSE Summaries(Buckets(rows, cols), cols, query.hasAggs)
AsGrouped ==
  LET sets == IF query.groupingSets = <<>> THEN <<query.groupClause>> ELSE query.groupingSets
  IN IF ~have_grouping THEN Joined
     ELSE Filtered(FlattenSeq([i \in DOMAIN sets |-> GroupsOf(Joined, ToSet(sets[i]))]))
WindowValue(rows, row, w) ==
  SumSeq([i \in DOMAIN rows |-> IF Alike(rows[i], row, ToSet(w.partition)) /\ ~Less(row, rows[i], w.order)
                                THEN rows[i].v ELSE 0])
AsWindowed ==
  LET rows == AsGrouped
      used == {w \in ToSet(query.windows) : w.used}
      WithValues(row) == [c \in Columns |-> IF \E w \in used : w.name = c
                                            THEN WindowValue(rows, row, CHOOSE w \in used : w.name = c) ELSE row[c]]
  IN [i \in DOMAIN rows |-> WithValues(rows[i])]

Times(row, rows) == Cardinality({i \in DOMAIN rows : rows[i] = row})
Within(rows, others) == \A row \in ToSet(rows) : Times(row, rows) <= Times(row, others)
Only(rows, cols) == [i \in DOMAIN rows |-> [c \in cols |-> rows[i][c]]]

\* With DISTINCT ON, ORDER BY says which of the rows alike is meant.
MeantRow(row, rows) == query.hasDistinctOn =>
  \A i \in DOMAIN rows : Alike(rows[i], row, ToSet(query.distinctClause)) => ~Less(rows[i], row, query.sortClause)
AsDistinct(rows) ==
  LET cols == ToSet(query.distinctClause)
  IN IF query.distinctClause = <<>> THEN rows
     ELSE IF query.hasDistinctOn THEN HashUnique(SelectSeq(rows, LAMBDA row : MeantRow(row, rows)), cols)
     ELSE Only(HashUnique(rows, cols), cols)
Asked(rows, all) ==
  LET output == IF query.distinctClause = <<>> \/ query.hasDistinctOn THEN Columns ELSE ToSet(query.distinctClause)
      shown == Only(rows, output)
      meant == AsDistinct(all)
      slice == Limit(Sort(meant, query.sortClause), query.limitOffset, query.limitCount)
  IN /\ Only(shown, ToSet(query.sortClause)) = Only(slice, ToSet(query.sortClause))
     /\ Within(shown, IF query.hasDistinctOn THEN all ELSE meant)
     /\ query.hasDistinctOn =>
          /\ \A i \in DOMAIN rows : MeantRow(rows[i], all)
          /\ \A i, j \in DOMAIN rows : Alike(rows[i], rows[j], ToSet(query.distinctClause)) => i = j

-----------------------------------------------------------------------------
(* Properties.                                                              *)

RowSeq(rows) == \A i \in DOMAIN rows : DOMAIN rows[i] = Columns
\* The state is well formed: rows have all columns, and no upper relation is left to the workers.
TypeOK ==
  /\ query \in Queries /\ table \in Tables
  /\ phase \in {"parsed", "preprocessed", "planning", "scanjoin", "partially grouped", "grouped", "windowed", "distinct", "ordered", "final"}
  /\ phase \in {"scanjoin", "partially grouped"} => Len(path.streams) \in 1..2
  /\ phase \in {"grouped", "windowed", "distinct", "ordered", "final"} => Len(path.streams) = 1
  /\ \A w \in DOMAIN path.streams : RowSeq(path.streams[w])
  /\ error \in {"none", "could not implement GROUP BY", "could not implement window", "could not implement DISTINCT"}

\* Keys found redundant because of WHERE are not once grouping sets put nulls in their columns.
NullsFree == query.groupingSets = <<>> \/ query.where = "none"

\* Each worker's rows are in the order the planner will rely on (path.pathkeys).
SortedAsClaimed ==
  TypeOK /\ (NullsFree => \A w \in DOMAIN path.streams : Sorted(path.streams[w], path.keys))

\* Every finished plan answers the statement: the rows it asks for, in an order it asks for.
AnswersQuery == phase = "final" /\ NullsFree => Asked(Rows(path), AsWindowed)

\* The rollups by which grouping sets may be computed.
GroupingWays ==
  LET rollups == root.gset_data.rollups
  IN {r \in {rollups} : root.gset_data.unsortable_sets = <<>>} \cup SomeHashed
       \cup AllHashed(<<>>) \cup (IF rollups = <<>> THEN {} ELSE AllHashed(<<rollups[1]>>))

\* Whichever way they are computed, each grouping set is as often as the statement asks for it,
\* by its own columns.
EverySetGrouped ==
  phase = "planning" => \A rollups \in GroupingWays, cols \in SUBSET Columns :
    Times(cols, FlattenSeq([i \in DOMAIN rollups |-> SetsGrouped(rollups[i])]))
      = Times(cols, [k \in DOMAIN query.groupingSets |-> ToSet(query.groupingSets[k])])

\* A statement is refused only if neither sorting nor hashing could do it.
RefusedOnlyIfImpossible ==
  LET Neither(cols) == ~grouping_is_sortable(cols) /\ (~grouping_is_hashable(cols) \/ query.orderedAggs)
  IN /\ error = "could not implement GROUP BY" =>
          \E cols \in ToSet(query.groupingSets)
                      \cup (IF query.groupingSets = <<>> THEN {query.groupClause} ELSE {}) : Neither(cols)
     /\ error = "could not implement DISTINCT" =>
          ~grouping_is_sortable(query.distinctClause)
            /\ ~grouping_is_hashable(query.distinctClause)
     /\ error = "could not implement window" =>
          \E w \in active_windows : ~grouping_is_sortable(w.partition \o w.order)

\* Columns that can only be sorted, or only hashed, neither make the planner refuse what can be
\* done nor lose or repeat a grouping set.
GroupingSound == RefusedOnlyIfImpossible /\ EverySetGrouped
=============================================================================
