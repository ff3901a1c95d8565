------------------------------ MODULE JoinMethods ------------------------------
(***************************************************************************)
(* joinpath.c: the ways to join an outer and an inner relation, given their *)
(* paths; pathkeys.c: the orders a merge join asks for and gives;           *)
(* analyzejoins.c: joins that need not be done and inner relations with at  *)
(* most one match; createplan.c: the join nodes.  Costs are not modelled:   *)
(* where they choose, any path may be chosen.                               *)
(*                                                                         *)
(* A join is [type, clauses, classes, query, needed, outer, inner]: query   *)
(* the order asked for, needed the columns used above.  A relation is       *)
(* [rows, source, paths, partial]; a path [k, keys, param, safe, mark]:     *)
(* its kind and order, whether it takes parameters from the other side,     *)
(* whether a worker may run it and whether it can back up.  The first path  *)
(* is the cheapest.  A class is [cols, const, above]: above counts the      *)
(* columns of other relations in it.                                        *)
(***************************************************************************)
EXTENDS JoinNodes

CONSTANT Joins
VARIABLES join, phase, merge, paths, plan
vars == <<join, phase, merge, paths, plan>>

Outer == join.outer
Inner == join.inner
IsOuterJoin(type) == type \in {"left", "right", "full", "anti"}
\* What createplan joins with once an input has been made unique.
AsInner(type) == IF type \in {"unique outer", "unique inner"} THEN "inner" ELSE type
ClassOf(col) == CHOOSE ec \in join.classes : col \in ec.cols
Has(c, cols) == c.l \in cols \/ c.r \in cols
clause_sides_match_join(c) == Has(c, OuterCols) /\ Has(c, InnerCols)
OuterCol(c) == IF c.l \in OuterCols THEN c.l ELSE c.r
InnerCol(c) == IF c.l \in OuterCols THEN c.r ELSE c.l
CanMerge(c) == c.op \in {"=", "=m"}
CanHash(c) == c.op \in {"=", "=h"}
\* The clauses of the join itself, not those pushed down to it.
Own(c) == ~(IsOuterJoin(join.type) /\ c.pushed)
OwnClauses == SelectSeq(join.clauses, Own)

----
(* analyzejoins.c *)
query_supports_distinctness(q) ==
  (~q.srf \/ q.distinct # {}) /\ (q.distinct # {} \/ q.group # {} \/ q.sets # "none" \/ q.aggs \/ q.setop # "none")
query_is_distinct_for_Grouped(q, cols) ==
  \/ q.distinct # {} /\ q.distinct \subseteq cols
  \/ ~q.srf /\ \/ q.group # {} /\ q.group \subseteq cols
               \/ q.aggs
               \/ q.setop = "distinct" /\ InnerCols \subseteq cols
query_is_distinct_for(q, cols) ==
  \/ q.distinct # {} /\ q.distinct \subseteq cols
  \/ ~q.srf /\ CASE q.group # {} /\ q.sets = "none" -> \/ q.group \subseteq cols
                                                       \/ q.setop = "distinct" /\ InnerCols \subseteq cols
                 [] q.sets # "none" -> q.group = {} /\ q.sets = "empty"
                 [] OTHER -> q.aggs \/ (q.setop = "distinct" /\ InnerCols \subseteq cols)
rel_supports_distinctness(source) ==
  IF source.kind = "table" THEN source.unique # {} ELSE query_supports_distinctness(source)
rel_is_distinct_for(source, cols) ==
  IF source.kind = "table" THEN \E key \in source.unique : key \subseteq cols ELSE query_is_distinct_for(source, cols)
is_innerrel_unique_for ==
  rel_is_distinct_for(Inner.source,
                      {InnerCol(c) : c \in {d \in ToSet(OwnClauses) : CanMerge(d) /\ clause_sides_match_join(d)}})
innerrel_is_unique == join.clauses # <<>> /\ rel_supports_distinctness(Inner.source) /\ is_innerrel_unique_for
join_is_removable ==
  /\ join.type = "left" /\ rel_supports_distinctness(Inner.source)
  /\ join.needed \subseteq OuterCols
  /\ \A n \in DOMAIN join.clauses : join.clauses[n].pushed => ~Has(join.clauses[n], InnerCols)
  /\ is_innerrel_unique_for

----
(* pathkeys.c *)
Key(ec, like) == [ec |-> ec, desc |-> like.desc, nf |-> like.nf]
Ascending == [desc |-> FALSE, nf |-> FALSE]
pathkey_is_redundant(key, keys) == key.ec.const \/ \E n \in DOMAIN keys : keys[n].ec = key.ec
Adding(keys, key) == IF pathkey_is_redundant(key, keys) THEN keys ELSE Append(keys, key)
OuterClass(c) == ClassOf(OuterCol(c))
InnerClass(c) == ClassOf(InnerCol(c))
find_mergeclauses_for_outer_pathkeys_Any(keys, clauses) ==
  Concat([n \in DOMAIN keys |-> SelectSeq(clauses, LAMBDA c : OuterClass(c) = keys[n].ec)])
find_mergeclauses_for_outer_pathkeys(keys, clauses) ==
  LET of == [n \in DOMAIN keys |-> SelectSeq(clauses, LAMBDA c : OuterClass(c) = keys[n].ec)]
      upto == CHOOSE n \in 0..Len(keys) : (\A k \in 1..n : of[k] # <<>>) /\ (n = Len(keys) \/ of[n + 1] = <<>>)
  IN Concat(SubSeq(of, 1, upto))
\* The order asked for, if the clauses can use all of it; then by how much a class is wanted above.
ByScore(list, ec) ==
  LET better == {n \in DOMAIN list : list[n].above >= ec.above}
      place == IF better = {} THEN 1 ELSE 1 + CHOOSE n \in better : \A k \in better : k <= n
  IN IF ec \in ToSet(list) THEN list ELSE InsertAt(list, place, ec)
select_outer_pathkeys_for_merge(clauses) ==
  LET classes == {OuterClass(clauses[n]) : n \in DOMAIN clauses}
      first == IF \A n \in DOMAIN join.query : join.query[n].ec \in classes THEN join.query ELSE <<>>
      others == FoldLeft(ByScore, <<>>, [n \in DOMAIN clauses |-> OuterClass(clauses[n])])
      more == SelectSeq(others, LAMBDA ec : ~\E n \in DOMAIN first : first[n].ec = ec)
  IN first \o [n \in DOMAIN more |-> Key(more[n], Ascending)]
\* Which of the outer keys the nth clause goes with: one further for each change of class.
PlaceOf(clauses, n) ==
  Cardinality({k \in 1..n : k = 1 \/ OuterClass(clauses[k]) # OuterClass(clauses[k - 1])})
KeysMatch(clauses, okeys) ==
  \A n \in DOMAIN clauses : PlaceOf(clauses, n) <= Len(okeys) /\ okeys[PlaceOf(clauses, n)].ec = OuterClass(clauses[n])
make_inner_pathkeys_for_merge(clauses, okeys) ==
  FoldLeft(LAMBDA keys, n : Adding(keys, Key(InnerClass(clauses[n]), okeys[PlaceOf(clauses, n)])), <<>>, [n \in DOMAIN clauses |-> n])
trim_mergeclauses_for_inner_pathkeys(clauses, keys) ==
  LET Take(acc, c) ==
        IF acc.stop THEN acc
        ELSE IF keys[acc.at].ec = InnerClass(c) THEN [acc EXCEPT !.out = Append(@, c), !.matched = TRUE]
        ELSE IF acc.matched /\ acc.at < Len(keys) /\ keys[acc.at + 1].ec = InnerClass(c)
        THEN [acc EXCEPT !.out = Append(@, c), !.at = @ + 1]
        ELSE [acc EXCEPT !.stop = TRUE]
  IN FoldLeft(Take, [at |-> 1, matched |-> FALSE, stop |-> FALSE, out |-> <<>>], clauses).out
right_merge_direction(key) ==
  LET asked == {n \in DOMAIN join.query : join.query[n].ec = key.ec}
  IN IF asked = {} THEN ~key.desc ELSE \A n \in asked : join.query[n].desc = key.desc
truncate_useless_pathkeys(keys) ==
  LET Merges(n) == \A k \in 1..n : right_merge_direction(keys[k]) /\ keys[k].ec.above > 0
      Orders(n) == n <= Len(join.query) /\ \A k \in 1..n : keys[k] = join.query[k]
  IN SubSeq(keys, 1, CHOOSE n \in 0..Len(keys) : /\ Merges(n) \/ Orders(n)
                                                 /\ \A k \in n + 1..Len(keys) : ~Merges(k) /\ ~Orders(k))
build_join_pathkeys_Always(type, keys) == truncate_useless_pathkeys(keys)
build_join_pathkeys(type, keys) == IF type \in {"full", "right"} THEN <<>> ELSE truncate_useless_pathkeys(keys)

----
(* joinpath.c *)
PathsOf(rel) == ToSet(rel.paths)
Cheapest(rel) == rel.paths[1]
cheapest_parameterized_paths(rel) == {Cheapest(rel)} \cup {p \in PathsOf(rel) : p.param}
Partials(rel) == ToSet(rel.partial)
get_cheapest_path_for_pathkeys(rel, keys, safe) ==
  {p \in PathsOf(rel) : ~p.param /\ IsPrefix(keys, p.keys) /\ (safe => p.safe)}
SafeInner(path) == IF path.safe THEN {path} ELSE {p \in PathsOf(Inner) : p.safe /\ ~p.param}
create_material_path(path) == [path EXCEPT !.k = "Material", !.mark = TRUE]
\* A side of a semijoin's clause values, once each: nothing to do if they are unique already.
create_unique_path(rel, path) ==
  LET cols == {IF rel = Outer THEN OuterCol(c) ELSE InnerCol(c) : c \in ToSet(join.clauses)}
  IN IF rel_supports_distinctness(rel.source) /\ rel_is_distinct_for(rel.source, cols) THEN path
     ELSE [path EXCEPT !.k = "Unique", !.keys = <<>>, !.mark = FALSE]
JoinPath(k, outer, inner, clauses, okeys, ikeys, keys, partial) ==
  [k |-> k, outer |-> outer, inner |-> inner, clauses |-> clauses, okeys |-> okeys, ikeys |-> ikeys, keys |-> keys,
   partial |-> partial, shared |-> FALSE]
OuterUnique == join.type = "unique outer"
InnerUnique == join.type = "unique inner"
type == AsInner(join.type)

\* [clauses, allowed]: for right and full joins every clause must be merged.
select_mergejoin_clauses ==
  LET Usable(c) == /\ CanMerge(c) /\ clause_sides_match_join(c)
                   /\ ~OuterClass(c).const /\ ~InnerClass(c).const
  IN [clauses |-> SelectSeq(OwnClauses, Usable),
      allowed |-> type \notin {"right", "full"} \/ \A n \in DOMAIN OwnClauses : Usable(OwnClauses[n]) \/ OwnClauses[n].op = "false"]

\* An input already in order is not sorted.
Sorting(keys, path) == IF IsPrefix(keys, path.keys) THEN <<>> ELSE keys
try_mergejoin_path(outer, inner, keys, clauses, okeys, ikeys, partial) ==
  IF outer.param \/ inner.param THEN {}
  ELSE {JoinPath("Merge", outer, inner, clauses, Sorting(okeys, outer), Sorting(ikeys, inner), keys, partial)}
try_nestloop_path(outer, inner, keys) == {JoinPath("Nest", outer, inner, <<>>, <<>>, <<>>, keys, FALSE)}
try_partial_nestloop_path(outer, inner, keys) == {JoinPath("Nest", outer, inner, <<>>, <<>>, <<>>, keys, TRUE)}
try_hashjoin_path(outer, inner, clauses) ==
  IF outer.param \/ inner.param THEN {} ELSE {JoinPath("Hash", outer, inner, clauses, <<>>, <<>>, <<>>, FALSE)}
try_partial_hashjoin_path(outer, inner, clauses, shared) ==
  IF inner.param THEN {} ELSE {[JoinPath("Hash", outer, inner, clauses, <<>>, <<>>, <<>>, TRUE) EXCEPT !.shared = shared]}
\* Workers that each see some outer rows must not have to say which inner rows found no match.
MayBePartial == Partials(Outer) # {} /\ join.type \notin {"unique outer", "full", "right"}

sort_inner_and_outer ==
  LET outer == IF OuterUnique THEN create_unique_path(Outer, Cheapest(Outer)) ELSE Cheapest(Outer)
      inner == IF InnerUnique THEN create_unique_path(Inner, Cheapest(Inner)) ELSE Cheapest(Inner)
      all == select_outer_pathkeys_for_merge(merge.clauses)
      Outerkeys(n) == <<all[n]>> \o SelectSeq(all, LAMBDA key : key # all[n])
      Try(okeys, clauses, ikeys, keys) ==
        try_mergejoin_path(outer, inner, keys, clauses, okeys, ikeys, FALSE)
        \cup IF MayBePartial
             THEN UNION {try_mergejoin_path(Outer.partial[1], safe, keys, clauses, okeys, ikeys, TRUE) :
                           safe \in IF InnerUnique THEN {p \in {inner} : p.safe} ELSE SafeInner(inner)}
             ELSE {}
      With(okeys, clauses) == Try(okeys, clauses, make_inner_pathkeys_for_merge(clauses, okeys), build_join_pathkeys(type, okeys))
  IN IF Cheapest(Outer).param \/ Cheapest(Inner).param THEN {}
     ELSE UNION {With(Outerkeys(n), find_mergeclauses_for_outer_pathkeys(Outerkeys(n), merge.clauses)) : n \in DOMAIN all}

\* Outer paths already in some order, with the inner one sorted or found in a fitting order.
generate_mergejoin_paths(outer, inner, useall, keys, partial) ==
  LET clauses == find_mergeclauses_for_outer_pathkeys(outer.keys, merge.clauses)
      ikeys == make_inner_pathkeys_for_merge(clauses, outer.keys)
      Trial(n) ==
        UNION {try_mergejoin_path(outer, found, keys,
                 IF n < Len(ikeys) THEN trim_mergeclauses_for_inner_pathkeys(clauses, SubSeq(ikeys, 1, n)) ELSE clauses,
                 <<>>, <<>>, partial) : found \in get_cheapest_path_for_pathkeys(Inner, SubSeq(ikeys, 1, n), partial)}
  IN IF \/ clauses = <<>> /\ type # "full"
        \/ useall /\ Len(clauses) # Len(merge.clauses)
     THEN {}
     ELSE try_mergejoin_path(outer, inner, keys, clauses, <<>>, ikeys, partial)
          \cup (IF InnerUnique THEN {} ELSE UNION {Trial(n) : n \in IF useall THEN {Len(ikeys)} \ {0} ELSE 1..Len(ikeys)})

InnerTotal == IF Cheapest(Inner).param THEN {} ELSE {IF InnerUnique THEN create_unique_path(Inner, Cheapest(Inner)) ELSE Cheapest(Inner)}
UseAll == type \in {"right", "full"}
NestOuters == {p \in PathsOf(Outer) : ~p.param /\ (OuterUnique => p = Cheapest(Outer))}
nestloop_paths(outer, keys) ==
  IF UseAll THEN {}
  ELSE IF InnerUnique THEN UNION {try_nestloop_path(outer, p, keys) : p \in InnerTotal}
  ELSE UNION {try_nestloop_path(outer, p, keys) :
                p \in cheapest_parameterized_paths(Inner) \cup {create_material_path(q) : q \in InnerTotal}}
match_unsorted_outer ==
  IF InnerUnique /\ InnerTotal = {} THEN {}
  ELSE UNION {LET outer == IF OuterUnique THEN create_unique_path(Outer, p) ELSE p
                  keys == build_join_pathkeys(type, outer.keys)
              IN nestloop_paths(outer, keys)
                 \cup IF OuterUnique THEN {}
                      ELSE UNION {generate_mergejoin_paths(outer, inner, UseAll, keys, FALSE) : inner \in InnerTotal} : p \in NestOuters}

consider_parallel_nestloop ==
  UNION {try_partial_nestloop_path(outer, IF InnerUnique THEN create_unique_path(Inner, inner) ELSE inner, build_join_pathkeys(type, outer.keys)) :
           outer \in Partials(Outer),
           inner \in {p \in cheapest_parameterized_paths(Inner) : p.safe /\ (InnerUnique => p = Cheapest(Inner))}}
consider_parallel_mergejoin ==
  LET inners == IF InnerTotal # {} /\ \A p \in InnerTotal : p.safe THEN InnerTotal
                ELSE IF InnerUnique THEN {} ELSE {p \in PathsOf(Inner) : p.safe /\ ~p.param}
  IN UNION {generate_mergejoin_paths(outer, inner, FALSE, build_join_pathkeys(type, outer.keys), TRUE) :
              outer \in Partials(Outer), inner \in inners}

hash_inner_and_outer ==
  LET clauses == SelectSeq(OwnClauses, LAMBDA c : CanHash(c) /\ clause_sides_match_join(c))
      outer == IF OuterUnique THEN create_unique_path(Outer, Cheapest(Outer)) ELSE Cheapest(Outer)
      inner == IF InnerUnique THEN create_unique_path(Inner, Cheapest(Inner)) ELSE Cheapest(Inner)
      Startup(o) == IF OuterUnique THEN {o} ELSE {o} \cup {p \in PathsOf(Outer) : ~p.param}
      serial == UNION {try_hashjoin_path(p, inner, clauses) : p \in Startup(outer)}
      shared == IF Inner.partial # <<>> /\ ~InnerUnique THEN try_partial_hashjoin_path(Outer.partial[1], Inner.partial[1], clauses, TRUE) ELSE {}
      own == UNION {try_partial_hashjoin_path(Outer.partial[1], safe, clauses, FALSE) :
                      safe \in IF InnerUnique THEN {p \in {inner} : p.safe} ELSE SafeInner(inner)}
  IN IF clauses = <<>> \/ Cheapest(Outer).param \/ Cheapest(Inner).param THEN {}
     ELSE serial \cup (IF MayBePartial THEN shared \cup own ELSE {})

----
(* createplan.c *)
join_clause_is_movable_into(c) == Has(c, InnerCols) /\ ~(IsOuterJoin(join.type) /\ c.pushed)
Restricting(path) ==
  IF path.k = "Nest" /\ path.inner.param THEN SelectSeq(join.clauses, LAMBDA c : ~join_clause_is_movable_into(c)) ELSE join.clauses
JoinQuals(path) == SelectSeq(Restricting(path), LAMBDA c : Own(c) /\ c \notin ToSet(path.clauses))
OtherQuals(path) == SelectSeq(Restricting(path), LAMBDA c : ~Own(c))
get_switched_clauses(clauses) == [n \in DOMAIN clauses |-> [clauses[n] EXCEPT !.l = OuterCol(clauses[n]), !.r = InnerCol(clauses[n])]]
InnerIsUnique == CASE join.type \in {"semi", "anti"} -> FALSE [] InnerUnique -> TRUE [] OTHER -> merge.unique
Single == type = "semi" \/ InnerIsUnique
skip_mark_restore(path) ==
  (type \in {"semi", "anti"} \/ InnerIsUnique) /\ Len(join.clauses) = Len(path.clauses)
materialize_inner(path) == ~skip_mark_restore(path) /\ path.ikeys = <<>> /\ ~path.inner.mark
OuterKeys(path) == IF path.okeys # <<>> THEN path.okeys ELSE path.outer.keys
InnerKeys(path) == IF path.ikeys # <<>> THEN path.ikeys ELSE path.inner.keys
\* Each clause needs a key on either side: on the inner one the next, in the same direction, or an earlier one.
InnerKeysMatch(path) ==
  LET ikeys == InnerKeys(path)
      Step(acc, n) ==
        LET ec == InnerClass(path.clauses[n])
            okey == OuterKeys(path)[PlaceOf(path.clauses, n)]
            first == acc.at <= Len(ikeys) /\ ikeys[acc.at].ec = ec
        IN [at |-> IF first THEN acc.at + 1 ELSE acc.at,
            ok |-> acc.ok /\ IF first THEN Key(ec, okey) = ikeys[acc.at] ELSE \E k \in 1..acc.at - 1 : k <= Len(ikeys) /\ ikeys[k].ec = ec]
  IN FoldLeft(Step, [at |-> 1, ok |-> TRUE], [n \in DOMAIN path.clauses |-> n]).ok
PlanFails(path) ==
  path.k = "Merge" /\ \/ ~KeysMatch(path.clauses, OuterKeys(path))
                      \/ ~InnerKeysMatch(path)
                      \/ /\ ~skip_mark_restore(path) /\ ~materialize_inner(path)
                         /\ path.ikeys = <<>> /\ ~path.inner.mark

----
(* Running a plan.                                                           *)
Distinct(rows, cols) ==
  SelectSeq(rows, LAMBDA r : ~\E s \in ToSet(rows) : (\A c \in cols : s[c] = r[c]) /\ (s # r) /\
                             (IF "n" \in DOMAIN r THEN s.n < r.n ELSE s.m < r.m))
RowsOf(rel, path) ==
  LET cols == {IF rel = Outer THEN OuterCol(c) ELSE InnerCol(c) : c \in ToSet(join.clauses)}
  IN IF path.k = "Unique" THEN Distinct(rel.rows, cols) ELSE Sort(rel.rows, path.keys)
Worker(row) == (IF "n" \in DOMAIN row THEN row.n ELSE row.m) % 2
Share(path, rows, w) == IF path.k = "Partial" THEN SelectSeq(rows, LAMBDA r : Worker(r) = w) ELSE rows
\* What an inner path with parameters finds for an outer row.
Rescans(path, outers, inners) ==
  LET moved == SelectSeq(join.clauses, join_clause_is_movable_into)
  IN [n \in DOMAIN outers |-> IF path.inner.param THEN SelectSeq(inners, LAMBDA i : AllHold(moved, outers[n] @@ i)) ELSE inners]
MergeNode(path) ==
  LET clauses == get_switched_clauses(path.clauses)
  IN [type |-> type, single |-> Single, backs |-> ~skip_mark_restore(path), clauses |-> clauses,
      keys |-> [n \in DOMAIN clauses |-> OuterKeys(path)[PlaceOf(path.clauses, n)]],
      joinquals |-> JoinQuals(path), otherquals |-> OtherQuals(path),
      never |-> \E n \in DOMAIN OwnClauses : OwnClauses[n].op = "false"]
Joined(path, outers, inners) ==
  CASE path.k = "Nest" -> NestLoop(type, Single, outers, Rescans(path, outers, inners), JoinQuals(path), OtherQuals(path))
    [] path.k = "Hash" -> HashJoin(type, Single, outers, inners, path.clauses, JoinQuals(path), OtherQuals(path))
    [] OTHER -> MergeJoin(MergeNode(path), IF path.okeys # <<>> THEN Sort(outers, path.okeys) ELSE outers,
                          IF path.ikeys # <<>> THEN Sort(inners, path.ikeys) ELSE inners)
Workers(path) == IF path.partial THEN {0, 1} ELSE {0}
Output(path) ==
  LET outers == RowsOf(Outer, path.outer)
      inners == RowsOf(Inner, path.inner)
  IN [w \in Workers(path) |-> Joined(path, Share(path.outer, outers, w), IF path.shared THEN inners ELSE Share(path.inner, inners, w))]

----
NotYet == [path |-> [k |-> "None"]]
Init ==
  /\ join \in Joins
  /\ phase = "simplify" /\ merge = [clauses |-> <<>>, allowed |-> FALSE, unique |-> FALSE]
  /\ paths = {} /\ plan = NotYet

\* A left join whose inner side is neither used nor changes the number of rows is dropped; a semijoin
\* with at most one match becomes a plain join.
simplify ==
  /\ phase = "simplify"
  /\ IF join_is_removable
     THEN /\ plan' = [path |-> [k |-> "Outer", keys |-> <<>>, partial |-> FALSE], fails |-> FALSE, out |-> [w \in {0} |-> Outer.rows]]
          /\ phase' = "done" /\ UNCHANGED join
     ELSE /\ join' = [join EXCEPT !.type = IF @ = "semi" /\ innerrel_is_unique THEN "inner" ELSE @]
          /\ phase' = "clauses" /\ UNCHANGED plan
  /\ UNCHANGED <<merge, paths>>
mergejoin_clauses ==
  /\ phase = "clauses"
  /\ merge' = [clauses |-> select_mergejoin_clauses.clauses, allowed |-> select_mergejoin_clauses.allowed, unique |-> innerrel_is_unique]
  /\ phase' = "sorted"
  /\ UNCHANGED <<join, paths, plan>>
sorted_paths ==
  /\ phase = "sorted"
  /\ paths' = paths \cup (IF merge.allowed THEN sort_inner_and_outer ELSE {})
  /\ phase' = "unsorted"
  /\ UNCHANGED <<join, merge, plan>>
unsorted_paths ==
  /\ phase = "unsorted"
  /\ paths' = paths \cup (IF merge.allowed THEN match_unsorted_outer ELSE {})
  /\ phase' = "parallel"
  /\ UNCHANGED <<join, merge, plan>>
parallel_paths ==
  /\ phase = "parallel"
  /\ paths' = paths \cup (IF merge.allowed /\ MayBePartial
                          THEN (IF UseAll THEN {} ELSE consider_parallel_nestloop) \cup consider_parallel_mergejoin ELSE {})
  /\ phase' = "hashed"
  /\ UNCHANGED <<join, merge, plan>>
hashed_paths ==
  /\ phase = "hashed"
  /\ paths' = paths \cup hash_inner_and_outer
  /\ phase' = "plan"
  /\ UNCHANGED <<join, merge, plan>>
create_join_plan ==
  /\ phase = "plan"
  /\ \E path \in paths : plan' = [path |-> path, fails |-> PlanFails(path), out |-> IF PlanFails(path) THEN [w \in {} |-> <<>>] ELSE Output(path)]
  /\ phase' = "done" /\ paths' = {}
  /\ UNCHANGED <<join, merge>>
Next ==
  simplify \/ mergejoin_clauses \/ sorted_paths \/ unsorted_paths \/ parallel_paths \/ hashed_paths \/ create_join_plan
Spec == Init /\ [][Next]_vars

----
\* The rows of the join, by definition; a semijoin is judged by the rows of its left side.
Pairs == {<<o, i>> \in ToSet(Outer.rows) \X ToSet(Inner.rows) : AllHold(OwnClauses, o @@ i)}
Extended ==
  (IF FillsOuter(type) THEN {<<o, NoInner>> : o \in {p \in ToSet(Outer.rows) : \A i \in ToSet(Inner.rows) : <<p, i>> \notin Pairs}} ELSE {})
  \cup (IF FillsInner(type) THEN {<<NoOuter, i>> : i \in {p \in ToSet(Inner.rows) : \A o \in ToSet(Outer.rows) : <<o, p>> \notin Pairs}} ELSE {})
Shown(o, i) == <<IF OuterUnique THEN 0 ELSE o.n, IF InnerUnique \/ join.type = "semi" \/ plan.path.k = "Outer" THEN 0 ELSE i.m>>
Expected ==
  {Shown(pair[1], pair[2]) :
     pair \in {p \in Extended \cup IF type = "anti" THEN {} ELSE Pairs : AllHold(SelectSeq(join.clauses, LAMBDA c : ~Own(c)), p[1] @@ p[2])}}
AllOut == Concat([n \in 1..2 |-> IF n - 1 \in DOMAIN plan.out THEN plan.out[n - 1] ELSE <<>>])
Done == phase = "done"

\* Where the search stands and what it has found; no worker runs what only the leader may, and none
\* reads only its share of an inner table it does not share.
TypeOK ==
  /\ phase \in {"simplify", "clauses", "sorted", "unsorted", "parallel", "hashed", "plan", "done"}
  /\ ToSet(merge.clauses) \subseteq ToSet(OwnClauses)
  /\ \A p \in paths : /\ p.partial <=> p.outer.k = "Partial"
                      /\ p.partial => p.inner.safe
                      /\ p.inner.k = "Partial" <=> p.shared
\* Whatever way to join is chosen, the rows are those of the join, each once.
RightRows ==
  Done /\ ~plan.fails => LET out == AllOut IN Len(out) = Cardinality(Expected) /\ {Shown(out[n], out[n]) : n \in DOMAIN out} = Expected
\* The order a path claims is the one its rows come in, in every worker.
InClaimedOrder ==
  Done => \A w \in DOMAIN plan.out : InKeyOrder(plan.out[w], plan.path.keys)
\* createplan.c never finds keys that do not match the clauses or an inner plan that cannot back up.
NeverFails == Done => ~plan.fails
\* There is a way to do every join but full joins with a clause that can be neither merged nor hashed
\* alone, and right joins, which are left joins the other way round.
AlwaysPlanned ==
  phase = "plan" /\ ~Cheapest(Outer).param =>
    \/ paths # {} \/ join.type = "right"
    \/ join.type = "full" /\ \/ Cheapest(Inner).param
                             \/ /\ ~\E n \in DOMAIN OwnClauses : CanHash(OwnClauses[n]) /\ clause_sides_match_join(OwnClauses[n])
                                /\ \E n \in DOMAIN OwnClauses : OwnClauses[n].op # "false" /\ OwnClauses[n] \notin ToSet(merge.clauses)

\* The search finds a path and any path it finds can be made into a plan and run.
PlanSucceeds == TypeOK /\ AlwaysPlanned /\ NeverFails
=============================================================================
