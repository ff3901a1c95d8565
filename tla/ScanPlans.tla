----------------------------- MODULE ScanPlans -----------------------------
(***************************************************************************)
(* The scan of one relation from its clauses and indexes to the plans of    *)
(* createplan.c, and what these return.  rel is the relation being planned, *)
(* paths what has been found for it so far; any of them may be chosen.      *)
(***************************************************************************)
EXTENDS IndexScans

CONSTANTS Queries,       \* [base, joins, eclauses, minsec, keys, target, targetrel, indexes]
          Rows           \* <<column 1, column 2, column of 2, place, column 5, column of 3>>
VARIABLES rel, phase, pos, sets, bits, joinbits, paths, plan
vars == <<rel, phase, pos, sets, bits, joinbits, paths, plan>>

NotYet == [path |-> [k |-> "None"]]
Planned(index, base) == [cols |-> index.cols, am |-> index.am, pred |-> index.pred, unique |-> index.unique,
                         canreturn |-> index.canreturn, predOK |-> FALSE, restrict |-> base]
Init ==
  /\ \E q \in Queries : rel = [q EXCEPT !.indexes = [n \in DOMAIN q.indexes |-> Planned(q.indexes[n], q.base)]]
  /\ phase = "predicates" /\ pos = 1
  /\ sets = <<>> /\ bits = {} /\ joinbits = {} /\ paths = {[k |-> "Seq", outer |-> {}]}
  /\ plan = NotYet

\* An index with a predicate is usable if the query's clauses imply it, joins included; what the
\* predicate implies needs no test, unless the row may be looked at again after an update.
ToldBy(r) == Clauses(r.base \o Movable(r.joins) \o r.eclauses)
Implies(index, rinfo) ==
  ~contain_mutable_functions(rinfo.clause) /\ predicate_implied_by(<<rinfo.clause>>, index.pred, FALSE)
Needed(index, r) == SelectSeq(r.base, LAMBDA rinfo : r.targetrel \/ ~Implies(index, rinfo))
Judged(index, r) ==
  IF index.pred = <<>> THEN index
  ELSE [index EXCEPT !.predOK = predicate_implied_by(index.pred, ToldBy(r), FALSE), !.restrict = Needed(index, r)]
check_index_predicates ==
  /\ phase = "predicates"
  /\ rel' = [rel EXCEPT !.indexes = [n \in DOMAIN rel.indexes |-> Judged(rel.indexes[n], rel)]]
  /\ phase' = "match"
  /\ UNCHANGED <<pos, sets, bits, joinbits, paths, plan>>

Index == rel.indexes[pos]
match_index ==
  /\ phase = "match" /\ pos \in DOMAIN rel.indexes
  /\ IF Index.pred # <<>> /\ ~Index.predOK
     THEN pos' = pos + 1 /\ UNCHANGED <<phase, sets>>
     ELSE sets' = Matched3(rel, Index) /\ phase' = "scan" /\ UNCHANGED pos
  /\ UNCHANGED <<rel, bits, joinbits, paths, plan>>
create_index_paths ==
  /\ phase = "scan"
  /\ \E made \in {[own |-> get_index_paths(rel, Index, sets[1]),
                    joined |-> {get_index_paths(rel, Index, set) : set \in JoinSets(Index, sets)}]} :
       /\ paths' = paths \cup made.own.plain \cup UNION {x.plain : x \in made.joined}
       /\ bits' = bits \cup made.own.bits
       /\ joinbits' = joinbits \cup UNION {x.bits : x \in made.joined}
  /\ phase' = "match" /\ pos' = pos + 1
  /\ UNCHANGED <<rel, sets, plan>>
or_paths ==
  /\ phase = "match" /\ pos > Len(rel.indexes)
  /\ \E made \in {LET lists == <<<<rel.base, <<>>>>, <<SelectSeq(Movable(rel.joins), restriction_is_or_clause), rel.base>>>>
                   IN [n \in 1..2 |-> generate_bitmap_or_paths(rel, lists[n][1], lists[n][2])]} :
       bits' = bits \cup made[1] /\ joinbits' = joinbits \cup made[2]
  /\ phase' = "bitmap"
  /\ UNCHANGED <<rel, pos, sets, paths, plan>>
\* The bitmaps one path is made of: those of the relation alone, or with them those of joins that
\* need no more outer relations than one of them does.
Together ==
  {bits} \cup {{c \in joinbits : BitmapOuter(c) \subseteq BitmapOuter(b)} \cup bits : b \in joinbits}
bitmap_paths ==
  /\ phase = "bitmap"
  /\ paths' = paths \cup {BitmapHeapPath(b) : b \in UNION {choose_bitmap_and(together) : together \in Together}}
  /\ phase' = "tid"
  /\ UNCHANGED <<rel, pos, sets, bits, joinbits, plan>>
tidscan_paths ==
  /\ phase = "tid"
  /\ paths' = paths \cup create_tidscan_paths(rel)
  /\ phase' = "plan"
  /\ UNCHANGED <<rel, pos, sets, bits, joinbits, plan>>

----
(* createplan.c *)
\* The clauses of joins that a parameterised path enforces itself; of an equivalence class, one.
ppi_clauses(outer) ==
  LET fits == SelectSeq(rel.eclauses, LAMBDA rinfo : clause_relids(rinfo) \subseteq {1} \cup outer)
  IN IF outer = {} THEN <<>>
     ELSE SelectSeq(Movable(rel.joins), LAMBDA rinfo : clause_relids(rinfo) \subseteq {1} \cup outer)
          \o (IF fits = <<>> THEN <<>> ELSE <<fits[Len(fits)]>>)
scan_clauses(path) ==
  (IF path.k = "Index" THEN path.index.restrict ELSE rel.base) \o ppi_clauses(path.outer)
get_gating_quals(clauses) == Clauses(SelectSeq(clauses, pseudoconstant))

\* By security level, then by cost; what does not leak and is cheap counts as level 0.
FunctionCost(e) == MapThenSumSet(LAMBDA n : IF n.f = "nvl" THEN 10 ELSE 1, {n \in Nodes(e) : n.k \in {"Func", "Op", "ScalarArrayOp"}})
QualLevel(rinfo) == IF ~Leaky(rinfo.clause) /\ FunctionCost(rinfo.clause) < 10 THEN 0 ELSE rinfo.level
order_qual_clauses(rinfos) ==
  LET Goes(new, old) == \/ QualLevel(new) > QualLevel(old)
                        \/ QualLevel(new) = QualLevel(old) /\ FunctionCost(new.clause) >= FunctionCost(old.clause)
      Insert(list, new) ==
        LET after == {n \in DOMAIN list : Goes(new, list[n])}
            place == IF after = {} THEN 1 ELSE 1 + CHOOSE n \in after : \A m \in after : m <= n
        IN InsertAt(list, place, new)
  IN FoldLeft(Insert, <<>>, rinfos)

is_redundant_with_indexclauses_Lossy(rinfo, ics) ==
  \E n \in DOMAIN ics : rinfo = ics[n].rinfo \/ (rinfo.ec # 0 /\ ics[n].rinfo.ec = rinfo.ec)
is_redundant_with_indexclauses(rinfo, ics) ==
  \E n \in DOMAIN ics : ~ics[n].lossy /\ (rinfo = ics[n].rinfo \/ (rinfo.ec # 0 /\ ics[n].rinfo.ec = rinfo.ec))
stripped_indexquals(path) == Concat([n \in DOMAIN path.clauses |-> path.clauses[n].quals])
Implied(rinfo, quals) ==
  ~contain_mutable_functions(rinfo.clause) /\ predicate_implied_by(<<rinfo.clause>>, quals, FALSE)
ScanPlan(path, quals, pred, recheck, filter) ==
  [path |-> path, quals |-> quals, pred |-> pred, recheck |-> recheck, filter |-> order_qual_clauses(filter),
   gate |-> get_gating_quals(scan_clauses(path))]
create_indexscan_plan(path, quals) ==
  ScanPlan(path, quals, path.index.pred, quals,
       SelectSeq(scan_clauses(path), LAMBDA rinfo : /\ ~pseudoconstant(rinfo)
                                                    /\ ~is_redundant_with_indexclauses(rinfo, path.clauses)
                                                    /\ ~Implied(rinfo, quals)))

\* [qual, indexqual, ecs] of a bitmap: what it is tested with again and what it is sure of.
SubPlan(qual, indexqual, ecs) == [qual |-> qual, indexqual |-> indexqual, ecs |-> ecs]
Unique(list) == FoldLeft(LAMBDA acc, e : IF e \in ToSet(acc) THEN acc ELSE Append(acc, e), <<>>, list)
Either(lists) ==
  IF <<>> \in ToSet(lists) THEN <<>>
  ELSE LET arms == [n \in DOMAIN lists |-> AsClause(lists[n])] IN IF Len(arms) = 1 THEN arms ELSE <<Or(arms)>>
PredQuals(pred, quals) == SelectSeq(pred, LAMBDA p : ~predicate_implied_by(<<p>>, quals, FALSE))
RECURSIVE create_bitmap_subplan(_)
IndexSubplan(b) ==
  LET quals == [n \in DOMAIN b.clauses |-> b.clauses[n].rinfo.clause]
      preds == PredQuals(b.index.pred, quals)
  IN SubPlan(quals \o preds, stripped_indexquals(b) \o preds, {b.clauses[n].rinfo.ec : n \in DOMAIN b.clauses} \ {0})
create_bitmap_subplan(b) ==
  IF b.k = "Index" THEN IndexSubplan(b)
  ELSE LET subs == [n \in DOMAIN b.subs |-> create_bitmap_subplan(b.subs[n])]
           quals == [n \in DOMAIN subs |-> subs[n].qual]
           indexquals == [n \in DOMAIN subs |-> subs[n].indexqual]
       IN IF b.k = "And" THEN SubPlan(Unique(Concat(quals)), Unique(Concat(indexquals)), UNION {subs[n].ecs : n \in DOMAIN subs})
          ELSE SubPlan(Either(quals), Either(indexquals), {})
BitmapPlan(path, sub, filter) ==
  ScanPlan(path, <<>>, <<>>, SelectSeq(sub.qual, LAMBDA e : ~\E n \in DOMAIN filter : filter[n].clause = e), filter)
create_bitmap_scan_plan(path, sub) ==
  BitmapPlan(path, sub, SelectSeq(scan_clauses(path), LAMBDA rinfo : /\ ~pseudoconstant(rinfo)
                                                                     /\ rinfo.clause \notin ToSet(sub.indexqual)
                                                                     /\ rinfo.ec \notin sub.ecs
                                                                     /\ ~Implied(rinfo, sub.indexqual)))
create_tidscan_plan(path) ==
  LET plain == SelectSeq(scan_clauses(path), LAMBDA rinfo : ~pseudoconstant(rinfo))
      quals == path.quals
  IN ScanPlan(path, Clauses(quals), <<>>, <<>>,
          IF Len(quals) = 1
          THEN SelectSeq(plain, LAMBDA rinfo : rinfo # quals[1] /\ ~(rinfo.ec # 0 /\ rinfo.ec = quals[1].ec))
          ELSE SelectSeq(plain, LAMBDA rinfo : rinfo.clause # Or(Clauses(quals))))
create_seqscan_plan(path) == ScanPlan(path, <<>>, <<>>, <<>>, SelectSeq(scan_clauses(path), LAMBDA rinfo : ~pseudoconstant(rinfo)))
create_scan_plan(path) ==
  CASE path.k = "Index" -> create_indexscan_plan(path, stripped_indexquals(path))
    [] path.k = "Bitmap" -> create_bitmap_scan_plan(path, create_bitmap_subplan(path.qual))
    [] path.k = "Tid" -> create_tidscan_plan(path)
    [] OTHER -> create_seqscan_plan(path)

create_plan ==
  /\ phase = "plan"
  /\ \E path \in paths : plan' = create_scan_plan(path)
  /\ phase' = "done" /\ paths' = {} /\ bits' = {} /\ joinbits' = {} /\ sets' = <<>>
  /\ UNCHANGED <<rel, pos>>
Next ==
  check_index_predicates \/ match_index \/ create_index_paths \/ or_paths \/ bitmap_paths \/ tidscan_paths \/ create_plan
Spec == Init /\ [][Next]_vars

----
(* The executor.                                                             *)
Moment == [now |-> 1, rand |-> 1, params |-> <<>>]
True(e, r) == Value(e, r, Moment, Null) = 1
AllTrue(list, r) == \A n \in DOMAIN list : True(list[n], r)
RECURSIVE InBitmap(_, _)
InBitmap(b, r) ==
  CASE b.k = "Index" -> AllTrue(b.index.pred, r) /\ AllTrue(stripped_indexquals(b), r)
    [] b.k = "And" -> \A n \in DOMAIN b.subs : InBitmap(b.subs[n], r)
    [] OTHER -> \E n \in DOMAIN b.subs : InBitmap(b.subs[n], r)
Found(r) ==
  CASE plan.path.k = "Index" -> AllTrue(plan.pred, r) /\ AllTrue(plan.quals, r)
    [] plan.path.k = "Bitmap" -> InBitmap(plan.path.qual, r)
    [] plan.path.k = "Tid" -> \E n \in DOMAIN plan.quals : True(plan.quals[n], r)
    [] OTHER -> TRUE
\* A scan of the index alone has no other column to test.
Seen(r) ==
  IF plan.path.k = "Index" /\ plan.path.only
  THEN [n \in DOMAIN r |-> IF n \in CanReturn(plan.path.index) \cup {3, 6} THEN r[n] ELSE Null] ELSE r
Filtered(r) == AllTrue(plan.gate, r) /\ AllTrue(Clauses(plan.filter), Seen(r))
Returned(r) == Found(r) /\ Filtered(r)
\* A row met on a page of which the bitmap says no more than that it holds some row, or a row that
\* has another value since it was found.
Rechecked(r) == AllTrue(plan.recheck, r) /\ Filtered(r)

\* Rows of the other relations that can meet: those a class makes equal are.
WithOuter == [outer \in SUBSET {2, 3} |-> {r \in Rows : (2 \notin outer => r[3] = 1) /\ (3 \notin outer => r[6] = 1)}]
Meeting(outer) ==
  IF outer = {2, 3} /\ Len(rel.eclauses) = 2 THEN {r \in WithOuter[outer] : r[3] = r[6] /\ r[3] # Null} ELSE WithOuter[outer]
Wanted(r, outer) == AllTrue(Clauses(rel.base \o ppi_clauses(outer)), r)
\* The joins above can still use the row.
Joins(r) == \E s \in Rows : /\ s[1] = r[1] /\ s[2] = r[2] /\ s[4] = r[4] /\ s[5] = r[5]
                            /\ AllTrue(ToldBy(rel), s)
Exactly(Test(_)) ==
  \A r \in Meeting(plan.path.outer) :
    /\ Test(r) => Wanted(r, plan.path.outer)
    /\ Wanted(r, plan.path.outer) => Test(r) \/ ~Joins(r)

Rank(v, desc, first) == IF v = Null THEN (IF first THEN -9 ELSE 9) ELSE IF desc THEN -v ELSE v
Keyed(keys, r) == [n \in DOMAIN keys |-> Rank(Value(keys[n].e, r, Moment, Null), keys[n].desc, keys[n].first)]
LexLess(x, y) == \E n \in DOMAIN x : x[n] < y[n] /\ \A m \in 1..n - 1 : x[m] = y[m]
\* An array is looked up element by element, the last one fastest; within them the index's order.
ScanOrder(path) ==
  IF path.orderbys # <<>> THEN [n \in DOMAIN path.orderbys |-> Key(path.orderbys[n], FALSE)]
  ELSE LET saops == SelectSeq(path.clauses, IsSaop)
           exprs == [n \in DOMAIN saops |-> saops[n].rinfo.clause.args[1]] \o path.index.cols
       IN [n \in DOMAIN exprs |-> Key(exprs[n], path.dir = "Backward")]

----
Done(kinds) == phase = "done" /\ plan.path.k \in kinds
TypeOK ==
  /\ phase \in {"predicates", "match", "scan", "bitmap", "tid", "plan", "done"}
  /\ pos \in 1..Len(rel.indexes) + 1
  /\ \A p \in paths : p.outer \subseteq {2, 3}
  /\ \A b \in bits : BitmapOuter(b) = {}

\* Whatever scan is chosen returns the rows the query asks for, no other, and leaves none out but
\* such as no join could use; so it does when a bitmap has lost the single rows of its pages.
RightRows ==
  Done({"Index", "Bitmap", "Tid", "Seq"}) => Exactly(Returned) /\ (plan.path.k = "Bitmap" => Exactly(Rechecked))
\* A row that is to be changed and has been changed meanwhile passes the plan's own tests only if it
\* still passes all of the query's.
StillWanted ==
  Done({"Index", "Bitmap"}) /\ rel.targetrel =>
    \A r \in Meeting(plan.path.outer) : Rechecked(r) => Wanted(r, plan.path.outer)
\* The order a scan claims is the one its rows come in.
InClaimedOrder ==
  Done({"Index"}) /\ plan.path.keys # <<>> =>
    LET got == {r \in Meeting(plan.path.outer) : Returned(r)}
        Before(r, s) == ~LexLess(Keyed(ScanOrder(plan.path), s), Keyed(ScanOrder(plan.path), r))
    IN \A r, s \in got : r[3] = s[3] /\ r[6] = s[6] /\ Before(r, s) => ~LexLess(Keyed(plan.path.keys, s), Keyed(plan.path.keys, r))
\* A function that may tell what it is called with is called only for rows that pass every condition
\* of a lower level.
Shown(rinfo, r) == \A n \in DOMAIN rel.base : rel.base[n].level < rinfo.level => True(rel.base[n].clause, r)
RECURSIVE Lookups(_)
Lookups(b) == IF b.k = "Index" THEN {b.clauses[n].rinfo : n \in DOMAIN b.clauses}
              ELSE UNION {Lookups(b.subs[n]) : n \in DOMAIN b.subs}
LookedUp == CASE plan.path.k = "Index" -> Lookups(plan.path)
              [] plan.path.k = "Bitmap" -> Lookups(plan.path.qual)
              [] plan.path.k = "Tid" -> ToSet(plan.path.quals) [] OTHER -> {}
NothingLeaks ==
  Done({"Index", "Bitmap", "Tid", "Seq"}) =>
    /\ \A rinfo \in LookedUp : Leaky(rinfo.clause) => \A r \in Rows : Shown(rinfo, r)
    /\ \A n \in DOMAIN plan.filter : Leaky(plan.filter[n].clause) =>
         \A r \in Rows : (Found(r) /\ AllTrue(Clauses(SubSeq(plan.filter, 1, n - 1)), r)) => Shown(plan.filter[n], r)

----
\* Whether an equality of the join or of the query pins each column of a unique index.
Pins(rinfo, i, index) ==
  op_in_opfamily("=", index) /\ \E a \in {1, 2} : /\ 1 \notin pull_varnos(rinfo.clause.args[3 - a])
                                                 /\ match_index_to_operand(rinfo.clause.args[a], i, index)
Pinned_First(index, rinfos) == \E n \in DOMAIN rinfos : Pins(rinfos[n], 1, index)
Pinned(index, rinfos) == \A i \in DOMAIN index.cols : \E n \in DOMAIN rinfos : Pins(rinfos[n], i, index)
BaseEqualities ==
  SelectSeq(rel.base, LAMBDA rinfo : /\ rinfo.clause.k = "Op" /\ rinfo.clause.f = "="
                                     /\ \E a \in {1, 2} : pull_varnos(rinfo.clause.args[a]) = {})
relation_has_unique_index_for(rinfos) ==
  {index \in ToSet(rel.indexes) :
     index.unique /\ (index.pred # <<>> => index.predOK) /\ Pinned(index, rinfos \o BaseEqualities)}
\* The equalities of a join with some other relations.
JoinEqualities(outer) ==
  SelectSeq(rel.eclauses \o rel.joins, LAMBDA rinfo : /\ rinfo.clause.k = "Op" /\ rinfo.clause.f = "="
                                                      /\ clause_relids(rinfo) \subseteq {1} \cup outer)
Same(r, s, index) ==
  /\ AllTrue(index.pred, r) /\ AllTrue(index.pred, s)
  /\ \A i \in DOMAIN index.cols : /\ Value(index.cols[i], r, Moment, Null) = Value(index.cols[i], s, Moment, Null)
                                  /\ Value(index.cols[i], r, Moment, Null) # Null
OneRow(outer, Believed(_)) ==
  \A index \in {x \in relation_has_unique_index_for(JoinEqualities(outer)) : Believed(x)} :
    \A r, s \in Rows : (/\ r[3] = s[3] /\ r[6] = s[6]
                        /\ AllTrue(Clauses(rel.base \o JoinEqualities(outer)), r)
                        /\ AllTrue(Clauses(rel.base \o JoinEqualities(outer)), s)) => Same(r, s, index)
\* No two rows of the relation, unless the index has them for equal, match the same row of the other
\* side; where the predicate of a partial index follows from the relation's own conditions.
UniqueOfOwn ==
  Done({"Seq"}) => \A outer \in {{2}, {3}, {2, 3}} :
    OneRow(outer, LAMBDA x : predicate_implied_by(x.pred, Clauses(rel.base), FALSE))

\* The plan's rows are right, when they are read and when one is tested again.
RowsRight == TypeOK /\ RightRows /\ StillWanted
=============================================================================
