----------------------------- MODULE IndexScans -----------------------------
(***************************************************************************)
(* indxpath.c and tidpath.c: the index, bitmap and row-address scans of one *)
(* relation, and what createplan.c makes of each: the conditions the index  *)
(* answers, those left to a filter, those a bitmap's rows are tested with   *)
(* again.  Costs are not modelled: where they choose, any choice is taken.  *)
(*                                                                         *)
(* The relation is 1.  A clause is [clause, ec, level, movable]: its        *)
(* expression, the equivalence class it comes from (0 for none), its        *)
(* security level, and whether outer joins let it move down to the          *)
(* relation.  An index is [cols, am, pred, unique, canreturn].              *)
(***************************************************************************)
EXTENDS Predicates, SequencesExt

CONSTANT MaxAnded            \* how many bitmaps are combined by AND

\* What an access method can do.
AM ==
  [btree |-> [gettuple |-> TRUE, getbitmap |-> TRUE, searcharray |-> TRUE, searchnulls |-> TRUE,
              optionalkey |-> TRUE, ordered |-> TRUE, orderbyop |-> FALSE, ops |-> {"<", "<=", "=", ">=", ">", "beq"}],
   hash  |-> [gettuple |-> TRUE, getbitmap |-> TRUE, searcharray |-> FALSE, searchnulls |-> FALSE,
              optionalkey |-> FALSE, ordered |-> FALSE, orderbyop |-> FALSE, ops |-> {"=", "beq"}],
   gist  |-> [gettuple |-> TRUE, getbitmap |-> TRUE, searcharray |-> FALSE, searchnulls |-> TRUE,
              optionalkey |-> TRUE, ordered |-> FALSE, orderbyop |-> TRUE, ops |-> {"<", "<=", "=", ">=", ">"}],
   brin  |-> [gettuple |-> FALSE, getbitmap |-> TRUE, searcharray |-> FALSE, searchnulls |-> TRUE,
              optionalkey |-> TRUE, ordered |-> FALSE, orderbyop |-> FALSE, ops |-> {"<", "<=", "=", ">=", ">"}]]
Am(index) == AM[index.am]
op_in_opfamily(f, index) == f \in Am(index).ops
IsBooleanColumn(i, index) == index.cols[i] = Var(5)

ToSequence(S) == IF S = {} THEN <<>> ELSE <<CHOOSE x \in S : TRUE>>    \* of at most one element
clause_relids(rinfo) == pull_varnos(rinfo.clause)
Clauses(rinfos) == [n \in DOMAIN rinfos |-> rinfos[n].clause]
pseudoconstant(rinfo) == is_pseudo_constant_clause(rinfo.clause)
Leaky(e) == "evenfrom" \in Functions(e)
restriction_is_securely_promotable_Always(rinfo, rel) == TRUE
restriction_is_securely_promotable(rinfo, rel) == rinfo.level <= rel.minsec \/ ~Leaky(rinfo.clause)
restriction_is_or_clause(rinfo) == rinfo.clause.k = "Or"
ArmInfo(rinfo, arm) == [rinfo EXCEPT !.clause = arm, !.ec = 0]

----
(* Which column of an index a clause can be looked up with.                  *)
match_index_to_operand(e, i, index) == Bare(e) = index.cols[i]
is_pseudo_constant_for_index(e) == 1 \notin pull_varnos(e) /\ ~contain_volatile_functions(e)
IndexClause(rinfo, quals, lossy, i, cols) ==
  [rinfo |-> rinfo, quals |-> quals, lossy |-> lossy, col |-> i, cols |-> cols]
Exact(rinfo, qual, i) == {IndexClause(rinfo, <<qual>>, FALSE, i, <<>>)}

\* A boolean column and its tests, as comparisons with a constant.
BooleanQual(e, v, i, index) == IF match_index_to_operand(e, i, index) THEN {Op("beq", e, Const(v))} ELSE {}
match_boolean_index_clause(rinfo, i, index) ==
  LET e == rinfo.clause
      quals == BooleanQual(e, 1, i, index) \cup
               (CASE e.k = "Not" -> BooleanQual(e.args[1], 0, i, index)
                  [] e.k = "BooleanTest" /\ e.f = "IsTrue" -> BooleanQual(e.args[1], 1, i, index)
                  [] e.k = "BooleanTest" /\ e.f = "IsFalse" -> BooleanQual(e.args[1], 0, i, index)
                  [] OTHER -> {})
  IN UNION {Exact(rinfo, q, i) : q \in quals}

\* The one function with a support function says what must hold of its first argument.
get_index_clause_from_support(rinfo, arg, i, index) ==
  IF rinfo.clause.f = "evenfrom" /\ arg = 1 /\ op_in_opfamily(">=", index)
     /\ is_pseudo_constant_for_index(rinfo.clause.args[2])
  THEN {IndexClause(rinfo, <<Op(">=", rinfo.clause.args[1], rinfo.clause.args[2])>>, TRUE, i, <<>>)} ELSE {}
match_opclause_to_indexcol(rinfo, i, index) ==
  LET e == rinfo.clause
      Usable(col, other) == match_index_to_operand(col, i, index) /\ is_pseudo_constant_for_index(other)
  IN IF Usable(e.args[1], e.args[2])
     THEN IF op_in_opfamily(e.f, index) THEN Exact(rinfo, e, i) ELSE get_index_clause_from_support(rinfo, 1, i, index)
     ELSE IF Usable(e.args[2], e.args[1])
     THEN IF op_in_opfamily(Commutator(e.f), index)
          THEN Exact(rinfo, Op(Commutator(e.f), e.args[2], e.args[1]), i)
          ELSE get_index_clause_from_support(rinfo, 2, i, index)
     ELSE {}
match_funcclause_to_indexcol(rinfo, i, index) ==
  LET places == {n \in DOMAIN rinfo.clause.args : match_index_to_operand(rinfo.clause.args[n], i, index)}
  IN IF places = {} THEN {} ELSE get_index_clause_from_support(rinfo, Least(places), i, index)
match_saopclause_to_indexcol(rinfo, i, index) ==
  LET e == rinfo.clause
  IN IF /\ e.v = 1 /\ match_index_to_operand(e.args[1], i, index)
        /\ is_pseudo_constant_for_index(e.args[2]) /\ op_in_opfamily(e.f, index)
     THEN Exact(rinfo, e, i) ELSE {}

\* A row comparison is looked up by as many of its columns as the index has; when that is not all
\* of them, the first ones may also be equal.
OrEqual(f) == CASE f = "<" -> "<=" [] f = ">" -> ">=" [] OTHER -> f
ColumnsOf(vars, others, index) ==
  LET Col(n) == {i \in DOMAIN index.cols : match_index_to_operand(vars[n], i, index)}
      Good(n) == Col(n) # {} /\ is_pseudo_constant_for_index(others[n])
      matching == CHOOSE n \in 1..Len(vars) : /\ \A m \in 2..n : Good(m)
                                              /\ n = Len(vars) \/ ~Good(n + 1)
  IN [n \in 1..matching |-> Least(Col(n))]
RowQual(f, vars, others, cols) ==
  IF Len(cols) = 1 THEN Op(f, vars[1], others[1])
  ELSE Node("RowCompare", f, Len(cols), SubSeq(vars, 1, Len(cols)) \o SubSeq(others, 1, Len(cols)))
expand_indexqual_rowcompare(rinfo, i, f, vars, others, onLeft, cols) ==
  LET lossy == Len(cols) # Len(vars)
      qual == IF onLeft /\ ~lossy THEN rinfo.clause
              ELSE RowQual(IF lossy THEN OrEqual(f) ELSE f, vars, others, cols)
  IN {IndexClause(rinfo, <<qual>>, lossy, i, IF qual.k = "RowCompare" THEN cols ELSE <<>>)}
match_rowcompare_to_indexcol(rinfo, i, index) ==
  LET e == rinfo.clause
      left == SubSeq(e.args, 1, e.v)
      right == SubSeq(e.args, e.v + 1, 2 * e.v)
      Usable(col, other) == match_index_to_operand(col, i, index) /\ is_pseudo_constant_for_index(other)
  IN IF index.am # "btree" THEN {}
     ELSE IF Usable(left[1], right[1])
     THEN expand_indexqual_rowcompare(rinfo, i, e.f, left, right, TRUE, ColumnsOf(left, right, index))
     ELSE IF Usable(right[1], left[1])
     THEN expand_indexqual_rowcompare(rinfo, i, Commutator(e.f), right, left, FALSE, ColumnsOf(right, left, index))
     ELSE {}

match_clause_to_indexcol(rinfo, i, index) ==
  LET e == rinfo.clause
      bool == IF IsBooleanColumn(i, index) /\ op_in_opfamily("beq", index)
              THEN match_boolean_index_clause(rinfo, i, index) ELSE {}
  IN IF bool # {} THEN bool
     ELSE CASE e.k = "Op" -> match_opclause_to_indexcol(rinfo, i, index)
            [] e.k = "Func" -> match_funcclause_to_indexcol(rinfo, i, index)
            [] e.k = "ScalarArrayOp" -> match_saopclause_to_indexcol(rinfo, i, index)
            [] e.k = "RowCompare" -> match_rowcompare_to_indexcol(rinfo, i, index)
            [] e.k = "NullTest" /\ Am(index).searchnulls /\ e.v = 0 /\ match_index_to_operand(e.args[1], i, index) ->
                 Exact(rinfo, e, i)
            [] OTHER -> {}

\* A clause set: the index clauses of each column.
NoClauses(index) == [i \in DOMAIN index.cols |-> <<>>]
Nonempty(set) == \E i \in DOMAIN set : set[i] # <<>>
match_clause_to_index(set, rinfo, index, rel) ==
  LET Seen(i) == \E n \in DOMAIN set[i] : set[i][n].rinfo = rinfo
      columns == {i \in DOMAIN set : match_clause_to_indexcol(rinfo, i, index) # {}}
      i == Least(columns)
  IN IF \/ pseudoconstant(rinfo) \/ ~restriction_is_securely_promotable(rinfo, rel) \/ columns = {}
        \/ \E j \in 1..i : Seen(j)
     THEN set ELSE [set EXCEPT ![i] = @ \o ToSequence(match_clause_to_indexcol(rinfo, i, index))]
match_clauses_to_index(set, rinfos, index, rel) ==
  FoldLeft(LAMBDA acc, rinfo : match_clause_to_index(acc, rinfo, index, rel), set, rinfos)

----
(* Paths of one index and one clause set.                                    *)
Concat(seqs) == FlattenSeq(seqs)
IsSaop(ic) == ic.rinfo.clause.k = "ScalarArrayOp"
Outer(rinfos) == UNION {clause_relids(rinfos[n]) : n \in DOMAIN rinfos} \ {1}

\* A key is [e, desc, first]: an expression, its direction, and whether nulls come first.
Key(e, backward) == [e |-> e, desc |-> backward, first |-> backward]
ConstantExprs(rel) ==
  {rel.base[n].clause.args[1] : n \in {m \in DOMAIN rel.base : /\ rel.base[m].clause.k = "Op" /\ rel.base[m].clause.f = "="
                                                               /\ IsConst(rel.base[m].clause.args[2])}}
MergeExprs(rel) == {rel.eclauses[n].clause.args[1] : n \in DOMAIN rel.eclauses}
InClass(e, rel) == e \in ConstantExprs(rel) \cup MergeExprs(rel) \cup {rel.keys[n].e : n \in DOMAIN rel.keys}
indexcol_is_bool_constant_for_query(i, index, rel) ==
  /\ IsBooleanColumn(i, index)
  /\ \E n \in DOMAIN rel.base : ~pseudoconstant(rel.base[n]) /\ match_boolean_index_clause(rel.base[n], i, index) # {}
build_index_pathkeys(index, backward, rel) ==
  LET Known(i) == InClass(index.cols[i], rel) \/ indexcol_is_bool_constant_for_query(i, index, rel)
      kept == SelectSeq([i \in DOMAIN index.cols |-> i],
                        LAMBDA i : (\A j \in 1..i : Known(j)) /\ InClass(index.cols[i], rel) /\ index.cols[i] \notin ConstantExprs(rel))
  IN IF ~Am(index).ordered THEN <<>> ELSE [n \in DOMAIN kept |-> Key(index.cols[kept[n]], backward)]
truncate_useless_pathkeys(keys, rel) ==
  LET Merges(n) == \A m \in 1..n : keys[m].e \in MergeExprs(rel)
      Orders(n) == n <= Len(rel.keys) /\ \A m \in 1..n : keys[m] = rel.keys[m]
      useful == {n \in DOMAIN keys : Merges(n) \/ Orders(n)}
  IN IF useful = {} THEN <<>> ELSE SubSeq(keys, 1, CHOOSE n \in useful : \A m \in useful : m <= n)
has_useful_pathkeys(rel) == rel.keys # <<>> \/ rel.eclauses # <<>>

\* Distances from a constant, nearest first, come from an index that can search by distance.
match_clause_to_ordering_op(e, index) ==
  IF ~(e.k = "Op" /\ e.f = "dist") THEN NoNode
  ELSE IF (\E i \in DOMAIN index.cols : match_index_to_operand(e.args[1], i, index)) /\ ~contain_var_clause(e.args[2]) THEN e
  ELSE IF (\E i \in DOMAIN index.cols : match_index_to_operand(e.args[2], i, index)) /\ ~contain_var_clause(e.args[1])
  THEN Op("dist", e.args[2], e.args[1]) ELSE NoNode
match_pathkeys_to_index(index, keys) ==
  LET exprs == [n \in DOMAIN keys |-> match_clause_to_ordering_op(keys[n].e, index)]
  IN IF \E n \in DOMAIN keys : keys[n].desc \/ keys[n].first \/ exprs[n] = NoNode THEN <<>> ELSE exprs

ColumnsUsed(e) == {n.v : n \in {x \in Nodes(e) : x.k = "Var" /\ RelOf(x.v) = 1}}
CanReturn(index) ==
  LET Plain(flag) == {index.cols[i].v : i \in {j \in DOMAIN index.cols : index.cols[j].k = "Var" /\ index.canreturn[j] = flag}}
  IN Plain(TRUE) \ Plain(FALSE)
check_index_only(rel, index) ==
  rel.target \cup UNION {ColumnsUsed(index.restrict[n].clause) : n \in DOMAIN index.restrict} \subseteq CanReturn(index)

IndexPath(index, ics, orderbys, keys, dir, only) ==
  [k |-> "Index", index |-> index, clauses |-> ics, orderbys |-> orderbys, keys |-> keys, dir |-> dir, only |-> only,
   outer |-> Outer([n \in DOMAIN ics |-> ics[n].rinfo])]
\* The clauses of a set that go into a path: an array that the access method cannot take, or that
\* is not for the first column, is left out where there will be another try with it.
Taken(set, index, skipNonnative, skipLower) ==
  Concat([i \in DOMAIN set |->
            SelectSeq(set[i], LAMBDA ic : ~IsSaop(ic) \/ (/\ Am(index).searcharray \/ ~skipNonnative
                                                          /\ i = 1 \/ ~skipLower))])
LowerSaop_Never(ics) == FALSE
LowerSaop(ics) == \E n \in DOMAIN ics : IsSaop(ics[n]) /\ ics[n].col > 1
ForwardPath(index, ics, keys, orderbys, useful, only) ==
  IF ics # <<>> \/ keys # <<>> \/ useful \/ only
  THEN {IndexPath(index, ics, orderbys, keys, IF Am(index).ordered THEN "Forward" ELSE "None", only)} ELSE {}
BackwardPath(index, ics, keys, only) ==
  IF keys # <<>> THEN {IndexPath(index, ics, <<>>, keys, "Backward", only)} ELSE {}
PathsWith(rel, index, ics, useful, bitmap, sorted) ==
  LET only == ~bitmap /\ check_index_only(rel, index)
      ordered == sorted /\ Am(index).ordered
      Keys(backward) == IF ordered THEN truncate_useless_pathkeys(build_index_pathkeys(index, backward, rel), rel) ELSE <<>>
      orderbys == IF sorted /\ Am(index).orderbyop THEN match_pathkeys_to_index(index, rel.keys) ELSE <<>>
  IN ForwardPath(index, ics, IF orderbys # <<>> THEN rel.keys ELSE Keys(FALSE), orderbys, useful, only)
     \cup BackwardPath(index, ics, Keys(TRUE), only)
build_index_paths(rel, index, ics, useful, bitmap) ==
  IF (ics = <<>> /\ ~Am(index).optionalkey) \/ (bitmap /\ ~Am(index).getbitmap) THEN {}
  ELSE PathsWith(rel, index, ics, useful, bitmap, ~bitmap /\ ~LowerSaop(ics) /\ has_useful_pathkeys(rel))

PredOK(index) == index.pred # <<>> /\ index.predOK
\* [plain, bits]: the paths that can stand alone and those that can give a bitmap.
Attempts(set, index) ==
  LET Clauses3 == [n \in 1..3 |-> Taken(set, index, n < 3, n < 2)]
  IN {[ics |-> Clauses3[n], bitmap |-> n = 3] : n \in {m \in 1..3 : m = 1 \/ Clauses3[m] # Clauses3[m - 1]}}
get_index_paths(rel, index, set) ==
  LET each == {[bitmap |-> t.bitmap, paths |-> build_index_paths(rel, index, t.ics, PredOK(index) /\ ~t.bitmap, t.bitmap)] :
                 t \in Attempts(set, index)}
  IN [plain |-> UNION {x.paths : x \in {y \in each : ~y.bitmap /\ Am(index).gettuple}},
      bits |-> UNION {x.paths : x \in {y \in each : Am(index).getbitmap}}]

----
(* Parameterised paths: the clauses of a join, for several sets of outer relations. *)
Fits(ics, relids) == SelectSeq(ics, LAMBDA ic : clause_relids(ic.rinfo) \subseteq relids)
get_join_index_set(index, rset, jset, eset, relids) ==
  [i \in DOMAIN index.cols |->
     LET fits == Fits(eset[i], relids)
     IN Fits(jset[i], relids) \o SubSeq(fits, 1, IF fits = <<>> THEN 0 ELSE 1) \o rset[i]]
eclass_already_used(ec, oldrelids, ics) ==
  ec # 0 /\ \E n \in DOMAIN ics : ics[n].rinfo.ec = ec /\ clause_relids(ics[n].rinfo) \subseteq oldrelids
\* The sets of relations considered, each once.
Considered(list, relids) == IF relids \in ToSet(list) THEN list ELSE Append(list, relids)
ConsiderClause(list, ic, ics, limit) ==
  LET relids == clause_relids(ic.rinfo)
      Combine(acc, old) ==
        IF \/ relids \subseteq old \/ old \subseteq relids
           \/ eclass_already_used(ic.rinfo.ec, old, ics) \/ Len(acc) >= limit
        THEN acc ELSE Considered(acc, relids \cup old)
  IN IF relids \in ToSet(list) THEN list ELSE Considered(FoldLeft(Combine, list, list), relids)
consider_index_join_outer_rels(list, ics, clauses) ==
  FoldLeft(LAMBDA acc, ic : ConsiderClause(acc, ic, ics, 10 * clauses), list, ics)
consider_index_join_clauses(jset, eset) ==
  LET groups == Concat([i \in DOMAIN jset |-> <<jset[i], eset[i]>>])
      Upto(n) == FoldLeft(LAMBDA acc, g : acc + Len(g), 0, SubSeq(groups, 1, n))
  IN FoldLeft(LAMBDA acc, n : consider_index_join_outer_rels(acc, groups[n], Upto(n)), <<>>, [n \in DOMAIN groups |-> n])
Movable(rinfos) == SelectSeq(rinfos, LAMBDA rinfo : rinfo.movable)
\* The clauses an index is matched with: the relation's own, those of joins, those of classes.
Matched3(rel, index) ==
  LET lists == <<index.restrict, SelectSeq(Movable(rel.joins), LAMBDA rinfo : ~restriction_is_or_clause(rinfo)), rel.eclauses>>
  IN [n \in 1..3 |-> match_clauses_to_index(NoClauses(index), lists[n], index, rel)]
\* The clause sets to look for paths with: the relation's own, and one per set of outer relations.
JoinSets(index, sets) ==
  {get_join_index_set(index, sets[1], sets[2], sets[3], relids) : relids \in ToSet(consider_index_join_clauses(sets[2], sets[3]))}

----
(* Bitmaps: an index path, or some combined by AND or by OR.                 *)
Bitmap(k, subs) == [k |-> k, subs |-> subs]
RECURSIVE find_indexpath_quals(_), BitmapOuter(_)
\* <<clauses, predicates>> a bitmap makes use of.
find_indexpath_quals(b) ==
  IF b.k = "Index" THEN <<[n \in DOMAIN b.clauses |-> b.clauses[n].rinfo.clause], b.index.pred>>
  ELSE LET each == [n \in DOMAIN b.subs |-> find_indexpath_quals(b.subs[n])]
       IN <<Concat([n \in DOMAIN each |-> each[n][1]]), Concat([n \in DOMAIN each |-> each[n][2]])>>
BitmapOuter(b) == IF b.k = "Index" THEN b.outer ELSE UNION {BitmapOuter(b.subs[n]) : n \in DOMAIN b.subs}
classify_index_clause_usage(b) == ToSet(find_indexpath_quals(b)[1]) \cup ToSet(find_indexpath_quals(b)[2])
Quals(list) == Concat([n \in DOMAIN list |-> find_indexpath_quals(list[n])[1] \o find_indexpath_quals(list[n])[2]])
\* Another bitmap may be added to some if it shares no clause with them and no predicate of it follows from them.
MayAdd(list, b) ==
  /\ classify_index_clause_usage(b) \cap ToSet(Quals(list)) = {}
  /\ \A n \in DOMAIN find_indexpath_quals(b)[2] : ~predicate_implied_by(<<find_indexpath_quals(b)[2][n]>>, Quals(list), FALSE)
RECURSIVE AndedWith(_, _, _)
AndedWith(list, bitmaps, n) ==
  {list} \cup IF n = 0 THEN {} ELSE UNION {AndedWith(Append(list, b), bitmaps, n - 1) : b \in {c \in bitmaps : MayAdd(list, c)}}
choose_bitmap_and(bitmaps) ==
  {IF Len(l) = 1 THEN l[1] ELSE Bitmap("And", l) : l \in UNION {AndedWith(<<b>>, bitmaps, MaxAnded - 1) : b \in bitmaps}}

\* For an arm of an OR: paths that use a clause of the arm, or an index the arm makes usable.
build_paths_for_OR(rel, rinfos, others) ==
  LET Useful(index) == /\ index.pred # <<>> /\ ~index.predOK
                       /\ ~predicate_implied_by(index.pred, Clauses(others), FALSE)
      Usable(index) == /\ Am(index).getbitmap
                       /\ index.pred = <<>> \/ index.predOK \/ predicate_implied_by(index.pred, Clauses(rinfos \o others), FALSE)
      Sets(index) == [n \in 1..2 |-> match_clauses_to_index(NoClauses(index), rinfos \o (IF n = 1 THEN <<>> ELSE others), index, rel)]
      Paths(index, sets, useful) ==
        IF ~Nonempty(sets[1]) /\ ~useful THEN {}
        ELSE build_index_paths(rel, index, Taken(sets[2], index, FALSE, FALSE), useful, TRUE)
  IN UNION {Paths(rel.indexes[n], Sets(rel.indexes[n]), Useful(rel.indexes[n])) :
              n \in {m \in DOMAIN rel.indexes : Usable(rel.indexes[m])}}
RECURSIVE generate_bitmap_or_paths(_, _, _)
ArmPaths(rel, rinfos, all) == build_paths_for_OR(rel, rinfos, all) \cup generate_bitmap_or_paths(rel, rinfos, all)
ArmInfos(rinfo, arm) ==
  IF arm.k = "And" THEN [n \in DOMAIN arm.args |-> ArmInfo(rinfo, arm.args[n])] ELSE <<ArmInfo(rinfo, arm)>>
\* One bitmap for each arm, in every combination.
RECURSIVE OnePerArm(_)
OnePerArm(sets) == IF sets = <<>> THEN {<<>>} ELSE {<<x>> \o rest : x \in Head(sets), rest \in OnePerArm(Tail(sets))}
OrPaths(arms) == IF {} \in ToSet(arms) THEN {} ELSE {Bitmap("Or", l) : l \in OnePerArm(arms)}
generate_bitmap_or_paths(rel, rinfos, others) ==
  UNION {LET rinfo == rinfos[n]
             arms == [m \in DOMAIN rinfo.clause.args |-> ArmPaths(rel, ArmInfos(rinfo, rinfo.clause.args[m]), rinfos \o others)]
         IN OrPaths([m \in DOMAIN arms |-> choose_bitmap_and(arms[m])]) :
           n \in {m \in DOMAIN rinfos : restriction_is_or_clause(rinfos[m])}}

BitmapHeapPath(b) == [k |-> "Bitmap", qual |-> b, outer |-> BitmapOuter(b)]

----
(* tidpath.c: rows by their address.                                         *)
IsCTIDVar(e) == e = Var(4)
IsTidEqualClause(rinfo) ==
  /\ rinfo.clause.k = "Op" /\ rinfo.clause.f = "tideq"
  /\ LET other == IF IsCTIDVar(rinfo.clause.args[1]) THEN {rinfo.clause.args[2]}
                  ELSE IF IsCTIDVar(rinfo.clause.args[2]) THEN {rinfo.clause.args[1]} ELSE {}
     IN \E e \in other : is_pseudo_constant_for_index(e)
IsTidEqualAnyClause(rinfo) ==
  /\ rinfo.clause.k = "ScalarArrayOp" /\ rinfo.clause.f = "tideq" /\ rinfo.clause.v = 1
  /\ IsCTIDVar(rinfo.clause.args[1]) /\ is_pseudo_constant_for_index(rinfo.clause.args[2])
IsCurrentOfClause(rinfo) == rinfo.clause.k = "CurrentOf"
TidQualFromRestrictInfo(rinfo, rel) ==
  IF /\ ~pseudoconstant(rinfo) /\ restriction_is_securely_promotable(rinfo, rel)
     /\ IsTidEqualClause(rinfo) \/ IsTidEqualAnyClause(rinfo) \/ IsCurrentOfClause(rinfo)
  THEN <<rinfo>> ELSE <<>>
RECURSIVE TidQualFromRestrictInfoList(_, _)
TidQualFromOr(rinfo, rel) ==
  LET args == rinfo.clause.args
      each == [n \in DOMAIN args |->
                 IF args[n].k = "And"
                 THEN TidQualFromRestrictInfoList([m \in DOMAIN args[n].args |-> ArmInfo(rinfo, args[n].args[m])], rel)
                 ELSE TidQualFromRestrictInfo(ArmInfo(rinfo, args[n]), rel)]
  IN IF <<>> \in ToSet(each) THEN <<>> ELSE Concat(each)
TidQualFromRestrictInfoList(rinfos, rel) ==
  FoldLeft(LAMBDA acc, rinfo : IF acc # <<>> THEN acc
                               ELSE IF restriction_is_or_clause(rinfo) THEN TidQualFromOr(rinfo, rel)
                               ELSE TidQualFromRestrictInfo(rinfo, rel), <<>>, rinfos)
TidPath(quals) == [k |-> "Tid", quals |-> quals, outer |-> Outer(quals)]
BuildParameterizedTidPaths(rel, rinfos) ==
  {TidPath(<<rinfos[n]>>) : n \in {m \in DOMAIN rinfos :
      /\ ~pseudoconstant(rinfos[m]) /\ restriction_is_securely_promotable(rinfos[m], rel)
      /\ IsTidEqualClause(rinfos[m]) /\ rinfos[m].movable}}
create_tidscan_paths(rel) ==
  LET quals == TidQualFromRestrictInfoList(rel.base, rel)
  IN (IF quals # <<>> THEN {TidPath(quals)} ELSE {})
     \cup BuildParameterizedTidPaths(rel, SelectSeq(rel.eclauses, LAMBDA rinfo : IsCTIDVar(rinfo.clause.args[1])))
     \cup BuildParameterizedTidPaths(rel, rel.joins)
=============================================================================
