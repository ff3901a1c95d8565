---- MODULE MCExpressions ----
(* Conditions built step by step over one integer and one boolean column of a relation and   *)
(* one integer column of another, folded, proved from each other and asked about; each       *)
(* answer is compared with what the executor makes of the condition on every row.            *)
EXTENDS ConstFolding, Predicates

CONSTANT MaxBuilds      \* how often a condition is made larger

x == Var(1)
b == Var(2)
y == Var(3)
one == Const(1)
rand == Func("rand", <<>>)
now == Func("now", <<>>)
named(i, a) == Node("NamedArg", "", i, <<a>>)
array(s) == ArrayConst([i \in DOMAIN s |-> Const(s[i])])
relabel(a) == Node("Relabel", "", 0, <<a>>)
row(f, s) == Node("NullTest", f, 1, <<Node("Row", "", 0, s)>>)
distinct(a, c) == Node("Distinct", "=", 0, <<a, c>>)

Simple ==
  {b, Const(0), Const(1), Const(Null),
   Op("=", x, one), Op("<", x, Const(2)), Op(">", one, x), Op("<=", x, Const(2)), Op("<>", x, one),
   Op(">=", x, one), Op("=", x, y), Op("<", y, x), Op(">", x, y), Op("=", x, Const(Null)),
   Op("beq", b, one), Op("bne", Const(0), b),
   NullTest("IsNull", x), NullTest("IsNotNull", x), NullTest("IsNotNull", y), NullTest("IsNull", b),
   BooleanTest("IsUnknown", b), BooleanTest("IsNotTrue", b)}
Others ==
  {And(<<Op("=", x, one), Op("=", y, one)>>), And(<<Or(<<Op("=", x, one), Op("=", y, one)>>), b>>),
   Op("=", now, one), Op("=", rand, one), Op("=", Param(1), one), Op("=", Func("nvl", <<x>>), Const(0)),
   Op("=", Func("inc", <<one>>), x), Op(">", Func("inc", <<x>>), Const(2)),
   Func("twice", <<x>>), Func("twice", <<rand>>), Func("twice", <<Const(2)>>), Func("below", <<x>>),
   Func("below", <<named(2, one), named(1, x)>>), Func("below", <<named(1, rand)>>),
   Func("first", <<x, y>>), Func("isnul", <<x>>), Func("isnul", <<Const(Null)>>), Func("today", <<x>>),
   Func("again", <<x>>), Func("again", <<Const(0)>>), Func("either", <<x, rand>>), Func("same", <<x, one>>),
   Case(x, <<Func("same", <<CaseTest, one>>), b>>, Const(0)),
   Case(one, <<Op("=", CaseTest, x), one, Op("=", CaseTest, one), b>>, Const(Null)),
   Case(x, <<Op("=", CaseTest, one), Const(0), Op("=", CaseTest, Param(1)), b>>, Op("=", y, one)),
   Op("=", Node("Coalesce", "", 0, <<Const(Null), x, one, rand>>), one),
   Op("=", Node("Coalesce", "", 0, <<Param(1), y>>), one),
   ScalarArrayOp("=", 1, x, array(<<0, 1>>)), ScalarArrayOp("=", 1, x, array(<<>>)), ScalarArrayOp("<>", 0, x, array(<<0, 1>>)),
   ScalarArrayOp("<", 0, x, array(<<>>)), ScalarArrayOp("=", 1, x, Const(Null)), ScalarArrayOp("=", 1, one, array(<<0, 1>>)),
   ScalarArrayOp("=", 1, x, Node("ArrayExpr", "", 0, <<y, one>>)), ScalarArrayOp("<", 1, x, array(<<0, 1, Null>>)),
   ScalarArrayOp("=", 1, Const(Null), array(<<>>)),
   distinct(x, one), distinct(x, Const(Null)), distinct(Const(Null), Const(Null)), distinct(one, Const(Null)), distinct(one, Const(2)),
   row("IsNull", <<x, Const(Null)>>), row("IsNotNull", <<x, y>>), row("IsNotNull", <<one, Const(Null)>>), row("IsNull", <<x, one>>),
   Op("=", Node("Field", "", 1, <<Node("Row", "", 0, <<x, rand>>)>>), one),
   Op("=", relabel(x), one), NullTest("IsNull", relabel(relabel(x)))}
\* What a condition already built is combined with.
Few == {b, Const(Null), Op("=", x, one), NullTest("IsNotNull", y)}

Wrapped(e) ==
  {Not(e)} \cup {BooleanTest(f, e) : f \in {"IsTrue", "IsNotTrue", "IsFalse", "IsNotFalse", "IsUnknown", "IsNotUnknown"}}
  \cup {NullTest("IsNull", e), NullTest("IsNotNull", e)}
Paired(e, a) ==
  {And(<<e, a>>), Or(<<a, e>>), Case(NoNode, <<e, a>>, b), Op("beq", e, a)}
Larger(e, pool) == Wrapped(e) \cup UNION {Paired(e, a) : a \in pool}

Planning == [now |-> 1, rand |-> 1, params |-> <<1>>]
Bounds == {[set |-> FALSE, const |-> FALSE, v |-> 1], [set |-> TRUE, const |-> TRUE, v |-> 1], [set |-> TRUE, const |-> FALSE, v |-> 1]}
Val(e, r, m) == Value(e, r, m, Null)
\* The moments and the rows that may make a difference to a condition.
Uses_(e, fs) == \E n \in Nodes(e) : n.k = "Func" /\ n.f \in fs
HasParam(e) == \E n \in Nodes(e) : n.k = "Param"
MomentsOf(e) ==
  [now : IF Uses_(e, {"now", "today"}) THEN {0, 1} ELSE {1}, rand : IF Uses_(e, {"rand"}) THEN {0, 1} ELSE {1},
   params : IF HasParam(e) THEN {<<1>>, <<Null>>} ELSE {<<1>>}]
Columns(e) == {n.v : n \in {z \in Nodes(e) : z.k = "Var"}}
Content == <<{Null, 0, 1, 2, 3}, {Null, 0, 1}, {Null, 1, 2}>>
Values_(v, e) == IF v \in Columns(e) THEN Content[v] ELSE {1}
RowsOf(e) == Values_(1, e) \X Values_(2, e) \X Values_(3, e)

VARIABLES builds,    \* how often the condition was made larger
          expr,      \* the condition
          folded,    \* what eval_const_expressions made of it, with the parameters known then
          estimate,  \* what estimate_expression_value made of it
          bound,     \* the parameters known to the planner
          pred,      \* a predicate it was asked to prove
          verdict    \* the proofs found
vars == <<builds, expr, folded, estimate, bound, pred, verdict>>

Unbound == [set |-> FALSE, const |-> FALSE, v |-> 1]
None == [weakly |-> FALSE, strongly |-> FALSE, denied_weakly |-> FALSE, denied |-> FALSE]
Init ==
  /\ builds = 0
  /\ expr \in Simple \cup Others
  /\ folded = NoNode /\ estimate = NoNode /\ bound = Unbound /\ pred = NoNode /\ verdict = None
Build ==
  /\ folded = NoNode /\ pred = NoNode /\ builds < MaxBuilds
  /\ builds' = builds + 1
  /\ expr' \in Larger(expr, IF builds = 0 THEN Simple \cup Others ELSE Few)
  /\ UNCHANGED <<folded, estimate, bound, pred, verdict>>
Fold ==
  /\ folded = NoNode /\ pred = NoNode
  /\ \E known \in IF HasParam(expr) THEN Bounds ELSE {Unbound} :
       /\ bound' = known
       /\ folded' = eval_const_expressions(expr, Planning, known)
       /\ estimate' = estimate_expression_value(expr, Planning, known)
  /\ UNCHANGED <<builds, expr, pred, verdict>>
Proofs(c, p) ==
  [weakly |-> predicate_implied_by(<<p>>, <<c>>, TRUE), strongly |-> predicate_implied_by(<<p>>, <<c>>, FALSE),
   denied_weakly |-> predicate_refuted_by(<<p>>, <<c>>, TRUE), denied |-> predicate_refuted_by(<<p>>, <<c>>, FALSE)]
\* What predtest.c is asked about: folded conditions without functions that may change.
Provable(e) == ~IsConst(e) /\ ~contain_mutable_functions(e) /\ ~HasParam(e)
Predicates_ ==
  {And(<<Op("=", x, one), b>>), Or(<<Op("<", x, one), Op("=", x, Const(3)), b>>), ScalarArrayOp(">", 0, x, array(<<0, 1>>))}
  \cup UNION {{p, Not(p)} : p \in {q \in Simple \cup Few : Provable(q)}}
Compound == UNION {Larger(e, {q \in Simple : Provable(q)}) : e \in {q \in Simple : Provable(q)}}
Prove ==
  /\ folded # NoNode /\ pred = NoNode /\ Provable(folded)
  /\ builds = 0 \/ expr \in Compound
  /\ pred' \in Predicates_
  /\ verdict' = Proofs(folded, pred')
  /\ UNCHANGED <<builds, expr, folded, estimate, bound>>
Next == Build \/ Fold \/ Prove
Spec == Init /\ [][Next]_vars
----
TypeOK ==
  /\ builds \in 0..MaxBuilds
  /\ builds = 0 => \A m \in MomentsOf(expr) : \A r \in RowsOf(expr) : Val(expr, r, m) \in {0, 1, Null}
  /\ \A n \in Nodes(folded) \cup Nodes(estimate) : n.k # "NamedArg"    \* which the executor cannot place
  /\ verdict \in [DOMAIN None -> BOOLEAN]

\* The moments in which the parameters are what the planner knew, and for an estimate the
\* stable functions too.
Known(m, est) == /\ bound.set /\ (est \/ bound.const) => m.params[1] = bound.v
                 /\ est => m.now = Planning.now
SameValue ==
  folded # NoNode /\ pred = NoNode =>
    \A m \in MomentsOf(expr) : \A r \in RowsOf(expr) :
      /\ Known(m, FALSE) => Val(folded, r, m) = Val(expr, r, m)
      /\ Known(m, FALSE) /\ contain_volatile_functions(expr) => RandCalls(folded, r, m, Null) <= RandCalls(expr, r, m, Null)
      /\ Known(m, TRUE) => Val(estimate, r, m) = Val(expr, r, m)

Proven(v, c, p) ==
  /\ v.weakly => (c # 0 => p # 0)
  /\ v.strongly => (c = 1 => p = 1)
  /\ v.denied_weakly => (c = 1 => p # 1)
  /\ v.denied => (c = 1 => p = 0)
ProofsHold ==
  pred # NoNode => \A r \in RowsOf(And(<<expr, pred>>)) : Proven(verdict, Val(folded, r, Planning), Val(pred, r, Planning))

EmptyArray(e) == \E n \in Nodes(e) : n.k = "ArrayConst" /\ n.args = <<>>
RightAboutNulls(e, nonnull, rels, null) ==
  \A m \in MomentsOf(e) : \A r \in RowsOf(e) :
    Val(e, r, m) = 1 =>
      /\ \A v \in nonnull : r[v] # Null
      /\ \A rel \in rels : \E v \in 1..3 : RelOf(v) = rel /\ r[v] # Null
      /\ \A v \in null : r[v] = Null
\* Of a condition as folded: no row whose nulls the answers exclude makes it true.  A comparison
\* with ANY of an empty array is false, not null, for a null column, and is left aside.
NullsKnown ==
  folded # NoNode /\ pred = NoNode /\ ~EmptyArray(folded) =>
    RightAboutNulls(folded, find_nonnullable_vars(folded), find_nonnullable_rels(folded), find_forced_null_vars(folded))

\* A condition that contains no volatile function is the same whatever such functions return,
\* and so for mutable ones; one of strict functions only is null if a column it uses is.
Settled(e, m1, m2) == \A r \in RowsOf(e) : Val(e, r, m1) = Val(e, r, m2)
NullIfStrict(e) ==
  ~contain_nonstrict_functions(e) =>
    \A r \in RowsOf(e) : (\E v \in Columns(e) : r[v] = Null) => Val(e, r, Planning) = Null
Classified ==
  folded # NoNode /\ pred = NoNode =>
    /\ ~contain_volatile_functions(expr) => \A m \in MomentsOf(expr) : Settled(expr, m, [m EXCEPT !.rand = 0])
    /\ ~contain_mutable_functions(expr) /\ ~Uses_(expr, {"today"}) =>  \* declared to be immutable, and is not
         \A m \in MomentsOf(expr) : Settled(expr, m, [m EXCEPT !.rand = 0, !.now = 0])
    /\ ~EmptyArray(expr) => NullIfStrict(expr)

ExtractedFollows ==
  folded.k = "Or" /\ pred = NoNode =>
    \A rel \in {1, 2} : extract_or_clause(folded, rel) # NoNode =>
      \A r \in RowsOf(folded) : \A m \in MomentsOf(folded) :
        Val(folded, r, m) = 1 => Val(extract_or_clause(folded, rel), r, m) = 1

\* What is derived from a condition follows from it: what it is proved to imply or to refute,
\* and what is drawn from the arms of an OR for one relation.
ConclusionsFollow == ProofsHold /\ ExtractedFollows

\* What is said about a condition is so: which columns cannot or must be null, whether it is
\* volatile, mutable or strict.
AnswersRight == NullsKnown /\ Classified

\* A folded condition is a tree the executor can run and has the value of the written one.
FoldedAlike == TypeOK /\ SameValue
====
