---- MODULE Expressions ----
(* Expressions as the planner sees them, what the executor makes of them, and the questions *)
(* clauses.c answers about them: volatile or mutable functions, strictness, the relations and *)
(* columns that must not be null, the columns that must be.                                  *)
EXTENDS Integers, Sequences, FiniteSets, FiniteSetsExt

Null == -1                       \* the null of every type; booleans are 0 and 1

\* A node: its kind, the function, operator or sort of test, a number, and its arguments.
Node(k, f, v, args) == [k |-> k, f |-> f, v |-> v, args |-> args]
Const(v) == Node("Const", "", v, <<>>)
Var(v) == Node("Var", "", v, <<>>)
Param(v) == Node("Param", "", v, <<>>)
Op(f, a, b) == Node("Op", f, 0, <<a, b>>)
Func(f, args) == Node("Func", f, 0, args)
And(args) == Node("And", "", 0, args)
Or(args) == Node("Or", "", 0, args)
Not(a) == Node("Not", "", 0, <<a>>)
NullTest(f, a) == Node("NullTest", f, 0, <<a>>)
BooleanTest(f, a) == Node("BooleanTest", f, 0, <<a>>)
NoNode == Node("None", "", 0, <<>>)
\* The argument of CASE (or NoNode), each WHEN followed by its result, and the ELSE.
Case(arg, whens, else) == Node("Case", "", 0, <<arg>> \o whens \o <<else>>)
CaseTest == Node("CaseTest", "", 0, <<>>)
ScalarArrayOp(f, useOr, a, array) == Node("ScalarArrayOp", f, useOr, <<a, array>>)
ArrayConst(elems) == Node("ArrayConst", "", 0, elems)

IsConst(e) == e.k \in {"Const", "ArrayConst", "RowConst"}
IsNullConst(e) == e = Const(Null)

\* Columns 1 and 2, the row's place (4) and column 5 are of relation 1, 3 of relation 2, 6 of relation 3.
RelOf(v) == CASE v = 3 -> 2 [] v = 6 -> 3 [] OTHER -> 1

Comparisons == {"<", "<=", "=", ">=", ">", "<>"}
\* The six functions written in SQL, by their bodies; the others are built in.
Bodies ==
  [twice |-> Or(<<Op("=", Param(1), Const(0)), Op("=", Param(1), Const(2))>>),
   below |-> Op("<", Param(1), Param(2)),
   first |-> Op("=", Param(1), Const(1)),
   isnul |-> NullTest("IsNull", Param(1)),
   today |-> Op("=", Param(1), Func("now", <<>>)),
   again |-> Case(NoNode, <<Op("=", Param(1), Const(0)), Func("again", <<Const(1)>>)>>, Const(1)),
   same  |-> Case(Param(2), <<Op("=", CaseTest, Param(1)), Const(1)>>, Const(0)),
   either |-> Case(NoNode, <<NullTest("IsNull", Param(1)), Const(0)>>, Op("=", Param(2), Const(1)))]
Strict(f) == f \notin {"nvl", "twice", "again", "same", "either"}
Volatility(f) == CASE f = "rand" -> "volatile" [] f = "now" -> "stable" [] OTHER -> "immutable"
Arity(f) == CASE f \in {"now", "rand"} -> 0 [] f \in {"below", "first", "same", "either", "evenfrom"} -> 2 [] OTHER -> 1
Defaults(f) == IF f = "below" THEN <<Const(2)>> ELSE <<>>

Negator(f) == CASE f = "<" -> ">=" [] f = "<=" -> ">" [] f = "=" -> "<>" [] f = "<>" -> "=" [] f = ">=" -> "<"
                [] f = ">" -> "<=" [] f = "beq" -> "bne" [] f = "bne" -> "beq" [] OTHER -> ""
Commutator(f) == CASE f = "<" -> ">" [] f = "<=" -> ">=" [] f = ">=" -> "<=" [] f = ">" -> "<" [] OTHER -> f

----
(* The executor: the value of an expression for a row and a moment, [now, rand, params].     *)
Compare(f, a, b) ==
  CASE f = "<" -> a < b [] f = "<=" -> a <= b [] f \in {"=", "beq", "tideq"} -> a = b
    [] f = ">=" -> a >= b [] f = ">" -> a > b [] OTHER -> a # b
Truth(b) == IF b THEN 1 ELSE 0
Has(vs, x) == \E i \in DOMAIN vs : vs[i] = x
Anded(vs) == IF Has(vs, 0) THEN 0 ELSE IF Has(vs, Null) THEN Null ELSE 1
Ored(vs) == IF Has(vs, 1) THEN 1 ELSE IF Has(vs, Null) THEN Null ELSE 0
Tested(f, x) ==
  CASE f = "IsTrue" -> x = 1 [] f = "IsNotTrue" -> x # 1 [] f = "IsFalse" -> x = 0
    [] f = "IsNotFalse" -> x # 0 [] f \in {"IsUnknown", "IsNull"} -> x = Null [] OTHER -> x # Null
Compared(f, x, y) == IF x = Null \/ y = Null THEN Null ELSE Truth(Compare(f, x, y))
\* Columns against columns: the first pair that differs or is not known decides.
Decided(x, y, i) == x[i] = Null \/ y[i] = Null \/ x[i] # y[i]
RowCompared(f, x, y) ==
  LET open == {i \in DOMAIN x : Decided(x, y, i)}
  IN IF open = {} THEN Truth(f \in {"<=", ">="})
     ELSE LET i == CHOOSE i \in open : \A j \in open : i <= j IN Compared(f, x[i], y[i])
Least(S) == CHOOSE i \in S : \A j \in S : i <= j
\* Of the values of a CASE, the place of the result it returns.
Chosen(vs) ==
  LET hits == {i \in DOMAIN vs : i % 2 = 0 /\ i < Len(vs) /\ vs[i] = 1}
  IN IF hits = {} THEN Len(vs) ELSE Least(hits) + 1
Named(args, i) == {j \in DOMAIN args : args[j].k = "NamedArg" /\ args[j].v = i}
\* The arguments of a call in the order of the parameters, defaults where none is given.
InPlace(f, args) ==
  [i \in 1..Arity(f) |->
     IF Named(args, i) # {} THEN args[Least(Named(args, i))].args[1]
     ELSE IF i \in DOMAIN args /\ args[i].k # "NamedArg" THEN args[i]
     ELSE Defaults(f)[i - (Arity(f) - Len(Defaults(f)))]]

RECURSIVE Value(_, _, _, _), Called(_, _, _, _)
Called(f, vs, r, m) ==
  IF Strict(f) /\ Has(vs, Null) THEN Null
  ELSE CASE f \in Comparisons \cup {"beq", "bne", "tideq"} -> Truth(Compare(f, vs[1], vs[2]))
         [] f = "dist" -> IF vs[1] > vs[2] THEN vs[1] - vs[2] ELSE vs[2] - vs[1]
         [] f = "evenfrom" -> Truth(vs[1] >= vs[2] /\ vs[1] % 2 = 0)
         [] f = "inc" -> vs[1] + 1
         [] f = "nvl" -> IF vs[1] = Null THEN 0 ELSE vs[1]
         [] f = "now" -> m.now
         [] f = "rand" -> m.rand
         [] OTHER -> Value(Bodies[f], r, [m EXCEPT !.params = vs], Null)
Values(args, r, m, c) == [i \in DOMAIN args |-> Value(args[i], r, m, c)]
Value(e, r, m, c) ==
  CASE e.k = "Const" -> e.v
    [] e.k = "Var" -> r[e.v]
    [] e.k = "Param" -> m.params[e.v]
    [] e.k = "CaseTest" -> c
    [] e.k = "Op" -> Called(e.f, Values(e.args, r, m, c), r, m)
    [] e.k = "Func" -> Called(e.f, Values(InPlace(e.f, e.args), r, m, c), r, m)
    [] e.k = "And" -> Anded(Values(e.args, r, m, c))
    [] e.k = "Or" -> Ored(Values(e.args, r, m, c))
    [] e.k = "Not" -> Compared("=", Value(e.args[1], r, m, c), 0)
    [] e.k = "Distinct" -> Truth(Value(e.args[1], r, m, c) # Value(e.args[2], r, m, c))
    [] e.k = "NullTest" /\ e.v = 1 -> Truth(\A i \in DOMAIN e.args[1].args : Tested(e.f, Value(e.args[1].args[i], r, m, c)))
    [] e.k \in {"NullTest", "BooleanTest"} -> Truth(Tested(e.f, Value(e.args[1], r, m, c)))
    [] e.k = "Coalesce" ->
         LET known == {i \in DOMAIN e.args : Value(e.args[i], r, m, c) # Null}
         IN IF known = {} THEN Null ELSE Value(e.args[Least(known)], r, m, c)
    [] e.k = "Relabel" -> Value(e.args[1], r, m, c)
    [] e.k = "RowCompare" ->
         RowCompared(e.f, Values(SubSeq(e.args, 1, e.v), r, m, c), Values(SubSeq(e.args, e.v + 1, 2 * e.v), r, m, c))
    [] e.k = "CurrentOf" -> Truth(r[4] = e.v)
    [] e.k = "Field" -> Value(e.args[1].args[e.v], r, m, c)
    [] e.k = "ScalarArrayOp" ->
         IF IsNullConst(e.args[2]) THEN Null
         ELSE LET each == [i \in DOMAIN e.args[2].args |->
                             Compared(e.f, Value(e.args[1], r, m, c), Value(e.args[2].args[i], r, m, c))]
              IN IF e.v = 1 THEN Ored(each) ELSE Anded(each)
    [] e.k = "Case" ->
         LET test == IF e.args[1] = NoNode THEN c ELSE Value(e.args[1], r, m, c)
             vs == [i \in DOMAIN e.args |-> IF i = 1 THEN 0 ELSE IF i % 2 = 0 /\ i < Len(e.args) THEN Value(e.args[i], r, m, test) ELSE 0]
         IN Value(e.args[Chosen(vs)], r, m, test)

\* The arguments of a node that are evaluated, given their values.
Evaluated(e, vs) ==
  CASE e.k = "And" -> {i \in DOMAIN vs : \A j \in 1..(i - 1) : vs[j] # 0}
    [] e.k = "Or" -> {i \in DOMAIN vs : \A j \in 1..(i - 1) : vs[j] # 1}
    [] e.k = "Coalesce" -> {i \in DOMAIN vs : \A j \in 1..(i - 1) : vs[j] = Null}
    [] e.k = "Case" -> {1, Chosen(vs)} \cup {i \in DOMAIN vs : i % 2 = 0 /\ i < Chosen(vs)}
    [] OTHER -> DOMAIN vs
RECURSIVE RandCalls(_, _, _, _)
\* How often evaluating the expression calls a volatile function.
RandCalls(e, r, m, c) ==
  LET args == IF e.k = "Func" THEN InPlace(e.f, e.args) ELSE e.args
      test == IF e.k = "Case" /\ e.args[1] # NoNode THEN Value(e.args[1], r, m, c) ELSE c
      vs == [i \in DOMAIN args |-> IF args[i] = NoNode \/ e.k \notin {"And", "Or", "Coalesce", "Case", "Func"} THEN 0
                                  ELSE Value(args[i], r, m, test)]
      own == CASE e.k # "Func" -> 0 [] e.f = "rand" -> 1 [] e.f \in DOMAIN Bodies ->
                RandCalls(Bodies[e.f], r, [m EXCEPT !.params = vs], Null) [] OTHER -> 0
      ran == Evaluated(e, vs)
  IN own + MapThenSumSet(LAMBDA i : RandCalls(args[i], r, m, test), ran)

----
(* clauses.c *)
RECURSIVE Nodes(_)
Nodes(e) == {e} \cup UNION {Nodes(e.args[i]) : i \in DOMAIN e.args}
Functions(e) == {n.f : n \in {x \in Nodes(e) : x.k \in {"Func", "Op", "Distinct", "ScalarArrayOp"}}}

pull_varnos(e) == {RelOf(n.v) : n \in {x \in Nodes(e) : x.k = "Var"}}
contain_var_clause(e) == \E n \in Nodes(e) : n.k = "Var"
contain_mutable_functions(e) == \E f \in Functions(e) : Volatility(f) # "immutable"
contain_volatile_functions(e) == \E f \in Functions(e) : Volatility(f) = "volatile"
contain_nonstrict_functions(e) ==
  \/ \E n \in Nodes(e) : n.k \in {"Distinct", "And", "Or", "Case", "ArrayExpr", "Row", "Coalesce", "NullTest", "BooleanTest"}
  \/ \E f \in Functions(e) : ~Strict(f)
is_pseudo_constant_clause(e) == ~contain_var_clause(e) /\ ~contain_volatile_functions(e)

\* A CaseTestExpr that belongs to a CASE outside the expression.
RECURSIVE contain_context_dependent_node(_, _)
contain_context_dependent_node(e, ok) ==
  CASE e.k = "CaseTest" -> ~ok
    [] e.k = "Case" /\ e.args[1] # NoNode -> \E i \in DOMAIN e.args : contain_context_dependent_node(e.args[i], TRUE)
    [] OTHER -> \E i \in DOMAIN e.args : contain_context_dependent_node(e.args[i], ok)

is_strict_saop(e, falseOK) ==
  /\ Strict(e.f)
  /\ \/ e.v = 1 /\ falseOK
     \/ e.args[2].k \in {"ArrayConst", "ArrayExpr"} /\ e.args[2].args # <<>>

\* The columns an expression cannot be true with (top) or not null with (not top) when they are
\* null; find_nonnullable_rels runs the same cases and keeps their relations.
RECURSIVE find_nonnullable_walker(_, _, _)
AnyOf(args, top, rels) == UNION {find_nonnullable_walker(args[i], top, rels) : i \in DOMAIN args}
Every_Any(args, top, rels) == AnyOf(args, top, rels)
Every(args, top, rels) ==
  LET first == CHOOSE i \in DOMAIN args : \A j \in DOMAIN args : i <= j
  IN {v \in find_nonnullable_walker(args[first], top, rels) :
        \A i \in DOMAIN args : v \in find_nonnullable_walker(args[i], top, rels)}
find_nonnullable_walker(e, top, rels) ==
  CASE e.k = "Var" -> {IF rels THEN RelOf(e.v) ELSE e.v}
    [] e.k \in {"Func", "Op"} /\ Strict(e.f) -> AnyOf(e.args, FALSE, rels)
    [] e.k = "ScalarArrayOp" /\ is_strict_saop(e, TRUE) -> AnyOf(e.args, FALSE, rels)
    [] e.k = "And" /\ top -> AnyOf(e.args, TRUE, rels)
    [] e.k = "Or" \/ (e.k = "And" /\ ~top) -> Every(e.args, top, rels)
    [] e.k = "Not" -> AnyOf(e.args, FALSE, rels)
    [] e.k = "Relabel" -> AnyOf(e.args, top, rels)
    [] e.k = "NullTest" /\ top /\ e.f = "IsNotNull" /\ e.v = 0 -> AnyOf(e.args, FALSE, rels)
    [] e.k = "BooleanTest" /\ top /\ e.f \in {"IsTrue", "IsFalse", "IsNotUnknown"} -> AnyOf(e.args, FALSE, rels)
    [] OTHER -> {}
find_nonnullable_rels(e) == find_nonnullable_walker(e, TRUE, TRUE)
find_nonnullable_vars(e) == find_nonnullable_walker(e, TRUE, FALSE)

\* The columns that must be null where the expression is true.
find_forced_null_var(e) ==
  IF /\ \/ e.k = "NullTest" /\ e.f = "IsNull" /\ e.v = 0
        \/ e.k = "BooleanTest" /\ e.f = "IsUnknown"
     /\ e.args[1].k = "Var"
  THEN {e.args[1].v} ELSE {}
RECURSIVE find_forced_null_vars(_)
find_forced_null_vars(e) ==
  find_forced_null_var(e) \cup
  (IF e.k = "And" THEN UNION {find_forced_null_vars(e.args[i]) : i \in DOMAIN e.args} ELSE {})
====
