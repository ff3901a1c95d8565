---- MODULE ConstFolding ----
(* eval_const_expressions and estimate_expression_value: constants computed at planning time, *)
(* AND, OR, CASE and COALESCE cut short, and functions written in SQL replaced by their bodies. *)
EXTENDS Expressions

\* The context of a walk: the moment planning happens in, the known parameters, the functions
\* being inlined, the constant a CASE compares, and whether an estimate is enough.
Context(moment, bound, estimate) ==
  [moment |-> moment, bound |-> bound, active_fns |-> {}, case_val |-> NoNode, estimate |-> estimate]

AllConst(args) == \A i \in DOMAIN args : IsConst(args[i])
ece_function_is_safe(f, ctx) ==
  \/ Volatility(f) = "immutable"
  \/ ctx.estimate /\ Volatility(f) = "stable"
evaluate_expr(e, ctx) == Const(Value(e, [v \in {} |-> 0], ctx.moment, Null))

\* prepqual.c: the negation pushed down as far as a negator exists.
RECURSIVE negate_clause(_)
NegateAll(args) == [i \in DOMAIN args |-> negate_clause(args[i])]
Opposite(f) ==
  CASE f = "IsNull" -> "IsNotNull" [] f = "IsNotNull" -> "IsNull" [] f = "IsTrue" -> "IsNotTrue" [] f = "IsNotTrue" -> "IsTrue"
    [] f = "IsFalse" -> "IsNotFalse" [] f = "IsNotFalse" -> "IsFalse" [] f = "IsUnknown" -> "IsNotUnknown" [] OTHER -> "IsUnknown"
negate_clause(e) ==
  CASE e.k = "Const" -> IF e.v = Null THEN e ELSE Const(1 - e.v)
    [] e.k = "Op" /\ Negator(e.f) # "" -> [e EXCEPT !.f = Negator(e.f)]
    [] e.k = "ScalarArrayOp" /\ Negator(e.f) # "" -> [e EXCEPT !.f = Negator(e.f), !.v = 1 - e.v]
    [] e.k = "And" -> Or(NegateAll(e.args))
    [] e.k = "Or" -> And(NegateAll(e.args))
    [] e.k = "Not" -> e.args[1]
    [] e.k = "BooleanTest" \/ (e.k = "NullTest" /\ e.v = 0) -> [e EXCEPT !.f = Opposite(e.f)]
    [] OTHER -> Not(e)

----
\* Arguments in the order of the parameters, named ones in their places and defaults added.
Missing(f, args) == Arity(f) - Len(args)
reorder_function_arguments(f, args) == InPlace(f, args)
add_function_defaults(f, args) ==
  args \o SubSeq(Defaults(f), Len(Defaults(f)) - Missing(f, args) + 1, Len(Defaults(f)))
expand_function_arguments(f, args) ==
  IF \E i \in DOMAIN args : args[i].k = "NamedArg" THEN reorder_function_arguments(f, args)
  ELSE IF Len(args) < Arity(f) THEN add_function_defaults(f, args)
  ELSE args

\* The call computed now, null if a strict function has a null argument, NoNode if neither.
evaluate_function(f, e, args, ctx) ==
  IF Strict(f) /\ \E i \in DOMAIN args : IsNullConst(args[i]) THEN Const(Null)
  ELSE IF AllConst(args) /\ ece_function_is_safe(f, ctx) THEN evaluate_expr([e EXCEPT !.args = args], ctx)
  ELSE NoNode

RECURSIVE substitute_actual_parameters(_, _), Uses(_, _), Cost(_)
substitute_actual_parameters(e, args) ==
  IF e.k = "Param" THEN args[e.v]
  ELSE [e EXCEPT !.args = [i \in DOMAIN e.args |-> substitute_actual_parameters(e.args[i], args)]]
Uses(e, i) ==
  IF e.k = "Param" THEN IF e.v = i THEN 1 ELSE 0
  ELSE MapThenSumSet(LAMBDA j : Uses(e.args[j], i), DOMAIN e.args)
\* cost_qual_eval in cpu_operator_cost: one for each function and operator, and for half of
\* the elements an array has.
Cost(e) ==
  (CASE e.k \in {"Func", "Op", "Distinct"} -> 1
     [] e.k = "ScalarArrayOp" -> Len(e.args[2].args) \div 2
     [] OTHER -> 0)
  + MapThenSumSet(LAMBDA j : Cost(e.args[j]), DOMAIN e.args)

\* An argument used twice must be cheap and not volatile; a strict function must use them all.
UsableArgument_Cheap(f, body, args, i) ==
  IF Uses(body, i) = 0 THEN ~Strict(f) ELSE Cost(args[i]) <= 10
UsableArgument(f, body, args, i) ==
  CASE Uses(body, i) = 0 -> ~Strict(f)
    [] Uses(body, i) = 1 -> TRUE
    [] OTHER -> Cost(args[i]) <= 10 /\ ~contain_volatile_functions(args[i])
AsDeclared(f, body) ==
  /\ Volatility(f) = "immutable" => ~contain_mutable_functions(body)
  /\ Volatility(f) = "stable" => ~contain_volatile_functions(body)
  /\ Strict(f) => ~contain_nonstrict_functions(body)
CanInline(f, args, ctx) ==
  /\ f \in DOMAIN Bodies
  /\ Len(args) = Arity(f)
  /\ f \notin ctx.active_fns
  /\ AsDeclared(f, Bodies[f])
  /\ \A i \in DOMAIN args : ~contain_context_dependent_node(args[i], FALSE)
  /\ \A i \in DOMAIN args : UsableArgument(f, Bodies[f], args, i)

RECURSIVE eval_const_expressions_mutator(_, _), simplify_arguments(_, _, _, _)
ProcessedArgs(args, ctx) == [i \in DOMAIN args |-> eval_const_expressions_mutator(args[i], ctx)]

inline_function(f, args, ctx) ==
  IF CanInline(f, args, ctx)
  THEN eval_const_expressions_mutator(substitute_actual_parameters(Bodies[f], args),
                                      [ctx EXCEPT !.active_fns = @ \cup {f}])
  ELSE NoNode
\* Over arguments already processed.
simplify_function(f, e, args, allow_non_const, ctx) ==
  LET computed == evaluate_function(f, e, args, ctx)
  IN IF computed # NoNode \/ ~allow_non_const THEN computed ELSE inline_function(f, args, ctx)

Simplified(e, args, ctx, simple) == IF simple # NoNode THEN simple ELSE [e EXCEPT !.args = args]
SimplifiedCall(e, args, ctx) == Simplified(e, args, ctx, simplify_function(e.f, e, args, TRUE, ctx))

\* A comparison of a boolean with a constant is the boolean or its negation.
simplify_boolean_equality(f, args) ==
  LET c == IF IsConst(args[1]) THEN args[1] ELSE args[2]
      other == IF IsConst(args[1]) THEN args[2] ELSE args[1]
  IN IF ~IsConst(c) THEN NoNode
     ELSE IF (f = "beq") = (c.v = 1) THEN other ELSE negate_clause(other)
SimplifiedOp(e, args, ctx, simple) ==
  IF simple = NoNode /\ e.f \in {"beq", "bne"}
  THEN Simplified(e, args, ctx, simplify_boolean_equality(e.f, args))
  ELSE Simplified(e, args, ctx, simple)

SimplifiedDistinct(e, args, ctx) ==
  IF ~AllConst(args) THEN [e EXCEPT !.args = args]
  ELSE IF \A i \in DOMAIN args : IsNullConst(args[i]) THEN Const(0)
  ELSE IF \E i \in DOMAIN args : IsNullConst(args[i]) THEN Const(1)
  ELSE LET simple == simplify_function(e.f, Op("=", args[1], args[2]), args, FALSE, ctx)
       IN IF simple = NoNode THEN [e EXCEPT !.args = args] ELSE Const(1 - simple.v)

\* simplify_or_arguments (k = "Or") and simplify_and_arguments: the arguments left of a flattened
\* list, constants kept to be judged by the caller, nothing after one that decides the value.
simplify_arguments(k, todo, newargs, ctx) ==
  IF todo = <<>> THEN newargs
  ELSE IF Head(todo).k = k THEN simplify_arguments(k, Head(todo).args \o Tail(todo), newargs, ctx)
  ELSE LET arg == eval_const_expressions_mutator(Head(todo), ctx)
       IN IF arg.k = k THEN simplify_arguments(k, arg.args \o Tail(todo), newargs, ctx)
          ELSE IF arg = Const(IF k = "Or" THEN 1 ELSE 0) THEN <<arg>>
          ELSE simplify_arguments(k, Tail(todo), Append(newargs, arg), ctx)
NotConst(e) == ~IsConst(e)
Rebuilt(e, args) ==
  LET decides == Const(IF e.k = "Or" THEN 1 ELSE 0)
      kept == SelectSeq(args, NotConst)
      newargs == IF \E i \in DOMAIN args : IsNullConst(args[i]) THEN Append(kept, Const(Null)) ELSE kept
  IN IF \E i \in DOMAIN args : args[i] = decides THEN decides
     ELSE IF newargs = <<>> THEN Const(1 - decides.v)
     ELSE IF Len(newargs) = 1 THEN newargs[1]
     ELSE [e EXCEPT !.args = newargs]

\* The WHENs of a CASE from the i-th argument on: those never true are dropped, one always
\* true ends the list as its ELSE.
RECURSIVE SimplifiedWhens(_, _, _, _)
SimplifiedWhens(e, i, whens, ctx) ==
  IF i = Len(e.args) THEN Append(whens, eval_const_expressions_mutator(e.args[i], ctx))
  ELSE LET cond == eval_const_expressions_mutator(e.args[i], ctx)
       IN IF cond \in {Const(0), Const(Null)} THEN SimplifiedWhens(e, i + 2, whens, ctx)
          ELSE LET result == eval_const_expressions_mutator(e.args[i + 1], ctx)
               IN IF cond = Const(1) THEN Append(whens, result)
                  ELSE SimplifiedWhens(e, i + 2, whens \o <<cond, result>>, ctx)
SimplifiedCase(e, arg, ctx) ==
  LET isconst == IsConst(arg)
      rest == SimplifiedWhens(e, 2, <<>>, [ctx EXCEPT !.case_val = IF isconst THEN arg ELSE NoNode])
  IN IF Len(rest) = 1 THEN rest[1]
     ELSE [e EXCEPT !.args = <<IF isconst THEN NoNode ELSE arg>> \o rest]

RECURSIVE SimplifiedCoalesce(_, _, _, _)
SimplifiedCoalesce(e, i, newargs, ctx) ==
  IF i > Len(e.args)
  THEN IF newargs = <<>> THEN Const(Null) ELSE [e EXCEPT !.args = newargs]
  ELSE LET arg == eval_const_expressions_mutator(e.args[i], ctx)
       IN IF IsNullConst(arg) THEN SimplifiedCoalesce(e, i + 1, newargs, ctx)
          ELSE IF ~IsConst(arg) THEN SimplifiedCoalesce(e, i + 1, Append(newargs, arg), ctx)
          ELSE IF newargs = <<>> THEN arg ELSE [e EXCEPT !.args = Append(newargs, arg)]

\* A null test of a row is one test for each of its fields.
SimplifiedRowTest(e, fields) ==
  LET open == SelectSeq(fields, NotConst)
      tests == [i \in DOMAIN open |-> NullTest(e.f, open[i])]
  IN IF \E i \in DOMAIN fields : IsConst(fields[i]) /\ ~Tested(e.f, fields[i].v) THEN Const(0)
     ELSE IF tests = <<>> THEN Const(1) ELSE IF Len(tests) = 1 THEN tests[1] ELSE And(tests)
SimplifiedNullTest(e, arg) ==
  IF e.v = 1 /\ arg.k = "Row" THEN SimplifiedRowTest(e, arg.args)
  ELSE IF e.v = 0 /\ IsConst(arg) THEN Const(Truth(Tested(e.f, arg.v)))
  ELSE [e EXCEPT !.args = <<arg>>]
SimplifiedBooleanTest(e, arg) ==
  IF IsConst(arg) THEN Const(Truth(Tested(e.f, arg.v))) ELSE [e EXCEPT !.args = <<arg>>]
SimplifiedField(e, arg) ==
  IF arg.k = "Row" THEN arg.args[e.v]
  ELSE IF arg.k = "RowConst" THEN Const(arg.args[e.v].v)
  ELSE [e EXCEPT !.args = <<arg>>]
SimplifiedParam(e, ctx) ==
  IF ctx.bound.set /\ (ctx.estimate \/ ctx.bound.const) THEN Const(ctx.bound.v) ELSE e
SimplifiedSaop(e, args, ctx) ==
  IF AllConst(args) /\ ece_function_is_safe(e.f, ctx) THEN evaluate_expr([e EXCEPT !.args = args], ctx)
  ELSE [e EXCEPT !.args = args]
\* An array or a row of constants is a constant.
SimplifiedElements(e, args, const) == IF AllConst(args) THEN Node(const, "", 0, args) ELSE [e EXCEPT !.args = args]
applyRelabelType(e, arg) ==
  IF IsConst(arg) THEN arg ELSE IF arg.k = "Relabel" THEN [e EXCEPT !.args = arg.args] ELSE [e EXCEPT !.args = <<arg>>]

First(e, ctx) == eval_const_expressions_mutator(e.args[1], ctx)
eval_const_expressions_mutator(e, ctx) ==
  CASE e.k = "Param" -> SimplifiedParam(e, ctx)
    [] e.k = "Func" -> SimplifiedCall(e, ProcessedArgs(expand_function_arguments(e.f, e.args), ctx), ctx)
    [] e.k = "Op" ->
         LET args == ProcessedArgs(e.args, ctx)
         IN SimplifiedOp(e, args, ctx, simplify_function(e.f, e, args, TRUE, ctx))
    [] e.k = "Distinct" -> SimplifiedDistinct(e, ProcessedArgs(e.args, ctx), ctx)
    [] e.k = "ScalarArrayOp" -> SimplifiedSaop(e, ProcessedArgs(e.args, ctx), ctx)
    [] e.k \in {"And", "Or"} -> Rebuilt(e, simplify_arguments(e.k, e.args, <<>>, ctx))
    [] e.k = "Not" -> negate_clause(First(e, ctx))
    [] e.k = "Relabel" -> applyRelabelType(e, First(e, ctx))
    [] e.k = "Case" -> SimplifiedCase(e, First(e, ctx), ctx)
    [] e.k = "CaseTest" -> IF ctx.case_val = NoNode THEN e ELSE ctx.case_val
    [] e.k = "Coalesce" -> SimplifiedCoalesce(e, 1, <<>>, ctx)
    [] e.k = "ArrayExpr" -> SimplifiedElements(e, ProcessedArgs(e.args, ctx), "ArrayConst")
    [] e.k = "Row" -> SimplifiedElements(e, ProcessedArgs(e.args, ctx), "RowConst")
    [] e.k = "Field" -> SimplifiedField(e, First(e, ctx))
    [] e.k = "NullTest" -> SimplifiedNullTest(e, First(e, ctx))
    [] e.k = "BooleanTest" -> SimplifiedBooleanTest(e, First(e, ctx))
    [] OTHER -> [e EXCEPT !.args = ProcessedArgs(e.args, ctx)]

eval_const_expressions(e, moment, bound) == eval_const_expressions_mutator(e, Context(moment, bound, FALSE))
estimate_expression_value(e, moment, bound) == eval_const_expressions_mutator(e, Context(moment, bound, TRUE))
====
