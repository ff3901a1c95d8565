---- MODULE Predicates ----
(* predtest.c: proofs that a clause implies or refutes a predicate, and orclauses.c: the    *)
(* restrictions of one relation that follow from an OR over several.                        *)
EXTENDS Expressions

CONSTANT MAX_SAOP_ARRAY_SIZE

\* The place of an operator in its btree family, and the operator of a place ("" for place 0).
Family(f) == CASE f \in {"beq", "bne"} -> "bool" [] f = "tideq" -> "tid" [] OTHER -> "int"
Strategies == [int |-> <<"<", "<=", "=", ">=", ">", "<>">>, bool |-> <<"", "", "beq", "", "", "bne">>,
               tid |-> <<"", "", "tideq", "", "", "">>]
Strategy(f) == CHOOSE i \in 1..6 : Strategies[Family(f)][i] = f
OperatorFor(family, s) == IF s = 0 THEN "" ELSE Strategies[family][s]

\* By the strategy of the clause, then of the predicate: LT, LE, EQ, GE, GT, NE.
BT_implies_table ==
  << <<TRUE, TRUE, FALSE, FALSE, FALSE, TRUE>>, <<FALSE, TRUE, FALSE, FALSE, FALSE, FALSE>>,
     <<FALSE, TRUE, TRUE, TRUE, FALSE, FALSE>>, <<FALSE, FALSE, FALSE, TRUE, FALSE, FALSE>>,
     <<FALSE, FALSE, FALSE, TRUE, TRUE, TRUE>>, <<FALSE, FALSE, FALSE, FALSE, FALSE, TRUE>> >>
BT_refutes_table ==
  << <<FALSE, FALSE, TRUE, TRUE, TRUE, FALSE>>, <<FALSE, FALSE, FALSE, FALSE, TRUE, FALSE>>,
     <<TRUE, FALSE, FALSE, FALSE, TRUE, TRUE>>, <<TRUE, FALSE, FALSE, FALSE, FALSE, FALSE>>,
     <<TRUE, TRUE, TRUE, FALSE, FALSE, FALSE>>, <<FALSE, FALSE, TRUE, FALSE, FALSE, FALSE>> >>
\* The strategy that, applied to the two constants, decides; 0 for none.
BT_implic_table ==
  << <<4, 4, 0, 0, 0, 4>>, <<5, 4, 0, 0, 0, 5>>, <<5, 4, 3, 2, 1, 6>>,
     <<0, 0, 0, 2, 1, 1>>, <<0, 0, 0, 2, 2, 2>>, <<0, 0, 0, 0, 0, 3>> >>
BT_refute_table ==
  << <<0, 0, 4, 4, 4, 0>>, <<0, 0, 5, 5, 4, 0>>, <<2, 1, 6, 5, 4, 3>>,
     <<2, 1, 1, 0, 0, 0>>, <<2, 2, 2, 0, 0, 0>>, <<0, 0, 3, 0, 0, 0>> >>
Entry(table, p, c) == table[Strategy(c)][Strategy(p)]
\* lookup_proof_cache: what the tables say of two operators of one family.
same_subexprs(p, c, refute) ==
  /\ Family(p) = Family(c)
  /\ Volatility(c) = "immutable"
  /\ IF refute THEN Entry(BT_refutes_table, p, c) ELSE Entry(BT_implies_table, p, c)
get_btree_test_op(p, c, refute) ==
  IF Family(p) # Family(c) THEN ""
  ELSE OperatorFor(Family(p), IF refute THEN Entry(BT_refute_table, p, c) ELSE Entry(BT_implic_table, p, c))
operator_same_subexprs_proof(p, c, refute) ==
  \/ IF refute THEN Negator(p) = c ELSE p = c
  \/ same_subexprs(p, c, refute)

----
\* Two comparisons that share a side, commuted so that the shared side is the left one of both;
\* NoMatch when they share none.
NoMatch == [pred_op |-> "", clause_op |-> "", pred_other |-> NoNode, clause_other |-> NoNode]
Match(p, pother, c, cother) == [pred_op |-> p, clause_op |-> c, pred_other |-> pother, clause_other |-> cother]
Matched(p, c) ==
  CASE p.args[1] = c.args[1] -> Match(p.f, p.args[2], c.f, c.args[2])
    [] p.args[1] # c.args[1] /\ p.args[2] = c.args[2] -> Match(Commutator(p.f), p.args[1], Commutator(c.f), c.args[1])
    [] p.args[1] = c.args[2] /\ p.args[2] = c.args[1] -> Match(Commutator(p.f), p.args[1], c.f, c.args[2])
    [] p.args[1] = c.args[2] /\ p.args[2] # c.args[1] -> Match(p.f, p.args[2], Commutator(c.f), c.args[1])
    [] p.args[2] = c.args[1] /\ p.args[1] # c.args[2] -> Match(Commutator(p.f), p.args[1], c.f, c.args[2])
    [] OTHER -> NoMatch
ConstantsProve(m, refute, weak, test_op) ==
  IF m.clause_other.v = Null
  THEN /\ Strict(m.clause_op)
       /\ weak /\ ~refute => m.pred_other.v = Null /\ Strict(m.pred_op)
  ELSE IF m.pred_other.v = Null THEN weak /\ Strict(m.pred_op)
  ELSE test_op # "" /\ Compare(test_op, m.pred_other.v, m.clause_other.v)
MatchProves(m, refute, weak) ==
  IF m = NoMatch THEN FALSE
  ELSE IF m.pred_other = m.clause_other THEN operator_same_subexprs_proof(m.pred_op, m.clause_op, refute)
  ELSE /\ m.pred_other.k = "Const" /\ m.clause_other.k = "Const"
       /\ ConstantsProve(m, refute, weak, get_btree_test_op(m.pred_op, m.clause_op, refute))
operator_predicate_proof(p, c, refute, weak) ==
  p.k = "Op" /\ c.k = "Op" /\ MatchProves(Matched(p, c), refute, weak)

\* The clause is null, or with allow_false null or false, wherever sub is null.
Bare(e) == IF e.k = "Relabel" THEN e.args[1] ELSE e
RECURSIVE clause_is_strict_for(_, _, _)
SaopIsStrictFor(c, sub, allow_false) ==
  \/ /\ clause_is_strict_for(c.args[1], sub, FALSE)
     /\ Strict(c.f)
     /\ \/ allow_false /\ c.v = 1
        \/ IsNullConst(c.args[2])
        \/ c.args[2].k \in {"ArrayConst", "ArrayExpr"} /\ c.args[2].args # <<>>
  \/ clause_is_strict_for(c.args[2], sub, FALSE)
clause_is_strict_for(c, sub, allow_false) ==
  \/ Bare(c) = Bare(sub)
  \/ /\ Bare(c).k \in {"Op", "Func"} /\ Strict(Bare(c).f)
     /\ \E i \in DOMAIN Bare(c).args : clause_is_strict_for(Bare(c).args[i], Bare(sub), FALSE)
  \/ Bare(c).k = "ScalarArrayOp" /\ SaopIsStrictFor(Bare(c), Bare(sub), allow_false)
  \/ IsNullConst(Bare(c))

predicate_implied_by_simple_clause(p, c, weak) ==
  IF p = c THEN TRUE
  ELSE IF ~weak /\ p.k = "NullTest"
  THEN p.f = "IsNotNull" /\ p.v = 0 /\ clause_is_strict_for(c, p.args[1], TRUE)
  ELSE operator_predicate_proof(p, c, FALSE, weak)
\* A null test of a value, not of a row.
Tests(f, e) == e.k = "NullTest" /\ e.f = f /\ e.v = 0
predicate_refuted_by_simple_clause(p, c, weak) ==
  CASE p.k = "NullTest" /\ p.f = "IsNull" ->
         /\ Tests("IsNull", p)
         /\ clause_is_strict_for(c, p.args[1], TRUE) \/ (Tests("IsNotNull", c) /\ c.args = p.args)
    [] ~(p.k = "NullTest" /\ p.f = "IsNull") /\ c.k = "NullTest" /\ c.f = "IsNull" ->
         /\ Tests("IsNull", c)
         /\ \/ Tests("IsNotNull", p) /\ c.args = p.args
            \/ weak /\ clause_is_strict_for(p, c.args[1], TRUE)
    [] OTHER -> operator_predicate_proof(p, c, TRUE, weak)

\* What a clause denies; strongly when the clause is true only where that is false.
extract_not_arg(e) ==
  IF e.k = "Not" \/ (e.k = "BooleanTest" /\ e.f \in {"IsNotTrue", "IsFalse", "IsUnknown"}) THEN e.args[1] ELSE NoNode
extract_strong_not_arg_Any(e) == extract_not_arg(e)
extract_strong_not_arg(e) ==
  IF e.k = "Not" \/ (e.k = "BooleanTest" /\ e.f = "IsFalse") THEN e.args[1] ELSE NoNode

SmallArray(e) == e.k \in {"ArrayConst", "ArrayExpr"} /\ Len(e.args) <= MAX_SAOP_ARRAY_SIZE
predicate_classify(e) ==
  CASE e.k = "And" \/ (e.k = "ScalarArrayOp" /\ e.v = 0 /\ SmallArray(e.args[2])) -> "AND"
    [] e.k = "Or" \/ (e.k = "ScalarArrayOp" /\ e.v = 1 /\ SmallArray(e.args[2])) -> "OR"
    [] OTHER -> "ATOM"
Items(e) ==
  IF e.k = "ScalarArrayOp" THEN {Op(e.f, e.args[1], e.args[2].args[i]) : i \in DOMAIN e.args[2].args}
  ELSE {e.args[i] : i \in DOMAIN e.args}

RECURSIVE predicate_implied_by_recurse(_, _, _), predicate_refuted_by_recurse(_, _, _)
predicate_implied_by_recurse(c, p, weak) ==
  LET cc == predicate_classify(c)
      pc == predicate_classify(p)
      AllP == \A q \in Items(p) : predicate_implied_by_recurse(c, q, weak)
      SomeP == \E q \in Items(p) : predicate_implied_by_recurse(c, q, weak)
      AllC == \A d \in Items(c) : predicate_implied_by_recurse(d, p, weak)
      SomeC == \E d \in Items(c) : predicate_implied_by_recurse(d, p, weak)
  IN CASE pc = "AND" /\ cc \in {"AND", "ATOM"} -> AllP
       [] pc = "OR" /\ cc = "AND" -> SomeP \/ SomeC
       [] pc = "ATOM" /\ cc = "AND" -> SomeC
       [] pc = "OR" /\ cc = "OR" ->
            \A d \in Items(c) : \E q \in Items(p) : predicate_implied_by_recurse(d, q, weak)
       [] pc # "OR" /\ cc = "OR" -> AllC
       [] pc = "OR" /\ cc = "ATOM" -> SomeP
       [] OTHER -> predicate_implied_by_simple_clause(p, c, weak)

Denied(c, p) == extract_not_arg(p) # NoNode /\ predicate_implied_by_recurse(c, extract_not_arg(p), FALSE)
StronglyDenied(c, p, weak) ==
  extract_strong_not_arg(c) # NoNode /\ predicate_implied_by_recurse(p, extract_strong_not_arg(c), ~weak)
predicate_refuted_by_recurse(c, p, weak) ==
  LET cc == predicate_classify(c)
      pc == predicate_classify(p)
      AllP == \A q \in Items(p) : predicate_refuted_by_recurse(c, q, weak)
      SomeP == \E q \in Items(p) : predicate_refuted_by_recurse(c, q, weak)
      AllC == \A d \in Items(c) : predicate_refuted_by_recurse(d, p, weak)
      SomeC == \E d \in Items(c) : predicate_refuted_by_recurse(d, p, weak)
  IN \/ cc = "ATOM" /\ StronglyDenied(c, p, weak)
     \/ CASE cc = "AND" /\ pc = "AND" -> SomeP \/ SomeC
          [] pc = "OR" -> AllP
          [] cc = "AND" /\ pc = "ATOM" -> Denied(c, p) \/ SomeC
          [] cc = "OR" /\ pc = "AND" ->
               \A d \in Items(c) : \E q \in Items(p) : predicate_refuted_by_recurse(d, q, weak)
          [] cc = "OR" /\ pc = "ATOM" -> Denied(c, p) \/ AllC
          [] cc = "ATOM" /\ pc = "AND" -> SomeP
          [] OTHER -> Denied(c, p) \/ predicate_refuted_by_simple_clause(p, c, weak)

\* Over lists of conditions that must all hold.
AsClause(list) == IF Len(list) = 1 THEN list[1] ELSE And(list)
predicate_implied_by(predicates, clauses, weak) ==
  \/ predicates = <<>>
  \/ clauses # <<>> /\ predicate_implied_by_recurse(AsClause(clauses), AsClause(predicates), weak)
predicate_refuted_by(predicates, clauses, weak) ==
  predicates # <<>> /\ clauses # <<>> /\ predicate_refuted_by_recurse(AsClause(clauses), AsClause(predicates), weak)

----
\* orclauses.c: what an OR says of one relation, NoNode if some arm says nothing of it.
is_safe_restriction_clause_for(e, rel) == pull_varnos(e) = {rel} /\ ~contain_volatile_functions(e)
RECURSIVE extract_or_clause(_, _)
Conjuncts(arm) == IF arm.k = "And" THEN arm.args ELSE <<arm>>
Extracted(e, rel) ==
  IF e.k = "Or" THEN extract_or_clause(e, rel)
  ELSE IF is_safe_restriction_clause_for(e, rel) THEN e ELSE NoNode
IsNode(e) == e # NoNode
subclauses(arm, rel) == SelectSeq([i \in DOMAIN Conjuncts(arm) |-> Extracted(Conjuncts(arm)[i], rel)], IsNode)
RECURSIVE Arms(_)
Arms(list) ==
  IF list = <<>> THEN <<>> ELSE (IF Head(list).k = "Or" THEN Head(list).args ELSE <<Head(list)>>) \o Arms(Tail(list))
extract_or_clause(e, rel) ==
  LET arms == [i \in DOMAIN e.args |-> subclauses(e.args[i], rel)]
  IN IF \E i \in DOMAIN arms : arms[i] = <<>> THEN NoNode
     ELSE Or(Arms([i \in DOMAIN arms |-> AsClause(arms[i])]))
====
