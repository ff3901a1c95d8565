----------------------------- MODULE MCJoinPaths -----------------------------
(***************************************************************************)
(* Queries of four relations to model-check JoinPaths with.                *)
(***************************************************************************)
EXTENDS JoinPaths, TLC

FourRels == 1..4
\* Columns a1..a4 and b1, an expression of two relations and two constants, all of one type;
\* columns and a constant of three types, of which "t1" and "t3" have no common equality.
SomeExprs == {"a1", "a2", "a3", "a4", "b1", "s12", "k", "x1", "y2", "z3", "z1", "kz", "k2"}
RelidsOf ==
  [e \in SomeExprs |->
     CASE e \in {"a1", "b1", "x1", "z1"} -> {1} [] e \in {"a2", "y2"} -> {2}
       [] e \in {"a3", "z3"} -> {3} [] e = "a4" -> {4} [] e = "s12" -> {1, 2} [] OTHER -> {}]
Columns == SomeExprs \ {"s12", "k", "kz", "k2"}
TypeOfExpr ==
  [e \in SomeExprs |-> CASE e = "x1" -> "t1" [] e = "y2" -> "t2" [] e \in {"z3", "z1", "kz"} -> "t3"
                         [] OTHER -> "int"]
SomeOps ==
  {<<"int", "int">>} \cup {o \in {"t1", "t2", "t3"} \X {"t1", "t2", "t3"} : {o[1], o[2]} # {"t1", "t3"}}
Complete ==
  { {<<"a1", "a2">>, <<"a2", "a3">>},
    {<<"a1", "a2">>, <<"b1", "a2">>},
    {<<"s12", "a3">>, <<"a3", "a4">>},
    {<<"s12", "a3">>, <<"a1", "a3">>},
    {<<"a1", "a2">>, <<"a2", "k">>, <<"s12", "k">>},
    {<<"a1", "k">>, <<"k2", "a3">>, <<"a3", "a1">>} }
\* A class breaks at a join, at a relation, at its constant.
Incomplete ==
  { {<<"x1", "y2">>, <<"y2", "z3">>},
    {<<"x1", "y2">>, <<"y2", "z1">>},
    {<<"x1", "y2">>, <<"y2", "kz">>} }
SomeQueries == Complete \cup Incomplete
Others == {[left |-> "s12", right |-> "a4", derived |-> FALSE, required |-> {1, 2, 4}]}
Semijoins == {[min_lefthand |-> {1}, min_righthand |-> {2, 3}]}
Keys == <<[con |-> 4, ref |-> 3, keys |-> <<<<"a4", "a3">>>>], [con |-> 1, ref |-> 3, keys |-> <<<<"z1", "z3">>, <<"x1", "z3">>>>]>>
===============================================================================
