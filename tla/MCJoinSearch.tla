---------------------------- MODULE MCJoinSearch ----------------------------
(***************************************************************************)
(* Statements of three and four relations to model-check JoinSearch with.  *)
(***************************************************************************)
EXTENDS JoinSearch

FourRels == 1..4

Eq(s) == [on |-> s, strict |-> s, equal |-> Cardinality(s) = 2, forced_null |-> FALSE, test |-> "eq"]
\* An equality that takes a null for 0, of all relations or of all but some.
Default(s) == [on |-> s, strict |-> {}, equal |-> FALSE, forced_null |-> FALSE, test |-> "default"]
DefaultBut(s, r) == [on |-> s, strict |-> {r}, equal |-> FALSE, forced_null |-> FALSE, test |-> "default"]
Large(r) == [on |-> {r}, strict |-> {r}, equal |-> FALSE, forced_null |-> FALSE, test |-> "large"]
IsNull(r) == [on |-> {r}, strict |-> {}, equal |-> FALSE, forced_null |-> TRUE, test |-> "null"]

TestHolds(test, values) ==
  LET v == Range(values)
  IN CASE test = "eq" -> Cardinality(v) = 1
       [] test = "default" -> Cardinality({IF x = Null THEN 0 ELSE x : x \in v}) = 1
       [] test = "large" -> v \subseteq 6..15
       [] test = "null" -> v = {Null}

J(t, left, right, quals) == [jointype |-> t, left |-> left, right |-> right, quals |-> quals]
\* What may be mentioned above a join.
Visible(j) == IF j.jointype = "SEMI" THEN j.left ELSE j.left \cup j.right

Conditions(sets) == {Eq(s) : s \in sets} \cup {Default(s) : s \in sets}

\* (1 j 2) k 3 and 1 j (2 k 3), the lower join's condition strict, or for one side, or not.
Lower(l, r) == {J(t, {l}, {r}, {c}) : t \in Types, c \in {Eq({l, r}), Default({l, r}), DefaultBut({l, r}, l)}}
Upper(seen, r) ==
  Conditions({s \cup {r} : s \in SUBSET seen \ {{}}}) \cup {Large(q) : q \in seen \cup {r}}
Three(j, left, right, seen, r) ==
  {[joins |-> <<j, J(t, left, right, {c})>>, where |-> {}] : t \in Types, c \in Upper(seen, r)}
WithoutWhere ==
  UNION {Three(j, {1, 2}, {3}, Visible(j), 3) : j \in Lower(1, 2)}
    \cup UNION {Three(j, {1}, {2, 3}, Visible(j), 1) : j \in Lower(2, 3)}

\* A WHERE condition on what both joins leave visible.
Seen(s) == {r \in 1..3 : \A i \in DOMAIN s.joins : r \in s.joins[i].left \cup s.joins[i].right => r \in Visible(s.joins[i])}
WithWhere ==
  UNION {{[s EXCEPT !.where = {c}] : c \in Conditions({p \in SUBSET Seen(s) : Cardinality(p) > 1})
                                   \cup {Large(r) : r \in Seen(s)} \cup {IsNull(r) : r \in Seen(s)}} :
    s \in {s \in WithoutWhere : \A i \in 1..2 : \A c \in s.joins[i].quals : Cardinality(c.on) = 2 /\ c.test = "eq"}}


\* Four relations: every tree of inner and left joins, each on a condition of two relations.
Trees ==
  { <<<<{1}, {2}>>, <<{1, 2}, {3}>>, <<{1, 2, 3}, {4}>>>>,
    <<<<{2}, {3}>>, <<{1}, {2, 3}>>, <<{1, 2, 3}, {4}>>>>,
    <<<<{1}, {2}>>, <<{3}, {4}>>, <<{1, 2}, {3, 4}>>>>,
    <<<<{2}, {3}>>, <<{2, 3}, {4}>>, <<{1}, {2, 3, 4}>>>>,
    <<<<{3}, {4}>>, <<{2}, {3, 4}>>, <<{1}, {2, 3, 4}>>>> }
JoinsOf(node) ==
  {J(t, node[1], node[2], {c}) :
     t \in {"INNER", "LEFT"}, c \in Conditions({{l, r} : l \in node[1], r \in node[2]})}
FourRelStatements ==
  UNION {{[joins |-> <<a, b, c>>, where |-> {}] : a \in JoinsOf(t[1]), b \in JoinsOf(t[2]), c \in JoinsOf(t[3])} :
           t \in Trees}
SomeStatements == WithoutWhere \cup WithWhere \cup FourRelStatements

Bits(v, r) == (v \div (2 ^ (r - 1))) % 2 = 1
\* Every value is in a different set of relations.
AllPatterns == {[r \in Rels |-> {v \in 0..(2 ^ Cardinality(Rels)) - 1 : Bits(v, r)}]}
===============================================================================
