--------------------------- MODULE JoinSearchProofs ---------------------------
(***************************************************************************)
(* Taking a statement's join tree apart, for every tree of joins of every  *)
(* type and all conditions: no assertion of initsplan.c fails, what a join *)
(* needs is of its own two sides, and no condition is evaluated below an   *)
(* outer join that can null it.  The proofs rest on one fact about a       *)
(* statement: of two joins one is wholly on a side of the other, or they   *)
(* have nothing in common.  It makes the sides and scopes of joins closed  *)
(* under what check_outerjoin_delay adds to a condition's relations.       *)
(*                                                                         *)
(* Then the search for join orders: what the levels hold, that a search    *)
(* finds the relations it is to join already made, and that without        *)
(* special joins it never comes to an empty level.                         *)
(***************************************************************************)
EXTENDS JoinSearch, ListOpsProofs, FiniteSetTheorems


Infos == [jointype : Types, syn_lefthand : SUBSET Rels, syn_righthand : SUBSET Rels,
          min_lefthand : SUBSET Rels, min_righthand : SUBSET Rels,
          lhs_strict : BOOLEAN, delay_upper_joins : BOOLEAN,
          semi_can : BOOLEAN, semi_rhs : SUBSET Rels]

Whole(o) == o.syn_lefthand \cup o.syn_righthand
Least(o) == o.min_lefthand \cup o.min_righthand

\* The info of a join.
MadeOf(o, j) ==
  o.jointype = j.jointype /\ o.syn_lefthand = j.left /\ o.syn_righthand = j.right

\* A join is inside of a set of relations or has nothing of it.
Undivided(o, set) == Overlap(Whole(o), set) => Whole(o) \subseteq set
InsideOf(o, p) == Undivided(o, p.syn_lefthand) /\ Undivided(o, p.syn_righthand)

Listed ==
  /\ join_info_list \in Seq(Infos)
  /\ \A o \in Info : \E i \in DOMAIN statement.joins : i < next /\ MadeOf(o, statement.joins[i])

\* Conditions that are evaluated as low as they can be are those of joins taken apart.
InScope ==
  \A c \in rinfos : c.is_pushed_down =>
    \E i \in DOMAIN statement.joins : i < next /\ c.required_relids \subseteq Scope(statement.joins[i])

TreeInv ==
  /\ statement \in Statements /\ next \in 1..Len(statement.joins) + 2
  /\ Listed /\ SidesWithin /\ InScope /\ PlacedRight /\ AssertionsHold

\* What the proofs of one step need of the infos made so far, and of a join.
Lower ==
  /\ \A o \in Info : o \in Infos
  /\ SidesWithin
  /\ \A o, p \in Info : (o.syn_lefthand = p.syn_lefthand /\ o.syn_righthand = p.syn_righthand)
                          \/ InsideOf(o, p) \/ InsideOf(p, o)
Above(j) ==
  /\ j.jointype \in Types /\ Scope(j) \subseteq Rels
  /\ ~Overlap(j.left, j.right) /\ j.left # {} /\ j.right # {}
  /\ \A o \in Info : Undivided(o, j.left) /\ Undivided(o, j.right)
  /\ \A c \in j.quals : c.on # {} /\ c.on \subseteq Scope(j)

------------------------------------------------------------------------------
(* check_outerjoin_delay *)

Closed(s) == \A o \in Info : Nulls(o, s) => Least(o) \subseteq s

\* It finds the least set that contains all it calls for.
LEMMA LeastDelay ==
  ASSUME Lower, NEW relids \in SUBSET Rels
  PROVE  /\ check_outerjoin_delay(relids) \in SUBSET Rels
         /\ relids \subseteq check_outerjoin_delay(relids)
         /\ Closed(check_outerjoin_delay(relids))
         /\ \A t \in SUBSET Rels :
              relids \subseteq t /\ Closed(t) => check_outerjoin_delay(relids) \subseteq t
<1> DEFINE waits(s) == relids \subseteq s /\ \A o \in Info : Nulls(o, s) => o.min_lefthand \cup o.min_righthand \subseteq s
           all == {t \in SUBSET Rels : waits(t)}
           m == {r \in Rels : \A t \in all : r \in t}
<1>1. \A t \in SUBSET Rels : waits(t) <=> relids \subseteq t /\ Closed(t)
  BY DEF Closed, Least
<1>2. \A t \in all : m \subseteq t
  OBVIOUS
<1>3. relids \subseteq m
  OBVIOUS
<1>4. ASSUME NEW o \in Info, Nulls(o, m) PROVE Least(o) \subseteq m
  <2>1. \A t \in all : Nulls(o, t)
    BY <1>2, <1>4 DEF Nulls, Overlap
  <2>2. \A t \in all : Least(o) \subseteq t
    BY <2>1 DEF Least
  <2>3. Least(o) \subseteq Rels
    BY DEF Lower, Infos, Least
  <2>4. QED
    BY <2>2, <2>3
<1>5. waits(m) /\ m \in SUBSET Rels
  BY <1>3, <1>4 DEF Least
<1>6. \A t \in SUBSET Rels : waits(t) => m \subseteq t
  BY <1>2
<1> DEFINE d == CHOOSE s \in SUBSET Rels : waits(s) /\ \A t \in SUBSET Rels : waits(t) => s \subseteq t
<1>7. d = check_outerjoin_delay(relids)
  BY DEF check_outerjoin_delay
<1> HIDE DEF m, all
<1>8. d \in SUBSET Rels /\ waits(d) /\ \A t \in SUBSET Rels : waits(t) => d \subseteq t
  BY <1>5, <1>6
<1> HIDE DEF d, waits
<1>9. QED
  BY <1>1, <1>7, <1>8

\* The sides and the scope of a join call for nothing else.
LEMMA SidesClosed ==
  ASSUME Lower, NEW j, Above(j)
  PROVE  Closed(j.left) /\ Closed(j.right) /\ Closed(Scope(j))
<1>1. ASSUME NEW o \in Info
      PROVE  /\ Least(o) \subseteq Whole(o)
             /\ \A s : Nulls(o, s) => Overlap(Whole(o), s)
  BY DEF Lower, SidesWithin, Least, Whole, Nulls, Overlap
<1>2. ASSUME NEW o \in Info PROVE Undivided(o, j.left) /\ Undivided(o, j.right)
  BY DEF Above
<1>3. QED
  BY <1>1, <1>2 DEF Closed, Undivided, Scope, Overlap

\* So a condition on relations of a side is evaluated inside of that side.
LEMMA DelayedInside ==
  ASSUME Lower, NEW j, Above(j), NEW relids
  PROVE  /\ relids \subseteq j.right => check_outerjoin_delay(relids) \subseteq j.right
         /\ relids \subseteq Scope(j) => check_outerjoin_delay(relids) \subseteq Scope(j)
<1>1. j.right \subseteq Rels /\ Scope(j) \subseteq Rels
  BY DEF Above, Scope
<1>2. QED
  BY <1>1, LeastDelay, SidesClosed

------------------------------------------------------------------------------
(* make_outerjoininfo *)

LEMMA SynInside ==
  ASSUME NEW infos, NEW set, \A o \in infos : Whole(o) \subseteq set
  PROVE  Syn(infos) \subseteq set
BY DEF Syn, Whole

LEMMA SynHas ==
  ASSUME NEW infos, NEW o \in infos
  PROVE  Whole(o) \subseteq Syn(infos)
BY DEF Syn, Whole

LEMMA InfoTyped ==
  ASSUME NEW type \in Types, NEW left \in SUBSET Rels, NEW right \in SUBSET Rels,
         NEW min_left \in SUBSET Rels, NEW min_right \in SUBSET Rels,
         NEW strict \in BOOLEAN, NEW delay \in BOOLEAN, NEW can \in BOOLEAN, NEW rhs \in SUBSET Rels
  PROVE  [jointype |-> type, syn_lefthand |-> left, syn_righthand |-> right,
          min_lefthand |-> min_left, min_righthand |-> min_right, lhs_strict |-> strict,
          delay_upper_joins |-> delay, semi_can |-> can, semi_rhs |-> rhs] \in Infos
BY DEF Infos

LEMMA InfoMade ==
  ASSUME Lower, NEW j, Above(j)
  PROVE  LET info == make_outerjoininfo(j)
         IN /\ info \in Infos /\ MadeOf(info, j)
            /\ info.min_lefthand \subseteq j.left /\ info.min_righthand \subseteq j.right
            /\ info.min_lefthand # {} /\ info.min_righthand # {}
            /\ \A c \in j.quals : c.on \subseteq info.min_lefthand \cup info.min_righthand
<1> DEFINE info == make_outerjoininfo(j)
           full == j.jointype = "FULL"
           l == (On(j.quals) \cap j.left) \cup Syn(FullIn(j.left))
                  \cup Syn({o \in NotFull : MustFollow(j, o)})
           r == ((On(j.quals) \cup inner_join_rels(j)) \cap j.right) \cup Syn(FullIn(j.right))
                  \cup Syn({o \in NotFull : MustPrecede(j, o)})
<1>1. /\ info.min_lefthand = IF full THEN j.left ELSE IF l = {} THEN j.left ELSE l
      /\ info.min_righthand = IF full THEN j.right ELSE IF r = {} THEN j.right ELSE r
      /\ info.jointype = j.jointype /\ info.syn_lefthand = j.left /\ info.syn_righthand = j.right
  BY DEF make_outerjoininfo, NonEmpty
<1>2. l \subseteq j.left
  <2>1. \A o \in FullIn(j.left) : Whole(o) \subseteq j.left
    BY DEF FullIn, Above, Undivided, Whole, Overlap
  <2>2. \A o \in {o \in NotFull : MustFollow(j, o)} : Whole(o) \subseteq j.left
    BY DEF NotFull, MustFollow, Above, Undivided, Whole, Overlap
  <2>3. Syn(FullIn(j.left)) \subseteq j.left
    BY <2>1, SynInside
  <2>4. Syn({o \in NotFull : MustFollow(j, o)}) \subseteq j.left
    BY <2>2, SynInside
  <2>5. QED
    BY <2>3, <2>4
<1>3. r \subseteq j.right
  <2>1. \A o \in FullIn(j.right) : Whole(o) \subseteq j.right
    BY DEF FullIn, Above, Undivided, Whole, Overlap
  <2>2. \A o \in {o \in NotFull : MustPrecede(j, o)} : Whole(o) \subseteq j.right
    BY DEF NotFull, MustPrecede, Above, Undivided, Whole, Overlap
  <2>3. Syn(FullIn(j.right)) \subseteq j.right
    BY <2>1, SynInside
  <2>4. Syn({o \in NotFull : MustPrecede(j, o)}) \subseteq j.right
    BY <2>2, SynInside
  <2>5. QED
    BY <2>3, <2>4
<1>4. ASSUME NEW c \in j.quals PROVE c.on \subseteq info.min_lefthand \cup info.min_righthand
  <2>1. c.on \subseteq Scope(j) /\ c.on \subseteq On(j.quals)
    BY DEF Above, On
  <2>2. c.on \cap j.left \subseteq l /\ c.on \cap j.right \subseteq r
    BY <2>1
  <2> HIDE DEF l, r, info
  <2>3. c.on \cap j.left \subseteq info.min_lefthand /\ c.on \cap j.right \subseteq info.min_righthand
    BY <1>1, <2>2
  <2>4. QED
    BY <2>1, <2>3 DEF Scope
<1>5. /\ info.min_lefthand \subseteq j.left /\ info.min_righthand \subseteq j.right
      /\ info.min_lefthand # {} /\ info.min_righthand # {}
  <2> HIDE DEF l, r, info
  <2>1. j.left # {} /\ j.right # {}
    BY DEF Above
  <2>2. QED
    BY <1>1, <1>2, <1>3, <2>1
<1>6. info \in Infos
  <2>1. j.jointype \in Types /\ j.left \in SUBSET Rels /\ j.right \in SUBSET Rels
    BY DEF Above, Scope
  <2>2. info.min_lefthand \in SUBSET Rels /\ info.min_righthand \in SUBSET Rels
    BY <1>5, <2>1
  <2>3. semi_can(j) \in BOOLEAN /\ semi_rhs_exprs(j) \in SUBSET Rels
    BY <2>1 DEF semi_can, semi_rhs_exprs
  <2> DEFINE strict == ~full /\ Overlap(find_nonnullable_rels(j.quals), j.left)
  <2>4. info = [jointype |-> info.jointype, syn_lefthand |-> info.syn_lefthand,
                syn_righthand |-> info.syn_righthand, min_lefthand |-> info.min_lefthand,
                min_righthand |-> info.min_righthand, lhs_strict |-> strict,
                delay_upper_joins |-> FALSE,
                semi_can |-> semi_can(j), semi_rhs |-> semi_rhs_exprs(j)]
    BY DEF make_outerjoininfo
  <2>5. strict \in BOOLEAN /\ FALSE \in BOOLEAN
    BY Zenon
  <2>6. info.jointype \in Types /\ info.syn_lefthand \in SUBSET Rels /\ info.syn_righthand \in SUBSET Rels
    BY <1>1, <2>1
  <2> HIDE DEF info, full, strict
  <2>7. [jointype |-> info.jointype, syn_lefthand |-> info.syn_lefthand,
         syn_righthand |-> info.syn_righthand, min_lefthand |-> info.min_lefthand,
         min_righthand |-> info.min_righthand, lhs_strict |-> strict,
         delay_upper_joins |-> FALSE,
         semi_can |-> semi_can(j), semi_rhs |-> semi_rhs_exprs(j)] \in Infos
    BY <2>2, <2>3, <2>5, <2>6, InfoTyped
  <2>8. QED
    BY <2>4, <2>7
<1>7. MadeOf(info, j)
  BY <1>1 DEF MadeOf
<1> HIDE DEF full, l, r
<1>8. QED
  BY <1>4, <1>5, <1>6, <1>7, Zenon

------------------------------------------------------------------------------
(* distribute_qual_to_rels *)

\* A condition of an outer join that mentions only its right side is evaluated in what the
\* join needs of that side: the lower joins that delay it are those the join must follow.
LEMMA DelayedInNeeded ==
  ASSUME Lower, NEW j, Above(j), j.jointype # "FULL", NEW c \in j.quals, c.on \subseteq j.right
  PROVE  check_outerjoin_delay(c.on) \subseteq make_outerjoininfo(j).min_righthand
<1> DEFINE near == {o \in Info : \/ Overlap(c.on, o.syn_righthand)
                                 \/ o.jointype = "FULL" /\ Overlap(c.on, Whole(o))}
           t == c.on \cup Syn(near)
           r == ((On(j.quals) \cup inner_join_rels(j)) \cap j.right) \cup Syn(FullIn(j.right))
                  \cup Syn({o \in NotFull : MustPrecede(j, o)})
<1>1. c.on \subseteq On(j.quals) /\ c.on # {}
  BY DEF On, Above
<1>2. ASSUME NEW o \in near PROVE Overlap(c.on, Whole(o)) /\ Overlap(j.right, Whole(o))
  BY <1>2 DEF Overlap, Whole
<1>3. ASSUME NEW o \in near PROVE Whole(o) \subseteq r
  <2>1. CASE o.jointype = "FULL"
    <3>1. o \in FullIn(j.right)
      BY <1>2, <2>1 DEF FullIn, Whole
    <3>2. QED
      BY <3>1, SynHas
  <2>2. CASE o.jointype # "FULL"
    <3>1. Overlap(c.on, o.syn_righthand)
      BY <2>2
    <3>2. Overlap(j.right, o.syn_righthand) /\ Overlap(On(j.quals), o.syn_righthand)
      BY <1>1, <3>1 DEF Overlap
    <3>3. o \in {q \in NotFull : MustPrecede(j, q)}
      BY <2>2, <3>2 DEF NotFull, MustPrecede
    <3>4. QED
      BY <3>3, SynHas
  <2>3. QED
    BY <2>1, <2>2
<1>4. Syn(near) \subseteq r
  BY <1>3, SynInside
<1>5. t \subseteq r
  BY <1>1, <1>4
<1>6. make_outerjoininfo(j).min_righthand = IF r = {} THEN j.right ELSE r
  BY DEF make_outerjoininfo, NonEmpty
<1>7. t \subseteq make_outerjoininfo(j).min_righthand
  <2> HIDE DEF r, t
  <2>1. QED
    BY <1>5, <1>6
<1>8. t \subseteq Rels
  BY <1>7, InfoMade DEF Above, Scope
<1>9. ASSUME NEW o \in Info, Nulls(o, t) PROVE Least(o) \subseteq t
  <2>1. Least(o) \subseteq Whole(o) /\ o.min_lefthand \subseteq o.syn_lefthand /\ o.min_righthand \subseteq o.syn_righthand
    BY DEF Lower, SidesWithin, Least, Whole
  <2>2. SUFFICES Whole(o) \subseteq t
    BY <2>1
  <2>3. ASSUME o \in near PROVE Whole(o) \subseteq t
    BY <2>3, SynHas
  <2>4. CASE Nulls(o, c.on)
    <3>1. o \in near
      BY <2>1, <2>4 DEF Nulls, Overlap, Whole
    <3>2. QED
      BY <2>3, <3>1
  <2>5. CASE ~Nulls(o, c.on)
    <3>1. PICK p \in near : Nulls(o, Whole(p))
      BY <1>9, <2>5 DEF Nulls, Overlap, Syn, Whole
    <3>2. Whole(p) \subseteq t
      BY SynHas
    <3>3. Overlap(Whole(o), Whole(p))
      BY <2>1, <3>1 DEF Nulls, Overlap, Whole
    <3>4. \/ o.syn_lefthand = p.syn_lefthand /\ o.syn_righthand = p.syn_righthand
          \/ InsideOf(o, p) \/ InsideOf(p, o)
      BY DEF Lower
    <3>5. CASE (o.syn_lefthand = p.syn_lefthand /\ o.syn_righthand = p.syn_righthand) \/ InsideOf(o, p)
      <4>1. Whole(o) \subseteq Whole(p)
        BY <3>3, <3>5 DEF InsideOf, Undivided, Overlap, Whole
      <4>2. QED
        BY <3>2, <4>1
    <3>6. CASE InsideOf(p, o)
      <4>1. \/ Whole(p) \subseteq o.syn_righthand
            \/ o.jointype = "FULL" /\ Whole(p) \subseteq o.syn_lefthand
        BY <2>1, <3>1, <3>6 DEF Nulls, InsideOf, Undivided, Overlap
      <4>2. Overlap(c.on, Whole(p))
        BY <1>2
      <4>3. o \in near
        BY <4>1, <4>2 DEF Overlap, Whole
      <4>4. QED
        BY <2>3, <4>3
    <3>7. QED
      BY <3>4, <3>5, <3>6
  <2>6. QED
    BY <2>4, <2>5
<1>10. Closed(t)
  BY <1>9 DEF Closed
<1>11. check_outerjoin_delay(c.on) \subseteq t
  <2>1. c.on \in SUBSET Rels /\ c.on \subseteq t
    BY DEF Above, Scope
  <2> HIDE DEF t
  <2>2. QED
    BY <1>8, <1>10, <2>1, LeastDelay
<1>12. QED
  BY <1>7, <1>11

ojscope(j) ==
  IF j.jointype \in {"INNER", "SEMI"} THEN {}
  ELSE make_outerjoininfo(j).min_lefthand \cup make_outerjoininfo(j).min_righthand

\* Conditions of an outer join that are not kept at the join mention only its right side.
LEMMA PushedOnRight ==
  ASSUME NEW j, Above(j), j.jointype \notin {"INNER", "SEMI"},
         NEW c \in j.quals \ OwnQuals(j.quals, nonnullable_rels(j))
  PROVE  j.jointype # "FULL" /\ c.on \subseteq j.right
<1>1. c.on # {} /\ c.on \subseteq Scope(j) /\ ~Overlap(c.on, nonnullable_rels(j))
  BY DEF Above, OwnQuals
<1>2. j.jointype \in {"LEFT", "FULL", "ANTI"}
  BY DEF Above, Types
<1>3. nonnullable_rels(j) = IF j.jointype = "FULL" THEN Scope(j) ELSE j.left
  BY <1>2 DEF nonnullable_rels
<1>4. QED
  BY <1>1, <1>3 DEF Overlap, Scope

\* "JOIN qualification cannot refer to other relations" is not raised, and the assertions
\* around it hold.
LEMMA QualsFit ==
  ASSUME Lower, NEW j, Above(j)
  PROVE  Fits(j.quals, Scope(j), ojscope(j), nonnullable_rels(j))
<1>1. ASSUME ojscope(j) # {}, NEW c \in j.quals PROVE c.on \subseteq ojscope(j)
  BY <1>1, InfoMade DEF ojscope
<1>2. ASSUME NEW c \in j.quals \ OwnQuals(j.quals, nonnullable_rels(j))
      PROVE  check_outerjoin_delay(c.on) \subseteq Scope(j)
  BY DelayedInside DEF Above
<1>3. ASSUME NEW c \in j.quals \ OwnQuals(j.quals, nonnullable_rels(j)), ojscope(j) # {}
      PROVE  check_outerjoin_delay(c.on) \subseteq ojscope(j)
  <2>1. j.jointype \notin {"INNER", "SEMI"}
    BY <1>3 DEF ojscope
  <2>2. j.jointype # "FULL" /\ c.on \subseteq j.right
    BY <2>1, PushedOnRight
  <2>3. check_outerjoin_delay(c.on) \subseteq make_outerjoininfo(j).min_righthand
    BY <2>2, DelayedInNeeded
  <2>4. QED
    BY <2>1, <2>3 DEF ojscope
<1>4. QED
  BY <1>1, <1>2, <1>3, Zenon DEF Fits

------------------------------------------------------------------------------
(* deconstruct_recurse *)

\* The joins of a statement, in the terms of the lemmas above.
LEMMA JoinOf ==
  ASSUME NEW s \in Statements, NEW i \in DOMAIN s.joins
  PROVE  LET j == s.joins[i]
         IN /\ j.jointype \in Types /\ Scope(j) \subseteq Rels
            /\ ~Overlap(j.left, j.right) /\ j.left # {} /\ j.right # {}
            /\ \A c \in j.quals : c.on # {} /\ c.on \subseteq Scope(j)
            /\ \A k \in DOMAIN s.joins : k < i =>
                 \A side \in {j.left, j.right} :
                   Overlap(Scope(s.joins[k]), side) => Scope(s.joins[k]) \subseteq side
<1>1. Len(s.joins) \in Nat /\ DOMAIN s.joins = 1..Len(s.joins)
  BY StatementsAssumption
<1>2. \A k \in DOMAIN s.joins : k < i => k \in 1..i - 1
  BY <1>1
<1>3. QED
  BY <1>2, StatementsAssumption

LEMMA InvGivesLower ==
  ASSUME TreeInv
  PROVE  Lower
<1>1. ASSUME NEW o \in Info PROVE o \in Infos
  BY ElementOfSeq, LenProperties DEF TreeInv, Listed, Info
<1>2. ASSUME NEW o \in Info, NEW p \in Info
      PROVE  (o.syn_lefthand = p.syn_lefthand /\ o.syn_righthand = p.syn_righthand)
               \/ InsideOf(o, p) \/ InsideOf(p, o)
  <2>1. PICK i \in DOMAIN statement.joins : MadeOf(o, statement.joins[i])
    BY DEF TreeInv, Listed
  <2>2. PICK k \in DOMAIN statement.joins : MadeOf(p, statement.joins[k])
    BY DEF TreeInv, Listed
  <2>3. i \in Nat /\ k \in Nat /\ statement \in Statements
    BY StatementsAssumption DEF TreeInv
  <2>4. CASE i = k
    BY <2>1, <2>2, <2>4 DEF MadeOf
  <2>5. CASE i < k
    <3>1. InsideOf(o, p)
      BY <2>1, <2>2, <2>3, <2>5, JoinOf DEF MadeOf, InsideOf, Undivided, Whole, Scope
    <3>2. QED
      BY <3>1
  <2>6. CASE k < i
    <3>1. InsideOf(p, o)
      BY <2>1, <2>2, <2>3, <2>6, JoinOf DEF MadeOf, InsideOf, Undivided, Whole, Scope
    <3>2. QED
      BY <3>1
  <2>7. QED
    BY <2>3, <2>4, <2>5, <2>6
<1>3. QED
  BY <1>1, <1>2 DEF Lower, TreeInv

LEMMA InvGivesAbove ==
  ASSUME TreeInv, next <= Len(statement.joins)
  PROVE  next \in DOMAIN statement.joins /\ Above(statement.joins[next])
<1>1. next \in DOMAIN statement.joins /\ statement \in Statements
  BY StatementsAssumption DEF TreeInv
<1> DEFINE j == statement.joins[next]
<1>2. ASSUME NEW o \in Info PROVE Undivided(o, j.left) /\ Undivided(o, j.right)
  <2>1. PICK i \in DOMAIN statement.joins : i < next /\ MadeOf(o, statement.joins[i])
    BY DEF TreeInv, Listed
  <2>2. QED
    BY <1>1, <2>1, JoinOf DEF MadeOf, Undivided, Whole, Scope
<1>3. QED
  BY <1>1, <1>2, JoinOf DEF Above

\* What a later condition may change of an info.
Alike(a, b) ==
  /\ a.jointype = b.jointype
  /\ a.syn_lefthand = b.syn_lefthand /\ a.syn_righthand = b.syn_righthand
  /\ a.min_lefthand = b.min_lefthand /\ a.min_righthand = b.min_righthand

LEMMA MarkedAlike ==
  ASSUME join_info_list \in Seq(Infos), NEW pushed
  PROVE  /\ Marked(pushed) \in Seq(Infos)
         /\ \A i \in DOMAIN Marked(pushed) :
              i \in DOMAIN join_info_list /\ Alike(Marked(pushed)[i], join_info_list[i])
<1> DEFINE delays(i) == join_info_list[i].delay_upper_joins \/ Delays(join_info_list[i], pushed)
           m == [i \in DOMAIN join_info_list |->
                   [join_info_list[i] EXCEPT !.delay_upper_joins = delays(i)]]
<1>1. Marked(pushed) = m
  BY DEF Marked
<1>2. DOMAIN join_info_list = 1..Len(join_info_list) /\ Len(join_info_list) \in Nat
  BY LenProperties
<1>3. ASSUME NEW i \in DOMAIN join_info_list
      PROVE  m[i] \in Infos /\ Alike(m[i], join_info_list[i])
  <2>1. join_info_list[i] \in Infos
    BY <1>2, ElementOfSeq
  <2>2. delays(i) \in BOOLEAN
    <3>1. join_info_list[i].delay_upper_joins \in BOOLEAN
      BY <2>1 DEF Infos
    <3>2. QED
      BY <3>1, Zenon
  <2> HIDE DEF delays
  <2>3. QED
    BY <2>1, <2>2 DEF Infos, Alike
<1>4. m \in Seq(Infos)
  <2> HIDE DEF delays
  <2>1. m \in [1..Len(join_info_list) -> Infos]
    BY <1>2, <1>3
  <2>2. QED
    BY <1>2, <2>1
<1>5. QED
  BY <1>1, <1>3, <1>4

LEMMA AlikeNulls ==
  ASSUME NEW a, NEW b, Alike(a, b), NEW s
  PROVE  (Nulls(a, s) <=> Nulls(b, s)) /\ Least(a) = Least(b)
BY DEF Alike, Nulls, Least

LEMMA InfoAfter ==
  ASSUME join_info_list \in Seq(Infos), NEW pushed, NEW new \in Infos,
         join_info_list' = Marked(pushed) \/ join_info_list' = Append(Marked(pushed), new)
  PROVE  /\ join_info_list' \in Seq(Infos)
         /\ \A o \in Info' :
              \/ \E p \in Info : Alike(o, p)
              \/ join_info_list' = Append(Marked(pushed), new) /\ o = new
<1> DEFINE m == Marked(pushed)
<1>1. /\ m \in Seq(Infos)
      /\ \A i \in DOMAIN m : i \in DOMAIN join_info_list /\ Alike(m[i], join_info_list[i])
  BY MarkedAlike
<1>2. ASSUME NEW i \in DOMAIN m PROVE \E p \in Info : Alike(m[i], p)
  BY <1>1 DEF Info
<1> HIDE DEF m
<1>3. CASE join_info_list' = m
  BY <1>1, <1>2, <1>3 DEF Info
<1>4. CASE join_info_list' = Append(m, new)
  <2>1. /\ DOMAIN m = 1..Len(m) /\ Len(m) \in Nat
        /\ DOMAIN Append(m, new) = 1..Len(m) + 1
        /\ \A i \in 1..Len(m) : Append(m, new)[i] = m[i]
        /\ Append(m, new)[Len(m) + 1] = new
        /\ Append(m, new) \in Seq(Infos)
    BY <1>1, AppendProperties, LenProperties
  <2>2. ASSUME NEW i \in 1..Len(m) + 1
        PROVE  (\E p \in Info : Alike(Append(m, new)[i], p)) \/ Append(m, new)[i] = new
    <3>1. i \in 1..Len(m) \/ i = Len(m) + 1
      BY <2>1
    <3>2. QED
      BY <1>2, <2>1, <3>1
  <2>3. QED
    BY <1>4, <2>1, <2>2 DEF Info, m
<1>5. QED
  BY <1>3, <1>4 DEF m

LEMMA PushedFrom ==
  ASSUME NEW quals, NEW scope, NEW nonnullable, NEW c \in Distributed(quals, scope, nonnullable),
         c.is_pushed_down
  PROVE  \E q \in quals \ OwnQuals(quals, nonnullable) : c.required_relids = check_outerjoin_delay(q.on)
BY DEF Distributed

\* Earlier conditions are written below the join, or apart from it.
LEMMA EarlierPlaced ==
  ASSUME TreeInv, next <= Len(statement.joins), NEW c \in rinfos, c.is_pushed_down,
         NEW info, MadeOf(info, statement.joins[next]),
         info.min_lefthand \subseteq info.syn_lefthand, info.min_righthand \subseteq info.syn_righthand,
         Nulls(info, c.required_relids)
  PROVE  c.required_relids \subseteq info.syn_lefthand \/ c.required_relids \subseteq info.syn_righthand
<1>1. PICK i \in DOMAIN statement.joins :
             i < next /\ c.required_relids \subseteq Scope(statement.joins[i])
  BY DEF TreeInv, InScope
<1>2. next \in DOMAIN statement.joins /\ statement \in Statements
  BY InvGivesAbove DEF TreeInv
<1>3. \A side \in {info.syn_lefthand, info.syn_righthand} :
        Overlap(Scope(statement.joins[i]), side) => Scope(statement.joins[i]) \subseteq side
  BY <1>1, <1>2, JoinOf DEF MadeOf
<1>4. Overlap(c.required_relids, info.syn_lefthand) \/ Overlap(c.required_relids, info.syn_righthand)
  BY DEF Nulls, Overlap
<1>5. QED
  BY <1>1, <1>3, <1>4 DEF Overlap

LEMMA JoinStep ==
  ASSUME TreeInv, DeconstructJoin
  PROVE  TreeInv'
<1> DEFINE j == statement.joins[next]
           info == make_outerjoininfo(j)
           pushed == j.quals \ OwnQuals(j.quals, nonnullable_rels(j))
<1>1. /\ next <= Len(statement.joins) /\ next' = next + 1 /\ statement' = statement
      /\ rinfos' = rinfos \cup Distributed(j.quals, ojscope(j), nonnullable_rels(j))
      /\ join_info_list' = IF j.jointype = "INNER" THEN Marked(pushed) ELSE Append(Marked(pushed), info)
      /\ failed' = (failed \/ ~Fits(j.quals, Scope(j), ojscope(j), nonnullable_rels(j))
                           \/ (j.jointype # "INNER" /\ Overlap(info.min_lefthand, info.min_righthand)))
  BY DEF DeconstructJoin, ojscope
<1>2. Lower /\ Above(j) /\ next \in DOMAIN statement.joins
  BY <1>1, InvGivesLower, InvGivesAbove
<1>3. /\ info \in Infos /\ MadeOf(info, j)
      /\ info.min_lefthand \subseteq j.left /\ info.min_righthand \subseteq j.right
      /\ info.min_lefthand # {} /\ info.min_righthand # {}
  BY <1>2, InfoMade
<1>4. next \in Nat /\ Len(statement.joins) \in Nat /\ DOMAIN statement.joins = 1..Len(statement.joins)
  BY StatementsAssumption DEF TreeInv
<1> HIDE DEF info, pushed
<1>5. /\ join_info_list' \in Seq(Infos)
      /\ \A o \in Info' : (\E p \in Info : Alike(o, p)) \/ (j.jointype # "INNER" /\ o = info)
  <2>1. join_info_list' = Marked(pushed) \/ join_info_list' = Append(Marked(pushed), info)
    BY <1>1
  <2>2. join_info_list \in Seq(Infos)
    BY DEF TreeInv, Listed
  <2>3. /\ join_info_list' \in Seq(Infos)
        /\ \A o \in Info' : (\E p \in Info : Alike(o, p))
                              \/ (join_info_list' = Append(Marked(pushed), info) /\ o = info)
    BY <1>3, <2>1, <2>2, InfoAfter
  <2>4. CASE j.jointype = "INNER"
    <3>1. Marked(pushed) # Append(Marked(pushed), info)
      <4>1. Marked(pushed) \in Seq(Infos)
        BY <2>2, MarkedAlike
      <4>2. Len(Append(Marked(pushed), info)) = Len(Marked(pushed)) + 1 /\ Len(Marked(pushed)) \in Nat
        BY <1>3, <4>1, AppendProperties, LenProperties
      <4>3. QED
        BY <4>2
    <3>2. QED
      BY <1>1, <2>3, <2>4, <3>1
  <2>5. QED
    BY <2>3, <2>4
<1>6. Listed'
  <2>1. ASSUME NEW o \in Info' PROVE \E i \in DOMAIN statement.joins : i < next + 1 /\ MadeOf(o, statement.joins[i])
    <3>1. CASE \E p \in Info : Alike(o, p)
      <4>1. PICK p \in Info : Alike(o, p)
        BY <3>1
      <4>2. PICK i \in DOMAIN statement.joins : i < next /\ MadeOf(p, statement.joins[i])
        BY DEF TreeInv, Listed
      <4>3. i < next + 1 /\ MadeOf(o, statement.joins[i])
        BY <1>4, <4>1, <4>2 DEF Alike, MadeOf
      <4>4. QED
        BY <4>3
    <3>2. CASE o = info
      BY <1>2, <1>3, <1>4, <3>2
    <3>3. QED
      BY <1>5, <3>1, <3>2
  <2>2. QED
    BY <1>1, <1>5, <2>1 DEF Listed
<1>7. SidesWithin'
  <2>1. ASSUME NEW o \in Info'
        PROVE  /\ o.min_lefthand \subseteq o.syn_lefthand /\ o.min_righthand \subseteq o.syn_righthand
               /\ o.min_lefthand # {} /\ o.min_righthand # {}
    <3>1. CASE o = info
      BY <1>3, <3>1 DEF MadeOf
    <3>2. CASE \E p \in Info : Alike(o, p)
      BY <1>2, <3>2 DEF Lower, SidesWithin, Alike
    <3>3. QED
      BY <1>5, <3>1, <3>2
  <2>2. QED
    BY <2>1 DEF SidesWithin
<1>8. ASSUME NEW c \in rinfos', c.is_pushed_down, c \notin rinfos
      PROVE  \E q \in pushed : c.required_relids = check_outerjoin_delay(q.on)
  BY <1>1, <1>8, PushedFrom DEF pushed
<1>9. ASSUME NEW q \in pushed
      PROVE  /\ q \in j.quals /\ q.on \subseteq Scope(j)
             /\ check_outerjoin_delay(q.on) \subseteq Scope(j)
             /\ Closed(check_outerjoin_delay(q.on))
  <2>1. q \in j.quals /\ q.on \subseteq Scope(j) /\ q.on \in SUBSET Rels
    BY <1>2 DEF pushed, Above
  <2>2. QED
    BY <1>2, <2>1, DelayedInside, LeastDelay
<1>10. InScope'
  <2>1. ASSUME NEW c \in rinfos', c.is_pushed_down
        PROVE  \E i \in DOMAIN statement.joins : i < next + 1 /\ c.required_relids \subseteq Scope(statement.joins[i])
    <3>1. CASE c \in rinfos
      <4>1. PICK i \in DOMAIN statement.joins : i < next /\ c.required_relids \subseteq Scope(statement.joins[i])
        BY <2>1, <3>1 DEF TreeInv, InScope
      <4>2. i < next + 1
        BY <1>4, <4>1
      <4>3. QED
        BY <4>1, <4>2
    <3>2. CASE c \notin rinfos
      BY <1>2, <1>4, <1>8, <1>9, <2>1, <3>2
    <3>3. QED
      BY <3>1, <3>2
  <2>2. QED
    BY <1>1, <2>1 DEF InScope
<1>11. PlacedRight'
  <2>1. ASSUME NEW c \in rinfos', c.is_pushed_down, NEW o \in Info',
               o.jointype # "SEMI", Nulls(o, c.required_relids)
        PROVE  \/ Least(o) \subseteq c.required_relids
               \/ c.required_relids \subseteq o.syn_lefthand
               \/ c.required_relids \subseteq o.syn_righthand
    <3>1. CASE \E p \in Info : Alike(o, p)
      <4>1. PICK p \in Info : Alike(o, p)
        BY <3>1
      <4>2. /\ Nulls(p, c.required_relids) /\ p.jointype # "SEMI" /\ Least(p) = Least(o)
            /\ p.syn_lefthand = o.syn_lefthand /\ p.syn_righthand = o.syn_righthand
        BY <2>1, <4>1, AlikeNulls DEF Alike
      <4>3. CASE c \in rinfos
        BY <2>1, <4>2, <4>3 DEF TreeInv, PlacedRight, Least
      <4>4. CASE c \notin rinfos
        <5>1. PICK q \in pushed : c.required_relids = check_outerjoin_delay(q.on)
          BY <1>8, <2>1, <4>4
        <5>2. Closed(c.required_relids)
          BY <1>9, <5>1
        <5>3. QED
          BY <4>2, <5>2 DEF Closed
      <4>5. QED
        BY <4>3, <4>4
    <3>2. CASE j.jointype # "INNER" /\ o = info
      <4>1. CASE c \in rinfos
        BY <1>1, <1>3, <2>1, <3>2, <4>1, EarlierPlaced DEF MadeOf
      <4>2. CASE c \notin rinfos
        <5>1. PICK q \in pushed : c.required_relids = check_outerjoin_delay(q.on)
          BY <1>8, <2>1, <4>2
        <5>2. q.on \subseteq j.right
          BY <1>2, <1>3, <2>1, <3>2, PushedOnRight DEF pushed, MadeOf
        <5>3. check_outerjoin_delay(q.on) \subseteq j.right
          BY <1>2, <5>2, DelayedInside
        <5>4. QED
          BY <1>3, <3>2, <5>1, <5>3 DEF MadeOf
      <4>3. QED
        BY <4>1, <4>2
    <3>3. QED
      BY <1>5, <3>1, <3>2
  <2>2. QED
    BY <2>1 DEF PlacedRight, Least
<1>12. AssertionsHold'
  <2>1. ~failed
    BY DEF TreeInv, AssertionsHold
  <2>2. Fits(j.quals, Scope(j), ojscope(j), nonnullable_rels(j))
    BY <1>2, QualsFit
  <2>3. ~Overlap(info.min_lefthand, info.min_righthand)
    BY <1>2, <1>3 DEF Above, Overlap
  <2>4. QED
    BY <1>1, <2>1, <2>2, <2>3 DEF AssertionsHold
<1>13. statement' \in Statements /\ next' \in 1..Len(statement'.joins) + 2
  BY <1>1, <1>4 DEF TreeInv
<1>14. QED
  BY <1>6, <1>7, <1>10, <1>11, <1>12, <1>13 DEF TreeInv

LEMMA LastJoin ==
  ASSUME NEW s \in Statements
  PROVE  /\ Len(s.joins) \in DOMAIN s.joins /\ Last(s.joins) = s.joins[Len(s.joins)]
         /\ \A c \in s.where : c.on # {} /\ c.on \subseteq Scope(Last(s.joins))
BY StatementsAssumption DEF Last

LEMMA WhereStep ==
  ASSUME TreeInv, DeconstructWhere
  PROVE  TreeInv'
<1> DEFINE quals == statement.where
           pushed == quals \ OwnQuals(quals, {})
           n == Len(statement.joins)
           last == statement.joins[n]
<1>1. /\ next = n + 1 /\ next' = next + 1 /\ statement' = statement
      /\ rinfos' = rinfos \cup Distributed(quals, {}, {})
      /\ join_info_list' = Marked(quals)
      /\ failed' = (failed \/ ~Fits(quals, RelsInQuery, {}, {}))
  BY DEF DeconstructWhere
<1>2. Lower /\ statement \in Statements
  BY InvGivesLower DEF TreeInv
<1>3. n \in DOMAIN statement.joins /\ n \in Nat /\ DOMAIN statement.joins = 1..n /\ RelsInQuery = Scope(last)
  BY <1>2, LastJoin, StatementsAssumption DEF RelsInQuery
<1>4. Scope(last) \in SUBSET Rels
  BY <1>2, <1>3, JoinOf
<1>5. Closed(Scope(last))
  <2>1. ASSUME NEW o \in Info, Nulls(o, Scope(last)) PROVE Least(o) \subseteq Scope(last)
    <3>1. PICK i \in DOMAIN statement.joins : MadeOf(o, statement.joins[i])
      BY DEF TreeInv, Listed
    <3>2. Least(o) \subseteq Whole(o) /\ Overlap(Whole(o), Scope(last))
      BY <1>2, <2>1 DEF Lower, SidesWithin, Least, Whole, Nulls, Overlap
    <3>3. CASE i = n
      BY <3>1, <3>2, <3>3 DEF MadeOf, Whole, Scope
    <3>4. CASE i # n
      <4>1. i < n
        BY <1>3, <3>4
      <4>2. \A side \in {last.left, last.right} :
              Overlap(Scope(statement.joins[i]), side) => Scope(statement.joins[i]) \subseteq side
        BY <1>2, <1>3, <4>1, JoinOf
      <4>3. QED
        BY <3>1, <3>2, <4>2 DEF MadeOf, Whole, Scope, Overlap
    <3>5. QED
      BY <3>3, <3>4
  <2>2. QED
    BY <2>1 DEF Closed
<1>6. ASSUME NEW q \in quals
      PROVE  /\ check_outerjoin_delay(q.on) \subseteq Scope(last)
             /\ Closed(check_outerjoin_delay(q.on))
  <2>1. q.on \subseteq Scope(last) /\ q.on \in SUBSET Rels
    BY <1>2, <1>3, <1>4, LastJoin
  <2> HIDE DEF last
  <2>2. QED
    BY <1>2, <1>4, <1>5, <2>1, LeastDelay
<1> HIDE DEF quals
<1>7. /\ join_info_list' \in Seq(Infos)
      /\ \A o \in Info' : \E p \in Info : Alike(o, p)
  <2>1. join_info_list \in Seq(Infos)
    BY DEF TreeInv, Listed
  <2>2. QED
    BY <1>1, <2>1, MarkedAlike DEF Info
<1>8. Listed'
  <2>1. ASSUME NEW o \in Info' PROVE \E i \in DOMAIN statement.joins : i < next + 1 /\ MadeOf(o, statement.joins[i])
    <3>1. PICK p \in Info : Alike(o, p)
      BY <1>7
    <3>2. PICK i \in DOMAIN statement.joins : MadeOf(p, statement.joins[i])
      BY DEF TreeInv, Listed
    <3>3. i < next + 1 /\ MadeOf(o, statement.joins[i])
      BY <1>1, <1>3, <3>1, <3>2 DEF Alike, MadeOf
    <3>4. QED
      BY <3>3
  <2>2. QED
    BY <1>1, <1>7, <2>1 DEF Listed
<1>9. SidesWithin'
  <2>1. ASSUME NEW o \in Info'
        PROVE  /\ o.min_lefthand \subseteq o.syn_lefthand /\ o.min_righthand \subseteq o.syn_righthand
               /\ o.min_lefthand # {} /\ o.min_righthand # {}
    <3>1. PICK p \in Info : Alike(o, p)
      BY <1>7
    <3>2. QED
      BY <1>2, <3>1 DEF Lower, SidesWithin, Alike
  <2>2. QED
    BY <2>1 DEF SidesWithin
<1>10. ASSUME NEW c \in rinfos', c.is_pushed_down, c \notin rinfos
       PROVE  \E q \in quals : c.required_relids = check_outerjoin_delay(q.on)
  BY <1>1, <1>10, PushedFrom
<1>11. InScope'
  <2>1. ASSUME NEW c \in rinfos', c.is_pushed_down
        PROVE  \E i \in DOMAIN statement.joins : i < next + 1 /\ c.required_relids \subseteq Scope(statement.joins[i])
    <3>1. CASE c \in rinfos
      <4>1. PICK i \in DOMAIN statement.joins : c.required_relids \subseteq Scope(statement.joins[i])
        BY <2>1, <3>1 DEF TreeInv, InScope
      <4>2. i < next + 1
        BY <1>1, <1>3, <4>1
      <4>3. QED
        BY <4>1, <4>2
    <3>2. CASE c \notin rinfos
      <4>1. c.required_relids \subseteq Scope(last)
        BY <1>6, <1>10, <2>1, <3>2
      <4>2. QED
        BY <1>1, <1>3, <4>1
    <3>3. QED
      BY <3>1, <3>2
  <2>2. QED
    BY <1>1, <2>1 DEF InScope
<1>12. PlacedRight'
  <2>1. ASSUME NEW c \in rinfos', c.is_pushed_down, NEW o \in Info',
               o.jointype # "SEMI", Nulls(o, c.required_relids)
        PROVE  \/ Least(o) \subseteq c.required_relids
               \/ c.required_relids \subseteq o.syn_lefthand
               \/ c.required_relids \subseteq o.syn_righthand
    <3>1. PICK p \in Info : Alike(o, p)
      BY <1>7
    <3>2. /\ Nulls(p, c.required_relids) /\ p.jointype # "SEMI" /\ Least(p) = Least(o)
          /\ p.syn_lefthand = o.syn_lefthand /\ p.syn_righthand = o.syn_righthand
      BY <2>1, <3>1, AlikeNulls DEF Alike
    <3>3. CASE c \in rinfos
      BY <2>1, <3>2, <3>3 DEF TreeInv, PlacedRight, Least
    <3>4. CASE c \notin rinfos
      <4>1. PICK q \in quals : c.required_relids = check_outerjoin_delay(q.on)
        BY <1>10, <2>1, <3>4
      <4>2. Closed(c.required_relids)
        BY <1>6, <4>1
      <4>3. QED
        BY <3>2, <4>2 DEF Closed
    <3>5. QED
      BY <3>3, <3>4
  <2>2. QED
    BY <2>1 DEF PlacedRight, Least
<1>13. AssertionsHold'
  <2>1. ~failed
    BY DEF TreeInv, AssertionsHold
  <2>2. \A q \in quals \ OwnQuals(quals, {}) : check_outerjoin_delay(q.on) \subseteq RelsInQuery
    BY <1>3, <1>6
  <2>3. Fits(quals, RelsInQuery, {}, {})
    BY <2>2, Zenon DEF Fits
  <2>4. QED
    BY <1>1, <2>1, <2>3 DEF AssertionsHold
<1>14. statement' \in Statements /\ next' \in 1..Len(statement'.joins) + 2
  BY <1>1, <1>2, <1>3
<1>15. QED
  BY <1>8, <1>9, <1>11, <1>12, <1>13, <1>14 DEF TreeInv

\* The search that follows reads all this and changes none of it.
LEMMA SearchLeavesTree ==
  ASSUME TreeInv, UNCHANGED <<statement, next, join_info_list, rinfos, failed>>
  PROVE  TreeInv'
BY DEF TreeInv, Listed, Info, SidesWithin, InScope, PlacedRight, AssertionsHold

LEMMA TreeStart == Init => TreeInv
<1> SUFFICES ASSUME Init PROVE TreeInv
  OBVIOUS
<1>1. /\ statement \in Statements /\ next = 1 /\ join_info_list = <<>> /\ rinfos = {} /\ failed = FALSE
  BY DEF Init, TreeInit
<1>2. Len(statement.joins) \in Nat \ {0}
  BY <1>1, StatementsAssumption
<1>3. Info = {} /\ join_info_list \in Seq(Infos)
  BY <1>1 DEF Info
<1>4. QED
  BY <1>1, <1>2, <1>3 DEF TreeInv, Listed, SidesWithin, InScope, PlacedRight, AssertionsHold

LEMMA TreeKept == TreeInv /\ [Next]_vars => TreeInv'
<1> SUFFICES ASSUME TreeInv, [Next]_vars PROVE TreeInv'
  OBVIOUS
<1>1. CASE DeconstructJoin
  BY <1>1, JoinStep
<1>2. CASE DeconstructWhere
  BY <1>2, WhereStep
<1>3. CASE ScanTables \/ Begin \/ make_join_rel \/ TryClauseless \/ NextLevel \/ UNCHANGED vars
  BY <1>3, SearchLeavesTree
     DEF ScanTables, Begin, make_join_rel, TryClauseless, NextLevel, vars, treeVars
<1>4. QED
  BY <1>1, <1>2, <1>3 DEF Next, TreeNext

\* No assertion of make_outerjoininfo or distribute_qual_to_rels fails, nor is a condition
\* found to mention what its join does not have, whatever the joins and conditions.
THEOREM NoAssertionFails == Spec => []AssertionsHold
<1>1. TreeInv => AssertionsHold
  BY DEF TreeInv
<1>2. QED
  BY TreeStart, TreeKept, <1>1, PTL DEF Spec

\* However full joins, delayed conditions and lower joins widen them, min_lefthand and
\* min_righthand (make_outerjoininfo) stay on their sides and are never empty.
THEOREM OwnSides == Spec => []SidesWithin
<1>1. TreeInv => SidesWithin
  BY DEF TreeInv
<1>2. QED
  BY TreeStart, TreeKept, <1>1, PTL DEF Spec

\* check_outerjoin_delay lets no condition that is pushed down be evaluated below an outer
\* join whose nulls it should see, then or when joins above are taken apart.
THEOREM PushedNoLower == Spec => []PlacedRight
<1>1. TreeInv => PlacedRight
  BY DEF TreeInv
<1>2. QED
  BY TreeStart, TreeKept, <1>1, PTL DEF Spec

------------------------------------------------------------------------------
(* The pairs that are tried *)

Lists == Seq(SUBSET Rels)
RelPairs == (SUBSET Rels) \X (SUBSET Rels)

\* A pair of joins that together have as many relations as a level asks for.
Fitting(p, levels, level) ==
  \E k \in 1..level - 1 :
    p[1] \in ToSet(levels[k]) /\ p[2] \in ToSet(levels[level - k]) /\ ~Overlap(p[1], p[2])
Tried(pairs, levels, level) == pairs \in Seq(RelPairs) /\ \A p \in ToSet(pairs) : Fitting(p, levels, level)

LEMMA PairsAre ==
  ASSUME NEW rel \in SUBSET Rels, NEW others \in Lists, NEW wanted
  PROVE  /\ Pairs(rel, others, wanted) \in Seq(RelPairs)
         /\ ToSet(Pairs(rel, others, wanted)) = {<<rel, r>> : r \in {r \in ToSet(others) \cap wanted : ~Overlap(rel, r)}}
<1> DEFINE allowed == {r \in wanted : ~Overlap(rel, r)}
           chosen == Among(others, allowed)
           pairs == [i \in DOMAIN chosen |-> <<rel, chosen[i]>>]
<1>1. chosen \in Lists /\ ToSet(chosen) = ToSet(others) \cap allowed
  BY AmongIs DEF Lists
<1>2. Pairs(rel, others, wanted) = pairs
  BY DEF Pairs
<1> HIDE DEF chosen
<1>3. Len(chosen) \in Nat /\ DOMAIN chosen = 1..Len(chosen) /\ \A i \in 1..Len(chosen) : chosen[i] \in SUBSET Rels
  BY <1>1, LenProperties, ElementOfSeq DEF Lists
<1>4. pairs \in [1..Len(chosen) -> RelPairs]
  BY <1>3 DEF RelPairs
<1>5. pairs \in Seq(RelPairs) /\ ToSet(pairs) = {pairs[i] : i \in 1..Len(chosen)}
  <2> HIDE DEF pairs
  <2>1. QED
    BY <1>3, <1>4, FromFunction
<1>6. ToSet(pairs) = {<<rel, r>> : r \in ToSet(chosen)}
  BY <1>3, <1>5 DEF ToSet
<1>7. QED
  BY <1>1, <1>2, <1>5, <1>6

LEMMA AfterIs ==
  ASSUME NEW rels \in Lists, NEW i \in DOMAIN rels
  PROVE  After(rels, i) \in Lists /\ ToSet(After(rels, i)) \subseteq ToSet(rels)
<1>1. Len(rels) \in Nat /\ DOMAIN rels = 1..Len(rels) /\ i \in 1..Len(rels)
  BY LenProperties DEF Lists
<1>2. \A k \in i + 1..Len(rels) : rels[k] \in ToSet(rels) \cap SUBSET Rels
  <2>1. \A k \in i + 1..Len(rels) : k \in 1..Len(rels)
    BY <1>1
  <2>2. QED
    BY <1>1, <2>1, ElementOfSeq DEF ToSet, Lists
<1>3. After(rels, i) \in Seq(ToSet(rels) \cap SUBSET Rels)
  <2>1. i + 1 \in Int /\ Len(rels) \in Int
    BY <1>1
  <2>2. QED
    BY <1>2, <2>1, SubSeqProperties DEF After
<1>4. After(rels, i) \in Seq(SUBSET Rels)
  BY <1>3, SeqMonotonic
<1>5. ToSet(After(rels, i)) \subseteq ToSet(rels)
  <2>1. \A k \in DOMAIN After(rels, i) : After(rels, i)[k] \in ToSet(rels) \cap SUBSET Rels
    BY <1>3, LenProperties, ElementOfSeq
  <2>2. QED
    BY <2>1 DEF ToSet
<1>6. QED
  BY <1>4, <1>5 DEF Lists

LEMMA FlattenedTried ==
  ASSUME NEW levels, NEW level, NEW n \in Nat, NEW seqs \in [1..n -> Seq(RelPairs)],
         \A i \in 1..n : Tried(seqs[i], levels, level)
  PROVE  Tried(FlattenSeq(seqs), levels, level)
<1>1. seqs \in Seq(Seq(RelPairs)) /\ DOMAIN seqs = 1..n
  BY FromFunction
<1>2. FlattenSeq(seqs) \in Seq(RelPairs) /\ ToSet(FlattenSeq(seqs)) = UNION {ToSet(seqs[i]) : i \in DOMAIN seqs}
  BY <1>1, FlattenIs
<1>3. QED
  BY <1>1, <1>2 DEF Tried

LEMMA PairsTried ==
  ASSUME NEW N \in Nat, NEW levels \in [1..N -> Lists], NEW level \in 2..N, NEW k \in 1..level - 1,
         NEW rel \in ToSet(levels[k]), NEW others \in Lists, ToSet(others) \subseteq ToSet(levels[level - k]),
         NEW wanted
  PROVE  Tried(Pairs(rel, others, wanted), levels, level)
<1>1. k \in 1..N /\ levels[k] \in Lists
  BY SMT
<1>2. rel \in SUBSET Rels
  BY <1>1, LenProperties, ElementOfSeq DEF ToSet, Lists
<1>3. /\ Pairs(rel, others, wanted) \in Seq(RelPairs)
      /\ ToSet(Pairs(rel, others, wanted)) = {<<rel, r>> : r \in {r \in ToSet(others) \cap wanted : ~Overlap(rel, r)}}
  BY <1>2, PairsAre
<1>4. QED
  BY <1>3 DEF Tried, Fitting

LEMMA EmptyTried ==
  ASSUME NEW levels, NEW level
  PROVE  Tried(<<>>, levels, level)
<1>1. ToSet(<<>>) = {}
  BY DEF ToSet
<1>2. QED
  BY <1>1 DEF Tried

LEMMA ListPlaces ==
  ASSUME NEW N \in Nat, NEW levels \in [1..N -> Lists], NEW k \in 1..N
  PROVE  /\ levels[k] \in Lists /\ Len(levels[k]) \in Nat /\ DOMAIN levels[k] = 1..Len(levels[k])
         /\ \A i \in DOMAIN levels[k] : levels[k][i] \in ToSet(levels[k]) /\ levels[k][i] \in SUBSET Rels
<1>1. levels[k] \in Lists
  OBVIOUS
<1>2. Len(levels[k]) \in Nat /\ DOMAIN levels[k] = 1..Len(levels[k])
  BY <1>1, LenProperties DEF Lists
<1>3. QED
  BY <1>1, <1>2, ElementOfSeq DEF ToSet, Lists

\* Every pair of a level is of two joins without common relations that have, together, as
\* many as the level says.
LEMMA LevelTried ==
  ASSUME NEW N \in Nat, NEW levels \in [1..N -> Lists], NEW level \in 2..N
  PROVE  /\ Tried(join_search_one_level(levels, level), levels, level)
         /\ Tried(ClauselessPairs(levels, level), levels, level)
<1>1. level \in Nat /\ level - 1 \in 1..level - 1 /\ level - 1 \in 1..N /\ 1 \in 1..N /\ level - (level - 1) = 1
  OBVIOUS
<1> DEFINE rels == levels[level - 1]
           m == Len(rels)
<1>2. /\ m \in Nat /\ DOMAIN rels = 1..m /\ levels[1] \in Lists /\ rels \in Lists
      /\ \A i \in 1..m : rels[i] \in ToSet(rels)
  BY <1>1, ListPlaces
<1>3. Tried(LeftDeepPairs(levels, level), levels, level)
  <2> DEFINE Of(i) == IF Tied(rels[i])
                      THEN make_rels_by_clause_joins(rels[i], IF level = 2 THEN After(rels, i) ELSE levels[1])
                      ELSE make_rels_by_clauseless_joins(rels[i], levels[1])
             seqs == [i \in 1..m |-> Of(i)]
  <2>1. LeftDeepPairs(levels, level) = FlattenSeq(seqs)
    BY <1>2 DEF LeftDeepPairs
  <2>2. ASSUME NEW i \in 1..m PROVE Tried(Of(i), levels, level)
    <3> DEFINE others == IF level = 2 THEN After(rels, i) ELSE levels[1]
    <3>1. others \in Lists /\ ToSet(others) \subseteq ToSet(levels[1])
      <4>1. CASE level = 2
        <5>1. After(rels, i) \in Lists /\ ToSet(After(rels, i)) \subseteq ToSet(rels)
          BY <1>2, AfterIs
        <5>2. QED
          BY <4>1, <5>1
      <4>2. CASE level # 2
        BY <1>2, <4>2
      <4>3. QED
        BY <4>1, <4>2
    <3> HIDE DEF others
    <3>2. Tried(make_rels_by_clause_joins(rels[i], others), levels, level)
      BY <1>1, <1>2, <3>1, PairsTried DEF make_rels_by_clause_joins
    <3>3. Tried(make_rels_by_clauseless_joins(rels[i], levels[1]), levels, level)
      BY <1>1, <1>2, PairsTried DEF make_rels_by_clauseless_joins
    <3>4. QED
      BY <3>2, <3>3 DEF others
  <2> HIDE DEF Of
  <2>3. seqs \in [1..m -> Seq(RelPairs)] /\ \A i \in 1..m : Tried(seqs[i], levels, level)
    BY <2>2 DEF Tried
  <2> HIDE DEF seqs, m
  <2>4. QED
    BY <1>2, <2>1, <2>3, FlattenedTried
<1>4. ASSUME NEW k \in 2..level - 1, k <= level - k
      PROVE  Tried(BushyPairsOf(levels, k, level - k), levels, level)
  <2> DEFINE o == level - k
             here == levels[k]
             n == Len(here)
             Of(i) == IF ~Tied(here[i]) THEN <<>>
                      ELSE make_rels_by_clause_joins(here[i], IF k = o THEN After(here, i) ELSE levels[o])
             seqs == [i \in 1..n |-> Of(i)]
  <2>1. k \in 1..N /\ o \in 1..N /\ k \in 1..level - 1
    BY <1>1, <1>4
  <2>2. /\ n \in Nat /\ DOMAIN here = 1..n /\ levels[o] \in Lists /\ here \in Lists
        /\ \A i \in 1..n : here[i] \in ToSet(here)
    BY <2>1, ListPlaces
  <2>3. BushyPairsOf(levels, k, o) = FlattenSeq(seqs)
    BY <2>2 DEF BushyPairsOf
  <2>4. ASSUME NEW i \in 1..n PROVE Tried(Of(i), levels, level)
    <3> DEFINE others == IF k = o THEN After(here, i) ELSE levels[o]
    <3>1. others \in Lists /\ ToSet(others) \subseteq ToSet(levels[o])
      <4>1. CASE k = o
        <5>1. After(here, i) \in Lists /\ ToSet(After(here, i)) \subseteq ToSet(here)
          BY <2>2, AfterIs
        <5>2. QED
          BY <4>1, <5>1
      <4>2. CASE k # o
        BY <2>2, <4>2
      <4>3. QED
        BY <4>1, <4>2
    <3> HIDE DEF others
    <3>2. Tried(make_rels_by_clause_joins(here[i], others), levels, level)
      BY <2>1, <2>2, <3>1, PairsTried DEF make_rels_by_clause_joins
    <3>3. QED
      BY <3>2, EmptyTried DEF others
  <2> HIDE DEF Of
  <2>5. seqs \in [1..n -> Seq(RelPairs)] /\ \A i \in 1..n : Tried(seqs[i], levels, level)
    BY <2>4 DEF Tried
  <2> HIDE DEF seqs, n
  <2>6. QED
    BY <2>2, <2>3, <2>5, FlattenedTried
<1>5. Tried(BushyPairs(levels, level), levels, level)
  <2> DEFINE Of(k) == IF k > 1 /\ k <= level - k THEN BushyPairsOf(levels, k, level - k) ELSE <<>>
             seqs == [k \in 1..level - 1 |-> Of(k)]
  <2>1. ASSUME NEW k \in 1..level - 1 PROVE Tried(Of(k), levels, level)
    <3>1. k > 1 => k \in 2..level - 1
      BY <1>1
    <3>2. QED
      BY <1>4, <3>1, EmptyTried
  <2>2. BushyPairs(levels, level) = FlattenSeq(seqs)
    BY DEF BushyPairs
  <2> HIDE DEF Of
  <2>3. seqs \in [1..level - 1 -> Seq(RelPairs)] /\ \A k \in 1..level - 1 : Tried(seqs[k], levels, level)
    BY <2>1 DEF Tried
  <2> HIDE DEF seqs
  <2>4. level - 1 \in Nat
    BY <1>1
  <2>5. QED
    BY <2>2, <2>3, <2>4, FlattenedTried
<1>6. Tried(join_search_one_level(levels, level), levels, level)
  <2>1. ToSet(join_search_one_level(levels, level)) = ToSet(LeftDeepPairs(levels, level)) \cup ToSet(BushyPairs(levels, level))
        /\ join_search_one_level(levels, level) \in Seq(RelPairs)
    BY <1>3, <1>5, ConcatSet DEF Tried, join_search_one_level
  <2>2. QED
    BY <1>3, <1>5, <2>1 DEF Tried
<1>7. Tried(ClauselessPairs(levels, level), levels, level)
  <2> DEFINE seqs == [i \in 1..m |-> make_rels_by_clauseless_joins(rels[i], levels[1])]
  <2>1. ClauselessPairs(levels, level) = FlattenSeq(seqs)
    BY <1>2 DEF ClauselessPairs
  <2>2. \A i \in 1..m : Tried(make_rels_by_clauseless_joins(rels[i], levels[1]), levels, level)
    BY <1>1, <1>2, PairsTried DEF make_rels_by_clauseless_joins
  <2>3. seqs \in [1..m -> Seq(RelPairs)] /\ \A i \in 1..m : Tried(seqs[i], levels, level)
    BY <2>2 DEF Tried
  <2> HIDE DEF seqs, m
  <2>4. QED
    BY <1>2, <2>1, <2>3, FlattenedTried
<1>8. QED
  BY <1>6, <1>7

\* A level would be left empty: if a join and a single relation have nothing in common they
\* are tried.
LEMMA ClauselessTried ==
  ASSUME NEW N \in Nat, NEW levels \in [1..N -> Lists], NEW level \in 2..N,
         NEW rel \in ToSet(levels[level - 1]), NEW r \in ToSet(levels[1]), ~Overlap(rel, r)
  PROVE  ClauselessPairs(levels, level) # <<>>
<1>1. level - 1 \in 1..N /\ 1 \in 1..N
  OBVIOUS
<1> DEFINE rels == levels[level - 1]
           m == Len(rels)
           seqs == [i \in 1..m |-> make_rels_by_clauseless_joins(rels[i], levels[1])]
<1>2. /\ m \in Nat /\ DOMAIN rels = 1..m /\ levels[1] \in Lists
      /\ \A i \in 1..m : rels[i] \in SUBSET Rels
  BY <1>1, ListPlaces
<1>3. ClauselessPairs(levels, level) = FlattenSeq(seqs)
  BY <1>2 DEF ClauselessPairs
<1>4. ASSUME NEW i \in 1..m
      PROVE  /\ make_rels_by_clauseless_joins(rels[i], levels[1]) \in Seq(RelPairs)
             /\ ToSet(make_rels_by_clauseless_joins(rels[i], levels[1])) =
                  {<<rels[i], q>> : q \in {q \in ToSet(levels[1]) : ~Overlap(rels[i], q)}}
  <2> DEFINE rel1 == rels[i]
             others == levels[1]
  <2>1. rel1 \in SUBSET Rels /\ others \in Lists
    BY <1>2
  <2> HIDE DEF rel1, others
  <2>2. /\ Pairs(rel1, others, ToSet(others)) \in Seq(RelPairs)
        /\ ToSet(Pairs(rel1, others, ToSet(others))) =
             {<<rel1, q>> : q \in {q \in ToSet(others) \cap ToSet(others) : ~Overlap(rel1, q)}}
    BY <2>1, PairsAre
  <2>3. QED
    BY <2>2 DEF make_rels_by_clauseless_joins, rel1, others
<1>5. PICK i \in 1..m : rels[i] = rel
  BY <1>2 DEF ToSet
<1>6. seqs \in [1..m -> Seq(RelPairs)] /\ <<rel, r>> \in ToSet(seqs[i])
  BY <1>4, <1>5
<1> HIDE DEF seqs, m
<1>7. seqs \in Seq(Seq(RelPairs)) /\ DOMAIN seqs = 1..m
  BY <1>2, <1>6, FromFunction
<1>8. ToSet(FlattenSeq(seqs)) = UNION {ToSet(seqs[k]) : k \in DOMAIN seqs}
  BY <1>7, FlattenIs
<1>9. <<rel, r>> \in ToSet(FlattenSeq(seqs))
  BY <1>6, <1>7, <1>8
<1>10. ToSet(<<>>) = {}
  BY DEF ToSet
<1>11. QED
  BY <1>3, <1>9, <1>10

------------------------------------------------------------------------------
(* Lists of relations that have nothing in common *)

Parts(list) == UNION ToSet(list)
Divided(list) ==
  /\ list \in Lists /\ list # <<>>
  /\ \A i \in DOMAIN list : list[i] # {}
  /\ \A i, k \in DOMAIN list : i # k => ~Overlap(list[i], list[k])

\* A set of relations that no join of some of the list has to be told from.
Inside(t, list) == Overlap(t, Parts(list)) => \E e \in ToSet(list) : t \subseteq e

\* A join of so many of the list.
TakenFrom(list, s) == {r \in ToSet(list) : r \subseteq s}
Joins(list, s, l) == s = UNION TakenFrom(list, s) /\ Cardinality(TakenFrom(list, s)) = l

LEMMA DividedIs ==
  ASSUME NEW list, Divided(list)
  PROVE  /\ Len(list) \in Nat /\ DOMAIN list = 1..Len(list)
         /\ \A e \in ToSet(list) : e # {} /\ e \subseteq Rels
         /\ \A e, f \in ToSet(list) : e = f \/ ~Overlap(e, f)
         /\ Parts(list) # {} /\ Parts(list) \subseteq Rels
         /\ IsInjective(list)
         /\ IsFiniteSet(ToSet(list)) /\ Cardinality(ToSet(list)) = Len(list)
<1>1. Len(list) \in Nat /\ DOMAIN list = 1..Len(list) /\ list \in [1..Len(list) -> SUBSET Rels]
  BY LenProperties DEF Divided, Lists
<1>2. \A e \in ToSet(list) : e # {} /\ e \subseteq Rels
  BY <1>1 DEF Divided, ToSet
<1>3. \A e, f \in ToSet(list) : e = f \/ ~Overlap(e, f)
  BY DEF Divided, ToSet
<1>4. ToSet(list) # {}
  <2>1. Len(list) # 0
    BY EmptySeq DEF Divided, Lists
  <2>2. 1 \in DOMAIN list
    BY <1>1, <2>1
  <2>3. QED
    BY <2>2 DEF ToSet
<1>5. IsInjective(list)
  BY DEF Divided, Overlap, IsInjective
<1>6. list \in Bijection(1..Len(list), ToSet(list))
  BY <1>1, <1>5 DEF Bijection, Injection, Surjection, IsInjective, ToSet
<1>7. ExistsBijection(1..Len(list), ToSet(list))
  BY <1>6 DEF ExistsBijection
<1>8. IsFiniteSet(ToSet(list)) /\ Cardinality(ToSet(list)) = Len(list)
  BY <1>1, <1>7, FS_CountingElements, FS_NatBijection
<1>9. QED
  BY <1>1, <1>2, <1>3, <1>4, <1>5, <1>8 DEF Parts

LEMMA CountOf ==
  ASSUME NEW list, Divided(list), NEW s
  PROVE  /\ IsFiniteSet(TakenFrom(list, s)) /\ Cardinality(TakenFrom(list, s)) \in Nat
         /\ Cardinality(TakenFrom(list, s)) <= Len(list)
         /\ Cardinality(TakenFrom(list, s)) = Len(list) => TakenFrom(list, s) = ToSet(list)
<1>1. TakenFrom(list, s) \in SUBSET ToSet(list)
  BY DEF TakenFrom
<1>2. IsFiniteSet(ToSet(list)) /\ Cardinality(ToSet(list)) = Len(list)
  BY DividedIs
<1>3. QED
  BY <1>1, <1>2, FS_Subset, FS_CardinalityType

LEMMA JoinsOne ==
  ASSUME NEW list, Divided(list), NEW e \in ToSet(list)
  PROVE  Joins(list, e, 1)
<1>1. TakenFrom(list, e) = {e}
  <2>1. \A r \in ToSet(list) : r \subseteq e => r = e
    BY DividedIs DEF Overlap
  <2>2. QED
    BY <2>1 DEF TakenFrom
<1>2. QED
  BY <1>1, FS_Singleton DEF Joins

LEMMA JoinsTwo ==
  ASSUME NEW list, Divided(list), NEW s, NEW t, NEW m \in Nat, NEW n \in Nat,
         Joins(list, s, m), Joins(list, t, n), ~Overlap(s, t)
  PROVE  Joins(list, s \cup t, m + n)
<1>1. \A e \in ToSet(list) : e # {}
  BY DividedIs
<1>2. \A e, f \in ToSet(list) : e = f \/ e \cap f = {}
  BY DividedIs DEF Overlap
<1>3. TakenFrom(list, s \cup t) = TakenFrom(list, s) \cup TakenFrom(list, t)
  <2>1. ASSUME NEW r \in ToSet(list), r \subseteq s \cup t PROVE r \subseteq s \/ r \subseteq t
    <3>1. PICK x \in r : TRUE
      BY <1>1
    <3>2. PICK e \in TakenFrom(list, s) \cup TakenFrom(list, t) : x \in e
      BY <2>1, <3>1 DEF Joins
    <3>3. e \in ToSet(list) /\ (e \subseteq s \/ e \subseteq t)
      BY <3>2 DEF TakenFrom
    <3>4. e = r
      BY <1>2, <3>1, <3>2, <3>3
    <3>5. QED
      BY <3>3, <3>4
  <2>2. QED
    BY <2>1 DEF TakenFrom
<1>4. TakenFrom(list, s) \cap TakenFrom(list, t) = {}
  BY <1>1 DEF TakenFrom, Overlap
<1> DEFINE A == TakenFrom(list, s)
           B == TakenFrom(list, t)
<1>5. IsFiniteSet(A) /\ IsFiniteSet(B)
  BY CountOf
<1>6. Cardinality(A \cup B) = Cardinality(A) + Cardinality(B) - Cardinality(A \cap B)
  <2> HIDE DEF A, B
  <2>1. QED
    BY <1>5, FS_Union
<1>7. Cardinality(A \cup B) = m + n
  BY <1>4, <1>6, FS_EmptySet DEF Joins
<1>8. s \cup t = UNION (A \cup B)
  <2>1. s = UNION A /\ t = UNION B
    BY DEF Joins
  <2> HIDE DEF A, B
  <2>2. QED
    BY <2>1
<1>9. QED
  BY <1>3, <1>7, <1>8 DEF Joins

LEMMA JoinsAll ==
  ASSUME NEW list, Divided(list), NEW s, Joins(list, s, Len(list))
  PROVE  s = Parts(list)
BY CountOf DEF Joins, Parts

LEMMA JoinsNotAll ==
  ASSUME NEW list, Divided(list), NEW s, NEW l, Joins(list, s, l), l # Len(list)
  PROVE  \E r \in ToSet(list) : ~Overlap(s, r)
<1>1. TakenFrom(list, s) # ToSet(list)
  BY DividedIs DEF Joins
<1>2. PICK r \in ToSet(list) : r \notin TakenFrom(list, s)
  BY <1>1 DEF TakenFrom
<1>3. \A e \in TakenFrom(list, s) : e \in ToSet(list)
  BY DEF TakenFrom
<1>4. \A e \in TakenFrom(list, s) : r \cap e = {}
  BY <1>2, <1>3, DividedIs DEF Overlap
<1>5. s \cap r = {}
  BY <1>4 DEF Joins
<1>6. QED
  BY <1>5 DEF Overlap

LEMMA JoinsNotInside ==
  ASSUME NEW list, Divided(list), NEW s, NEW l \in Nat, Joins(list, s, l), l >= 2
  PROVE  ~Inside(s, list)
<1> SUFFICES ASSUME Inside(s, list) PROVE FALSE
  OBVIOUS
<1> DEFINE A == TakenFrom(list, s)
<1>1. IsFiniteSet(A) /\ Cardinality(A) >= 2
  BY CountOf DEF Joins
<1>2. A # {} /\ \A e : A # {e}
  <2> HIDE DEF A
  <2>1. QED
    BY <1>1, FS_EmptySet, FS_Singleton
<1>3. PICK a \in A : TRUE
  BY <1>2
<1>4. a \in ToSet(list) /\ a \subseteq s /\ a # {}
  BY <1>3, DividedIs DEF TakenFrom
<1>5. Overlap(s, Parts(list))
  BY <1>4 DEF Overlap, Parts
<1>6. PICK e \in ToSet(list) : s \subseteq e
  BY <1>5 DEF Inside
<1>7. \A b \in A : b = e
  BY <1>6, DividedIs DEF TakenFrom, Overlap
<1> HIDE DEF A
<1>8. A = {e}
  BY <1>2, <1>7
<1>9. QED
  BY <1>2, <1>8

LEMMA InsideLess ==
  ASSUME NEW list, NEW t, NEW u, Inside(t, list), u \subseteq t
  PROVE  Inside(u, list)
BY DEF Inside, Overlap

LEMMA TwoLists ==
  ASSUME NEW s \in SUBSET Rels, NEW t \in SUBSET Rels, s # {}, t # {}, ~Overlap(s, t)
  PROVE  Divided(<<s, t>>) /\ ToSet(<<s, t>>) = {s, t} /\ Parts(<<s, t>>) = s \cup t /\ Len(<<s, t>>) = 2
<1> DEFINE list == <<s, t>>
<1>1. list \in Lists /\ Len(list) = 2 /\ DOMAIN list = 1..2 /\ list[1] = s /\ list[2] = t
  BY DEF Lists
<1> HIDE DEF list
<1>2. ToSet(list) = {s, t}
  <2>1. 1..2 = {1, 2}
    OBVIOUS
  <2>2. QED
    BY <1>1, <2>1 DEF ToSet
<1>3. list # <<>>
  BY <1>1, EmptySeq
<1>4. \A i, k \in DOMAIN list : i # k => ~Overlap(list[i], list[k])
  <2>1. 1..2 = {1, 2}
    OBVIOUS
  <2>2. QED
    BY <1>1, <2>1 DEF Overlap
<1>5. \A i \in DOMAIN list : list[i] # {}
  <2>1. 1..2 = {1, 2}
    OBVIOUS
  <2>2. QED
    BY <1>1, <2>1
<1>6. QED
  BY <1>1, <1>2, <1>3, <1>4, <1>5 DEF list, Divided, Parts

LEMMA OneList ==
  ASSUME NEW s \in SUBSET Rels, s # {}
  PROVE  Divided(<<s>>) /\ ToSet(<<s>>) = {s} /\ Parts(<<s>>) = s /\ Len(<<s>>) = 1
<1> DEFINE list == <<s>>
<1>1. list \in Lists /\ Len(list) = 1 /\ DOMAIN list = 1..1 /\ list[1] = s
  BY DEF Lists
<1> HIDE DEF list
<1>2. ToSet(list) = {s}
  BY <1>1 DEF ToSet
<1>3. list # <<>>
  BY <1>1, EmptySeq
<1>4. QED
  BY <1>1, <1>2, <1>3 DEF list, Divided, Parts

LEMMA GluedLists ==
  ASSUME NEW a, NEW b, Divided(a), Divided(b), ~Overlap(Parts(a), Parts(b))
  PROVE  Divided(a \o b) /\ ToSet(a \o b) = ToSet(a) \cup ToSet(b) /\ Parts(a \o b) = Parts(a) \cup Parts(b)
<1> DEFINE m == Len(a)
           n == Len(b)
           ab == a \o b
<1>1. a \in Lists /\ b \in Lists /\ m \in Nat /\ n \in Nat /\ DOMAIN a = 1..m /\ DOMAIN b = 1..n
  BY DividedIs DEF Divided
<1>2. /\ ab \in Lists /\ Len(ab) = m + n
      /\ \A i \in 1..m + n : ab[i] = IF i <= m THEN a[i] ELSE b[i - m]
  BY <1>1, ConcatProperties DEF Lists
<1>3. ToSet(ab) = ToSet(a) \cup ToSet(b)
  BY <1>1, ConcatSet DEF Lists
<1>4. DOMAIN ab = 1..m + n
  BY <1>2, LenProperties DEF Lists
<1>5. m # 0
  BY <1>1, EmptySeq DEF Divided, Lists
<1> HIDE DEF ab, m, n
<1>6. ab # <<>>
  BY <1>1, <1>2, <1>5, EmptySeq
<1>7. ASSUME NEW i \in 1..m + n
      PROVE  (i \in 1..m /\ ab[i] = a[i]) \/ (i - m \in 1..n /\ i > m /\ ab[i] = b[i - m])
  BY <1>1, <1>2
<1>8. \A i \in 1..m : a[i] # {} /\ a[i] \subseteq Parts(a)
  BY <1>1 DEF Divided, Parts, ToSet
<1>9. \A i \in 1..n : b[i] # {} /\ b[i] \subseteq Parts(b)
  BY <1>1 DEF Divided, Parts, ToSet
<1>10. \A i, k \in 1..m : i # k => ~Overlap(a[i], a[k])
  BY <1>1 DEF Divided
<1>11. \A i, k \in 1..n : i # k => ~Overlap(b[i], b[k])
  BY <1>1 DEF Divided
<1>12. ASSUME NEW i \in 1..m + n, NEW k \in 1..m + n, i # k PROVE ~Overlap(ab[i], ab[k])
  <2>1. CASE i \in 1..m /\ k \in 1..m /\ ab[i] = a[i] /\ ab[k] = a[k]
    BY <1>10, <1>12, <2>1
  <2>2. CASE i - m \in 1..n /\ k - m \in 1..n /\ ab[i] = b[i - m] /\ ab[k] = b[k - m]
    <3>1. i - m # k - m
      BY <1>1, <1>12
    <3>2. QED
      BY <1>11, <2>2, <3>1
  <2>3. CASE i \in 1..m /\ k - m \in 1..n /\ ab[i] = a[i] /\ ab[k] = b[k - m]
    BY <1>8, <1>9, <2>3 DEF Overlap
  <2>4. CASE i - m \in 1..n /\ k \in 1..m /\ ab[i] = b[i - m] /\ ab[k] = a[k]
    BY <1>8, <1>9, <2>4 DEF Overlap
  <2>5. QED
    BY <1>7, <2>1, <2>2, <2>3, <2>4
<1>13. \A i \in 1..m + n : ab[i] # {}
  BY <1>7, <1>8, <1>9
<1>14. Parts(ab) = Parts(a) \cup Parts(b)
  BY <1>3 DEF Parts
<1>15. QED
  BY <1>2, <1>3, <1>4, <1>6, <1>12, <1>13, <1>14 DEF ab, Divided
------------------------------------------------------------------------------
(* The problems of the join search, inner ones first *)

Single == {{r} : r \in Rels}
PartsOf(ps) == {Parts(ps[i]) : i \in DOMAIN ps}

\* What has been joined, will be once the problem at hand is solved, or by a problem in turn.
Made == Single \cup DOMAIN rows \cup {Parts(initial_rels)}
Available(ps, made) == made \cup PartsOf(ps)
AvailableTo(ps, k, made) == made \cup {Parts(ps[i]) : i \in 1..k - 1}

\* Every problem joins what is made before, and nothing before is a join of several of its parts.
InTurn(ps, made) ==
  /\ ps \in Seq(Lists)
  /\ \A k \in DOMAIN ps :
       /\ Divided(ps[k]) /\ Len(ps[k]) > 1
       /\ ToSet(ps[k]) \subseteq AvailableTo(ps, k, made)
       /\ \A i \in 1..k - 1 : Inside(Parts(ps[i]), ps[k])

Ready(list, ps, made) ==
  /\ Divided(list)
  /\ ToSet(list) \subseteq Available(ps, made)
  /\ \A p \in PartsOf(ps) : Inside(p, list)

LEMMA AddPlanned ==
  ASSUME NEW ps, NEW made, NEW list, InTurn(ps, made), Ready(list, ps, made)
  PROVE  LET qs == ps \o Planned(list)
         IN /\ InTurn(qs, made)
            /\ PartsOf(qs) \subseteq PartsOf(ps) \cup {Parts(list)}
            /\ Available(ps, made) \cup {Parts(list)} \subseteq Available(qs, made)
            /\ Len(list) > 1 => PartsOf(qs) = PartsOf(ps) \cup {Parts(list)}
<1> DEFINE qs == ps \o Planned(list)
           n == Len(ps)
<1>1. n \in Nat /\ DOMAIN ps = 1..n /\ ps \in Seq(Lists) /\ list \in Lists /\ Len(list) \in Nat /\ Len(list) # 0
  BY LenProperties, EmptySeq, DividedIs DEF InTurn, Ready, Divided, Lists
<1>2. CASE Len(list) > 1
  <2>1. qs = Append(ps, list)
    BY <1>1, <1>2, AppendIsConcat DEF Planned
  <2>2. /\ qs \in Seq(Lists) /\ Len(qs) = n + 1
        /\ \A i \in 1..n : qs[i] = ps[i]
        /\ qs[n + 1] = list
    BY <1>1, <2>1, AppendProperties
  <2>3. DOMAIN qs = 1..n + 1
    BY <2>2, LenProperties
  <2> HIDE DEF qs, n
  <2>4. PartsOf(qs) = PartsOf(ps) \cup {Parts(list)}
    <3>1. \A i : i \in 1..n + 1 <=> (i \in 1..n \/ i = n + 1)
      BY <1>1
    <3>2. \A i \in 1..n : Parts(qs[i]) = Parts(ps[i])
      BY <2>2
    <3>3. QED
      BY <1>1, <2>2, <2>3, <3>1, <3>2 DEF PartsOf
  <2>5. ASSUME NEW k \in 1..n
        PROVE  /\ Divided(qs[k]) /\ Len(qs[k]) > 1
               /\ ToSet(qs[k]) \subseteq AvailableTo(qs, k, made)
               /\ \A i \in 1..k - 1 : Inside(Parts(qs[i]), qs[k])
    <3>1. \A i \in 1..k - 1 : i \in 1..n /\ qs[i] = ps[i]
      BY <1>1, <2>2
    <3>2. AvailableTo(qs, k, made) = AvailableTo(ps, k, made)
      BY <3>1 DEF AvailableTo
    <3>3. qs[k] = ps[k] /\ k \in DOMAIN ps
      BY <1>1, <2>2
    <3>4. QED
      BY <3>1, <3>2, <3>3 DEF InTurn
  <2>6. /\ Divided(qs[n + 1]) /\ Len(qs[n + 1]) > 1
        /\ ToSet(qs[n + 1]) \subseteq AvailableTo(qs, n + 1, made)
        /\ \A i \in 1..n : Inside(Parts(qs[i]), qs[n + 1])
    <3>1. AvailableTo(qs, n + 1, made) = Available(ps, made)
      <4>1. (n + 1) - 1 = n
        BY <1>1
      <4>2. \A i \in 1..n : Parts(qs[i]) = Parts(ps[i])
        BY <2>2
      <4>3. QED
        BY <1>1, <4>1, <4>2 DEF AvailableTo, Available, PartsOf
    <3>2. \A i \in 1..n : Parts(qs[i]) \in PartsOf(ps)
      BY <1>1, <2>2 DEF PartsOf
    <3>3. QED
      BY <1>2, <2>2, <3>1, <3>2 DEF Ready
  <2>7. InTurn(qs, made)
    <3>1. \A k \in 1..n + 1 : k \in 1..n \/ k = n + 1
      BY <1>1
    <3>2. (n + 1) - 1 = n
      BY <1>1
    <3>3. QED
      BY <2>2, <2>3, <2>5, <2>6, <3>1, <3>2 DEF InTurn
  <2>8. QED
    BY <2>4, <2>7 DEF Available, qs
<1>3. CASE ~(Len(list) > 1)
  <2>1. qs = ps
    BY <1>1, <1>3, ConcatEmptySeq DEF Planned
  <2>2. ToSet(list) = {Parts(list)}
    <3>1. Len(list) = 1 /\ DOMAIN list = 1..Len(list)
      <4> HIDE DEF qs, n
      <4>1. Divided(list)
        BY DEF Ready
      <4>2. DOMAIN list = 1..Len(list)
        BY <4>1, DividedIs
      <4>3. QED
        BY <1>1, <1>3, <4>2
    <3>2. DOMAIN list = 1..1
      BY <3>1
    <3>3. ToSet(list) = {list[1]}
      BY <3>2 DEF ToSet
    <3>4. QED
      BY <3>3 DEF Parts
  <2>3. Parts(list) \in Available(ps, made)
    BY <2>2 DEF Ready
  <2>4. QED
    BY <1>3, <2>1, <2>3
<1>4. QED
  BY <1>2, <1>3

------------------------------------------------------------------------------
(* Taking the joins apart *)

ScopesBefore(n) == {Scope(statement.joins[k]) : k \in 1..n - 1}

\* Part of a join taken apart: no list of it is used again.
Consumed(s) == \E t \in ScopesBefore(next) : s \subseteq t /\ s # t

ListsInv ==
  /\ DOMAIN joinlist = Single \cup ScopesBefore(next)
  /\ \A s \in DOMAIN joinlist :
       /\ Divided(joinlist[s]) /\ Parts(joinlist[s]) = s
       /\ ToSet(joinlist[s]) \subseteq Available(problems, Made)
       /\ Consumed(s) \/ \A p \in PartsOf(problems) : Inside(p, joinlist[s])
  /\ \A p \in PartsOf(problems) : \E t \in ScopesBefore(next) : p \subseteq t

SidesOf(j) ==
  /\ j.left \in SUBSET Rels /\ j.right \in SUBSET Rels /\ j.left # {} /\ j.right # {} /\ ~Overlap(j.left, j.right)
  /\ \A side \in {j.left, j.right} :
       /\ side \in Single \cup ScopesBefore(next)
       /\ \A t \in ScopesBefore(next) : Overlap(t, side) => t \subseteq side

LEMMA SidesMade ==
  ASSUME TreeInv, next <= Len(statement.joins)
  PROVE  next \in 1..Len(statement.joins) /\ SidesOf(statement.joins[next])
<1>1. statement \in Statements /\ next \in 1..Len(statement.joins) /\ next \in DOMAIN statement.joins
  BY StatementsAssumption DEF TreeInv
<1> DEFINE j == statement.joins[next]
<1>2. /\ Scope(j) \subseteq Rels
      /\ ~Overlap(j.left, j.right) /\ j.left # {} /\ j.right # {}
      /\ \A side \in {j.left, j.right} :
           /\ (\E r \in Rels : side = {r}) \/ \E k \in 1..next - 1 : side = Scope(statement.joins[k])
           /\ \A k \in 1..next - 1 : Overlap(Scope(statement.joins[k]), side) => Scope(statement.joins[k]) \subseteq side
  BY <1>1, StatementsAssumption
<1> HIDE DEF j
<1>3. SidesOf(j)
  BY <1>2 DEF SidesOf, Single, ScopesBefore, Scope
<1>4. QED
  BY <1>1, <1>3 DEF j

LEMMA NotConsumed ==
  ASSUME NEW side, side # {}, \A t \in ScopesBefore(next) : Overlap(t, side) => t \subseteq side
  PROVE  ~Consumed(side)
BY DEF Consumed, Overlap

NewList(list, ps, j) ==
  /\ InTurn(ps, Made) /\ Ready(list, ps, Made) /\ Parts(list) = Scope(j)
  /\ PartsOf(ps) \subseteq PartsOf(problems) \cup {j.left, j.right, Scope(j)}
  /\ Available(problems, Made) \subseteq Available(ps, Made)

\* The list of a join of two sides whose lists are ready.
LEMMA JoinListed ==
  ASSUME ListsInv, InTurn(problems, Made), NEW j, SidesOf(j)
  PROVE  NewList(Joinlist(j).list, problems \o Joinlist(j).own, j)
<1> DEFINE left == joinlist[j.left]
           right == joinlist[j.right]
           sides == <<j.left, j.right>>
           p1 == problems \o Planned(left)
           p2 == p1 \o Planned(right)
           p3 == p2 \o <<sides>>
<1>1. j.left \in DOMAIN joinlist /\ j.right \in DOMAIN joinlist /\ ~Consumed(j.left) /\ ~Consumed(j.right)
  BY NotConsumed DEF ListsInv, SidesOf
<1>2. Ready(left, problems, Made) /\ Parts(left) = j.left
  BY <1>1 DEF ListsInv, Ready
<1>3. Ready(right, problems, Made) /\ Parts(right) = j.right
  BY <1>1 DEF ListsInv, Ready
<1>4. Divided(sides) /\ ToSet(sides) = {j.left, j.right} /\ Parts(sides) = Scope(j) /\ Len(sides) = 2
  BY TwoLists DEF SidesOf, Scope
<1>5. problems \in Seq(Lists) /\ Planned(left) \in Seq(Lists) /\ Planned(right) \in Seq(Lists)
      /\ <<sides>> \in Seq(Lists) /\ <<sides>> = Planned(sides)
  BY <1>2, <1>3, <1>4 DEF InTurn, Planned, Ready, Divided
<1>6. ASSUME NEW p \in PartsOf(problems), Overlap(p, Scope(j)) PROVE p \subseteq j.left \/ p \subseteq j.right
  <2>1. PICK t \in ScopesBefore(next) : p \subseteq t
    BY DEF ListsInv
  <2>2. Overlap(t, j.left) \/ Overlap(t, j.right)
    BY <1>6, <2>1 DEF Overlap, Scope
  <2>3. QED
    BY <2>1, <2>2 DEF SidesOf
<1>7. ASSUME NEW p \in PartsOf(problems) \cup {j.left, j.right} PROVE Inside(p, sides)
  BY <1>4, <1>6 DEF Inside, Scope
<1> HIDE DEF left, right, sides, p1, p2, p3
<1>8. /\ InTurn(p1, Made) /\ PartsOf(p1) \subseteq PartsOf(problems) \cup {j.left}
      /\ Available(problems, Made) \cup {j.left} \subseteq Available(p1, Made)
  BY <1>2, AddPlanned DEF p1
<1>9. Ready(right, p1, Made)
  <2>1. Inside(j.left, right)
    BY <1>3 DEF Inside, SidesOf
  <2>2. QED
    BY <1>3, <1>8, <2>1 DEF Ready
<1>10. /\ InTurn(p2, Made) /\ PartsOf(p2) \subseteq PartsOf(problems) \cup {j.left, j.right}
       /\ Available(problems, Made) \cup {j.left, j.right} \subseteq Available(p2, Made)
  <2>1. /\ InTurn(p2, Made) /\ PartsOf(p2) \subseteq PartsOf(p1) \cup {j.right}
        /\ Available(p1, Made) \cup {j.right} \subseteq Available(p2, Made)
    BY <1>3, <1>8, <1>9, AddPlanned DEF p2
  <2>2. QED
    BY <1>8, <2>1
<1>11. Ready(sides, p2, Made)
  BY <1>4, <1>7, <1>10 DEF Ready
<1>12. /\ InTurn(p3, Made) /\ PartsOf(p3) \subseteq PartsOf(problems) \cup {j.left, j.right, Scope(j)}
       /\ Available(problems, Made) \cup {Scope(j)} \subseteq Available(p3, Made)
  <2>1. /\ InTurn(p3, Made) /\ PartsOf(p3) \subseteq PartsOf(p2) \cup {Scope(j)}
        /\ Available(p2, Made) \cup {Scope(j)} \subseteq Available(p3, Made)
    BY <1>4, <1>5, <1>10, <1>11, AddPlanned DEF p3
  <2>2. QED
    BY <1>10, <2>1
<1>13. /\ p2 = problems \o (Planned(left) \o Planned(right))
       /\ p3 = problems \o (Planned(left) \o Planned(right) \o <<sides>>)
  <2>1. p2 = problems \o (Planned(left) \o Planned(right))
    BY <1>5, ConcatAssociative DEF p1, p2
  <2>2. Planned(left) \o Planned(right) \in Seq(Lists)
    BY <1>5, ConcatProperties
  <2>3. (problems \o (Planned(left) \o Planned(right))) \o <<sides>>
          = problems \o (Planned(left) \o Planned(right) \o <<sides>>)
    <3> DEFINE both == Planned(left) \o Planned(right)
               last == <<sides>>
    <3>1. problems \in Seq(Lists) /\ both \in Seq(Lists) /\ last \in Seq(Lists)
      BY <1>5, <2>2
    <3> HIDE DEF both, last
    <3>2. (problems \o both) \o last = problems \o (both \o last)
      BY <3>1, ConcatAssociative
    <3>3. QED
      BY <3>2 DEF both, last
  <2>4. QED
    BY <2>1, <2>3 DEF p3
<1>14. CASE j.jointype = "FULL"
  <2>1. Joinlist(j).list = <<Scope(j)>> /\ problems \o Joinlist(j).own = p3
    BY <1>13, <1>14 DEF Joinlist, left, right, sides
  <2>2. Scope(j) \in SUBSET Rels /\ Scope(j) # {}
    BY DEF SidesOf, Scope
  <2>3. Divided(<<Scope(j)>>) /\ ToSet(<<Scope(j)>>) = {Scope(j)} /\ Parts(<<Scope(j)>>) = Scope(j)
    BY <2>2, OneList
  <2>4. \A p \in PartsOf(p3) : Inside(p, <<Scope(j)>>)
    <3>1. j.left \subseteq Scope(j) /\ j.right \subseteq Scope(j)
      BY DEF Scope
    <3>2. \A p \in PartsOf(p3) : Overlap(p, Scope(j)) => p \subseteq Scope(j)
      BY <1>6, <1>12, <3>1
    <3>3. QED
      BY <2>3, <3>2 DEF Inside
  <2>5. Ready(<<Scope(j)>>, p3, Made)
    BY <1>12, <2>3, <2>4 DEF Ready
  <2>6. QED
    BY <1>12, <2>1, <2>3, <2>5 DEF NewList
<1>15. CASE j.jointype # "FULL" /\ Len(left) + Len(right) <= join_collapse_limit
  <2>1. Joinlist(j).list = left \o right /\ problems \o Joinlist(j).own = problems
    <3>1. Joinlist(j).list = left \o right /\ Joinlist(j).own = <<>>
      BY <1>15 DEF Joinlist, left, right
    <3>2. QED
      BY <1>5, <3>1, ConcatEmptySeq
  <2>2. ~Overlap(Parts(left), Parts(right))
    BY <1>2, <1>3 DEF SidesOf
  <2>3. /\ Divided(left \o right) /\ ToSet(left \o right) = ToSet(left) \cup ToSet(right)
        /\ Parts(left \o right) = Scope(j)
    BY <1>2, <1>3, <2>2, GluedLists DEF Ready, Scope
  <2>4. ASSUME NEW p \in PartsOf(problems) PROVE Inside(p, left \o right)
    <3>1. Inside(p, left) /\ Inside(p, right)
      BY <1>2, <1>3 DEF Ready
    <3>2. Overlap(p, Scope(j)) => Overlap(p, j.left) \/ Overlap(p, j.right)
      BY DEF Overlap, Scope
    <3>3. QED
      BY <1>2, <1>3, <2>3, <3>1, <3>2 DEF Inside
  <2>5. Ready(left \o right, problems, Made)
    BY <1>2, <1>3, <2>3, <2>4 DEF Ready
  <2>6. QED
    BY <2>1, <2>3, <2>5 DEF NewList
<1>16. CASE j.jointype # "FULL" /\ ~(Len(left) + Len(right) <= join_collapse_limit)
  <2>1. Joinlist(j).list = sides /\ problems \o Joinlist(j).own = p2
    BY <1>13, <1>16 DEF Joinlist, left, right, sides
  <2>2. QED
    BY <1>4, <1>10, <1>11, <2>1 DEF NewList
<1>17. QED
  BY <1>14, <1>15, <1>16

\* A join is taken apart: what is listed of it and of all others stays so.
LEMMA ListsStep ==
  ASSUME TreeInv, ListsInv, InTurn(problems, Made), DeconstructJoin, UNCHANGED <<rows, initial_rels>>
  PROVE  ListsInv' /\ InTurn(problems, Made)'
<1> DEFINE j == statement.joins[next]
           ps == problems \o Joinlist(j).own
           list == Joinlist(j).list
           before == ScopesBefore(next)
           after == before \cup {Scope(j)}
<1>1. next \in 1..Len(statement.joins) /\ SidesOf(j)
  BY SidesMade DEF DeconstructJoin
<1>2. NewList(list, ps, j)
  BY <1>1, JoinListed
<1>3. /\ problems' = ps /\ statement' = statement /\ next' = next + 1
      /\ joinlist' = [s \in DOMAIN joinlist \cup {Scope(j)} |-> IF s = Scope(j) THEN list ELSE joinlist[s]]
  BY DEF DeconstructJoin
<1>4. Made' = Made
  BY DEF Made
<1>5. ScopesBefore(next)' = after
  <2>1. (next + 1) - 1 = next /\ \A k : k \in 1..next <=> (k \in 1..next - 1 \/ k = next)
    BY <1>1
  <2>2. ScopesBefore(next)' = {Scope(statement.joins[k]) : k \in 1..next}
    BY <1>3, <2>1 DEF ScopesBefore
  <2>3. QED
    BY <2>1, <2>2 DEF ScopesBefore
<1> HIDE DEF j, ps, list, before
<1>6. /\ DOMAIN joinlist = Single \cup before
      /\ \A s \in DOMAIN joinlist :
           /\ Divided(joinlist[s]) /\ Parts(joinlist[s]) = s
           /\ ToSet(joinlist[s]) \subseteq Available(problems, Made)
           /\ (\E t \in before : s \subseteq t /\ s # t) \/ \A p \in PartsOf(problems) : Inside(p, joinlist[s])
      /\ \A p \in PartsOf(problems) : \E t \in before : p \subseteq t
  BY DEF ListsInv, Consumed, before
<1>7. ASSUME NEW s \in Single \cup before, Overlap(s, Scope(j)) PROVE s \subseteq Scope(j)
  <2>1. CASE s \in Single
    BY <1>7, <2>1 DEF Single, Overlap
  <2>2. CASE s \in before
    <3>1. Overlap(s, j.left) \/ Overlap(s, j.right)
      BY <1>7 DEF Overlap, Scope
    <3>2. s \subseteq j.left \/ s \subseteq j.right
      BY <1>1, <2>2, <3>1 DEF SidesOf, before
    <3>3. QED
      BY <3>2 DEF Scope
  <2>3. QED
    BY <2>1, <2>2
<1>8. ASSUME NEW s \in DOMAIN joinlist', NEW l, l = joinlist'[s]
      PROVE  /\ Divided(l) /\ Parts(l) = s
             /\ ToSet(l) \subseteq Available(ps, Made)
             /\ (\E t \in after : s \subseteq t /\ s # t) \/ \A p \in PartsOf(ps) : Inside(p, l)
  <2>1. CASE s = Scope(j)
    <3>1. l = list
      BY <1>3, <1>8, <2>1
    <3>2. QED
      BY <1>2, <2>1, <3>1 DEF NewList, Ready
  <2>2. CASE s # Scope(j)
    <3>1. s \in DOMAIN joinlist /\ l = joinlist[s]
      BY <1>3, <1>8, <2>2
    <3>2. /\ Divided(l) /\ Parts(l) = s /\ ToSet(l) \subseteq Available(ps, Made)
      BY <1>2, <1>6, <3>1 DEF NewList
    <3>3. ASSUME \A t \in after : ~(s \subseteq t /\ s # t), NEW p \in PartsOf(ps) PROVE Inside(p, l)
      <4>1. CASE p \in PartsOf(problems)
        BY <1>6, <3>1, <3>3, <4>1
      <4>2. CASE p \notin PartsOf(problems)
        <5>1. p \in {j.left, j.right, Scope(j)}
          BY <1>2, <4>2 DEF NewList
        <5>2. p \subseteq Scope(j)
          BY <5>1 DEF Scope
        <5>3. ~Overlap(s, Scope(j))
          BY <1>6, <1>7, <2>2, <3>1, <3>3
        <5>4. ~Overlap(p, s)
          BY <5>2, <5>3 DEF Overlap
        <5>5. QED
          BY <3>2, <5>4 DEF Inside
      <4>3. QED
        BY <4>1, <4>2
    <3>4. QED
      BY <3>2, <3>3
  <2>3. QED
    BY <2>1, <2>2
<1>9. DOMAIN joinlist' = Single \cup after
  BY <1>3, <1>6
<1>10. ASSUME NEW p \in PartsOf(ps) PROVE \E t \in after : p \subseteq t
  <2>1. p \in PartsOf(problems) \/ p \in {j.left, j.right, Scope(j)}
    BY <1>2 DEF NewList
  <2>2. p \in {j.left, j.right, Scope(j)} => p \subseteq Scope(j)
    BY DEF Scope
  <2>3. QED
    BY <1>6, <2>1, <2>2
<1>11. ListsInv'
  <2>1. PartsOf(problems)' = PartsOf(ps)
    BY <1>3 DEF PartsOf
  <2>2. Available(problems, Made)' = Available(ps, Made)
    BY <1>4, <2>1 DEF Available
  <2> HIDE DEF after
  <2>3. ASSUME NEW s \in DOMAIN joinlist'
        PROVE  /\ Divided(joinlist'[s]) /\ Parts(joinlist'[s]) = s
               /\ ToSet(joinlist'[s]) \subseteq Available(problems, Made)'
               /\ Consumed(s)' \/ \A p \in PartsOf(problems)' : Inside(p, joinlist'[s])
    <3> DEFINE l == joinlist'[s]
    <3> HIDE DEF l
    <3>1. /\ Divided(l) /\ Parts(l) = s
          /\ ToSet(l) \subseteq Available(ps, Made)
          /\ (\E t \in after : s \subseteq t /\ s # t) \/ \A p \in PartsOf(ps) : Inside(p, l)
      BY <1>8 DEF l
    <3>2. Consumed(s)' <=> \E t \in after : s \subseteq t /\ s # t
      BY <1>5 DEF Consumed
    <3>3. QED
      BY <2>1, <2>2, <3>1, <3>2 DEF l
  <2>4. QED
    BY <1>5, <1>9, <1>10, <2>1, <2>3 DEF ListsInv
<1>12. InTurn(problems, Made)'
  BY <1>2, <1>3, <1>4 DEF NewList, InTurn, AvailableTo
<1>13. QED
  BY <1>11, <1>12

LEMMA LastScope ==
  ASSUME TreeInv
  PROVE  /\ Len(statement.joins) \in Nat \ {0} /\ RelsInQuery = Scope(statement.joins[Len(statement.joins)])
         /\ RelsInQuery # {} /\ RelsInQuery \subseteq Rels
         /\ next = Len(statement.joins) + 1 => RelsInQuery \in ScopesBefore(next) /\ ~Consumed(RelsInQuery)
<1> DEFINE n == Len(statement.joins)
           j == statement.joins[n]
<1>1. statement \in Statements /\ n \in Nat \ {0} /\ n \in DOMAIN statement.joins
  BY StatementsAssumption DEF TreeInv
<1>2. RelsInQuery = Scope(j)
  BY DEF RelsInQuery, Last
<1>3. /\ Scope(j) \subseteq Rels /\ j.left # {} /\ j.right # {} /\ ~Overlap(j.left, j.right)
      /\ \A side \in {j.left, j.right} :
           \A k \in 1..n - 1 : Overlap(Scope(statement.joins[k]), side) => Scope(statement.joins[k]) \subseteq side
  BY <1>1, StatementsAssumption
<1> HIDE DEF j
<1>4. ASSUME NEW k \in 1..n - 1, Scope(j) \subseteq Scope(statement.joins[k]) PROVE FALSE
  <2> DEFINE t == Scope(statement.joins[k])
  <2>1. Overlap(t, j.left) /\ Overlap(t, j.right)
    BY <1>3, <1>4 DEF Overlap, Scope
  <2>2. t \subseteq j.left /\ t \subseteq j.right
    BY <1>3, <2>1
  <2> HIDE DEF t
  <2>3. QED
    BY <1>3, <2>1, <2>2 DEF Overlap
<1>5. ASSUME next = n + 1 PROVE RelsInQuery \in ScopesBefore(next) /\ ~Consumed(RelsInQuery)
  <2>1. next - 1 = n /\ n \in 1..n /\ \A k \in 1..n : k = n \/ k \in 1..n - 1
    BY <1>1, <1>5
  <2>2. ScopesBefore(next) = {Scope(statement.joins[k]) : k \in 1..n}
    BY <2>1 DEF ScopesBefore
  <2>3. \A t \in ScopesBefore(next) : t = Scope(j) \/ ~(Scope(j) \subseteq t)
    BY <1>4, <2>1, <2>2 DEF j
  <2>4. QED
    BY <1>2, <2>1, <2>2, <2>3 DEF Consumed, j
<1>6. QED
  BY <1>1, <1>2, <1>3, <1>5 DEF Scope, j

\* The problem at the top is the last.
LEMMA TopStep ==
  ASSUME TreeInv, ListsInv, InTurn(problems, Made), DeconstructWhere, UNCHANGED <<rows, initial_rels>>
  PROVE  InTurn(problems, Made)' /\ (RelsInQuery \in Available(problems, Made))'
<1> DEFINE list == joinlist[RelsInQuery]
           ps == problems \o Planned(list)
<1>1. problems' = ps /\ statement' = statement /\ next = Len(statement.joins) + 1
  BY DEF DeconstructWhere
<1>2. RelsInQuery \in DOMAIN joinlist /\ ~Consumed(RelsInQuery)
  BY <1>1, LastScope DEF ListsInv
<1>3. Ready(list, problems, Made) /\ Parts(list) = RelsInQuery
  BY <1>2 DEF ListsInv, Ready
<1> HIDE DEF list
<1>4. InTurn(ps, Made) /\ RelsInQuery \in Available(ps, Made)
  BY <1>3, AddPlanned
<1>5. Made' = Made /\ RelsInQuery' = RelsInQuery
  BY <1>1 DEF Made, RelsInQuery
<1> HIDE DEF ps
<1>6. QED
  BY <1>1, <1>4, <1>5 DEF InTurn, AvailableTo, Available, PartsOf

------------------------------------------------------------------------------
(* One join *)

\* There is a way to do every join.
LEMMA PopulatedSome ==
  ASSUME NEW rel1, NEW rel2
  PROVE  Populated(rel1, rel2) # {}
<1> DEFINE match == Matches(rel1, rel2)
           Ways(info, outer, inner) ==
             (IF InOrder(info, outer, inner) THEN {Executed(info.jointype, TheRows(outer), outer, TheRows(inner), inner)} ELSE {})
             \cup (IF create_unique_path(info, inner)
                   THEN {Executed("INNER", TheRows(outer), outer, UniqueRows(TheRows(inner), info.semi_rhs), inner)} ELSE {})
           Results(info) == IF Reversed(info, rel1, rel2) THEN Ways(info, rel2, rel1) ELSE Ways(info, rel1, rel2)
<1>1. Populated(rel1, rel2) = IF match = {} THEN {Executed("INNER", TheRows(rel1), rel1, TheRows(rel2), rel2)}
                              ELSE UNION {Results(info) : info \in match}
  BY DEF Populated
<1>2. ASSUME NEW info \in match PROVE Results(info) # {}
  <2>1. Forward(info, rel1, rel2) \/ Reversed(info, rel1, rel2)
    BY <1>2 DEF Matches
  <2>2. \A outer, inner : InOrder(info, outer, inner) \/ create_unique_path(info, inner) => Ways(info, outer, inner) # {}
    OBVIOUS
  <2> HIDE DEF Ways
  <2>3. QED
    BY <2>1, <2>2 DEF Forward, Reversed
<1> HIDE DEF match, Results
<1>3. QED
  BY <1>1, <1>2

\* Without special joins no join is refused.
LEMMA AlwaysLegal ==
  ASSUME join_info_list = <<>>, NEW rel1, NEW rel2
  PROVE  join_is_legal(rel1, rel2)
<1>1. Info = {}
  BY DEF Info
<1>2. Matches(rel1, rel2) = {} /\ Entered(rel1, rel2) = {}
  BY <1>1 DEF Matches, Entered
<1>3. Cardinality({}) = 0
  BY FS_EmptySet
<1>4. QED
  BY <1>2, <1>3 DEF join_is_legal

------------------------------------------------------------------------------
(* The levels of a search *)

LevelsInv ==
  /\ Divided(initial_rels) /\ Len(initial_rels) > 1
  /\ join_rel_level \in [1..Len(initial_rels) -> Lists] /\ join_cur_level \in 1..Len(initial_rels)
  /\ join_rel_level[1] = initial_rels
  /\ \A l \in 1..Len(initial_rels) :
       /\ IsInjective(join_rel_level[l])
       /\ \A s \in ToSet(join_rel_level[l]) : s \in DOMAIN rows /\ Joins(initial_rels, s, l)
  /\ \A s \in DOMAIN rows :
       Inside(s, initial_rels) \/ \E l \in 1..Len(initial_rels) : s \in ToSet(join_rel_level[l])
  /\ Tried(agenda, join_rel_level, join_cur_level)

\* Without special joins no level is left empty.
NoneEmpty ==
  join_info_list = <<>> =>
    /\ \A l \in 1..join_cur_level - 1 : join_rel_level[l] # <<>>
    /\ join_cur_level >= 2 /\ last_ditch /\ join_rel_level[join_cur_level] = <<>> => agenda # <<>>

NotBegun == initial_rels = <<>> /\ join_rel_level = <<>> /\ join_cur_level = 0 /\ agenda = <<>>

RowsInv ==
  /\ \A s \in DOMAIN rows : rows[s] # {} /\ \A p \in ToSet(problems) : Inside(s, p)
  /\ initial_rels # <<>> => \A p \in ToSet(problems) : Inside(Parts(initial_rels), p)
  /\ rows # <<>> => Single \subseteq DOMAIN rows

SearchInv ==
  /\ TreeInv /\ failed \in BOOLEAN
  /\ InTurn(problems, Made)
  /\ ~Deconstructed => rows = <<>> /\ NotBegun /\ ListsInv
  /\ Deconstructed => RelsInQuery \in Available(problems, Made)
  /\ RowsInv
  /\ NotBegun \/ (LevelsInv /\ NoneEmpty)

LEMMA ListHasFirst ==
  ASSUME NEW list \in Lists, list # <<>>
  PROVE  \E e \in ToSet(list) : TRUE
<1>1. Len(list) \in Nat \ {0} /\ DOMAIN list = 1..Len(list)
  BY EmptySeq, LenProperties DEF Lists
<1>2. 1 \in DOMAIN list
  BY <1>1
<1>3. QED
  BY <1>2 DEF ToSet

\* A search that has come to its end has the join of all it was given.
LEMMA Solved ==
  ASSUME LevelsInv, Idle
  PROVE  Parts(initial_rels) \in DOMAIN rows
<1> DEFINE n == Len(initial_rels)
<1>1. n \in Nat /\ n >= 2 /\ join_cur_level = n /\ n \in 1..n
  BY DividedIs DEF LevelsInv, Idle, levels_needed
<1>2. join_rel_level[n] # <<>> /\ join_rel_level[n] \in Lists
  BY <1>1 DEF LevelsInv, Idle, GivesUp, levels_needed
<1>3. PICK s \in ToSet(join_rel_level[n]) : TRUE
  BY <1>2, ListHasFirst
<1>4. s \in DOMAIN rows /\ Joins(initial_rels, s, n)
  BY <1>1, <1>3 DEF LevelsInv
<1>5. QED
  BY <1>4, JoinsAll DEF LevelsInv

\* The pair tried next.
LEMMA NextPair ==
  ASSUME LevelsInv, agenda # <<>>
  PROVE  LET rel1 == Head(agenda)[1]
             rel2 == Head(agenda)[2]
         IN /\ join_cur_level >= 2
            /\ rel1 \in SUBSET Rels /\ rel2 \in SUBSET Rels
            /\ Joins(initial_rels, rel1 \cup rel2, join_cur_level)
            /\ Tried(Tail(agenda), join_rel_level, join_cur_level)
<1> DEFINE p == Head(agenda)
           n == Len(initial_rels)
<1>1. /\ agenda \in Seq(RelPairs) /\ join_rel_level \in [1..n -> Lists] /\ join_cur_level \in 1..n
      /\ n \in Nat /\ Divided(initial_rels)
  BY DividedIs DEF LevelsInv, Tried
<1>2. /\ p \in RelPairs /\ Tail(agenda) \in Seq(RelPairs) /\ Len(Tail(agenda)) = Len(agenda) - 1
      /\ \A i \in 1..Len(Tail(agenda)) : Tail(agenda)[i] = agenda[i + 1]
  BY <1>1, HeadTailProperties
<1>3. Len(agenda) \in Nat \ {0} /\ DOMAIN agenda = 1..Len(agenda) /\ DOMAIN Tail(agenda) = 1..Len(Tail(agenda))
  BY <1>1, <1>2, EmptySeq, LenProperties
<1>4. p = agenda[1] /\ p \in ToSet(agenda)
  <2>1. 1 \in DOMAIN agenda
    BY <1>3
  <2>2. QED
    BY <2>1 DEF ToSet
<1>5. ToSet(Tail(agenda)) \subseteq ToSet(agenda)
  <2>1. \A i \in 1..Len(Tail(agenda)) : i + 1 \in DOMAIN agenda
    BY <1>2, <1>3
  <2>2. QED
    BY <1>2, <1>3, <2>1 DEF ToSet
<1>6. Tried(Tail(agenda), join_rel_level, join_cur_level)
  BY <1>2, <1>5 DEF Tried, LevelsInv
<1>7. Fitting(p, join_rel_level, join_cur_level)
  BY <1>4 DEF LevelsInv, Tried
<1> HIDE DEF p
<1>8. PICK k \in 1..join_cur_level - 1 :
        p[1] \in ToSet(join_rel_level[k]) /\ p[2] \in ToSet(join_rel_level[join_cur_level - k]) /\ ~Overlap(p[1], p[2])
  BY <1>7 DEF Fitting
<1>9. /\ join_cur_level >= 2 /\ k \in Nat /\ join_cur_level - k \in Nat /\ k \in 1..n /\ join_cur_level - k \in 1..n
      /\ k + (join_cur_level - k) = join_cur_level
  BY <1>1
<1>10. Joins(initial_rels, p[1], k) /\ Joins(initial_rels, p[2], join_cur_level - k)
  BY <1>8, <1>9 DEF LevelsInv
<1>11. Joins(initial_rels, p[1] \cup p[2], k + (join_cur_level - k))
  BY <1>1, <1>8, <1>9, <1>10, JoinsTwo
<1>12. p[1] \in SUBSET Rels /\ p[2] \in SUBSET Rels
  BY <1>2 DEF RelPairs
<1>13. QED
  BY <1>6, <1>9, <1>11, <1>12 DEF p

\* A join that was made before belongs to this level.
LEMMA MadeAtLevel ==
  ASSUME LevelsInv, join_cur_level >= 2, NEW s, Joins(initial_rels, s, join_cur_level)
  PROVE  /\ s \in DOMAIN rows <=> s \in ToSet(join_rel_level[join_cur_level])
         /\ s \subseteq Parts(initial_rels)
<1>1. Divided(initial_rels) /\ join_cur_level \in Nat
  BY DividedIs DEF LevelsInv
<1>2. ~Inside(s, initial_rels)
  BY <1>1, JoinsNotInside
<1>3. \A l : Joins(initial_rels, s, l) => l = join_cur_level
  BY DEF Joins
<1>4. s \subseteq Parts(initial_rels)
  BY DEF Joins, TakenFrom, Parts
<1>5. QED
  BY <1>2, <1>3, <1>4 DEF LevelsInv

------------------------------------------------------------------------------
(* The steps of the search *)

LEMMA MoreMade ==
  ASSUME NEW ps, NEW made, NEW more, InTurn(ps, made), made \subseteq more
  PROVE  InTurn(ps, more)
BY DEF InTurn, AvailableTo

\* The first of the problems is begun: the one before it is solved.
LEMMA FirstOf ==
  ASSUME NEW ps, NEW made, NEW more, InTurn(ps, made), ps # <<>>,
         \A e \in made : e # {} => e \in more
  PROVE  /\ Divided(Head(ps)) /\ Len(Head(ps)) > 1 /\ ToSet(Head(ps)) \subseteq more
         /\ Head(ps) \in ToSet(ps) /\ ToSet(Tail(ps)) \subseteq ToSet(ps)
         /\ \A p \in ToSet(Tail(ps)) : Inside(Parts(Head(ps)), p)
         /\ InTurn(Tail(ps), more \cup {Parts(Head(ps))})
         /\ \A e \in Available(ps, made) : e # {} => e \in Available(Tail(ps), more \cup {Parts(Head(ps))})
<1> DEFINE n == Len(ps)
           first == Head(ps)
           rest == Tail(ps)
           all == more \cup {Parts(first)}
<1>1. /\ ps \in Seq(Lists) /\ n \in Nat \ {0} /\ DOMAIN ps = 1..n /\ first = ps[1]
  BY EmptySeq, LenProperties DEF InTurn
<1>2. /\ rest \in Seq(Lists) /\ Len(rest) = n - 1
      /\ \A i \in 1..n - 1 : rest[i] = ps[i + 1]
  BY <1>1, HeadTailProperties
<1>3. DOMAIN rest = 1..n - 1
  BY <1>2, LenProperties
<1> HIDE DEF n, first, rest
<1>4. \A i \in 1..n - 1 : i + 1 \in 1..n /\ (i + 1) - 1 = i /\ i \in Nat
  BY <1>1
<1>5. \A i \in 1..n : i = 1 \/ (i - 1 \in 1..n - 1 /\ (i - 1) + 1 = i)
  BY <1>1
<1>6. \A i \in 1..n : \A e \in ToSet(ps[i]) : e # {}
  BY <1>1, DividedIs DEF InTurn
<1>7. Divided(first) /\ Len(first) > 1 /\ ToSet(first) \subseteq more
  <2>1. 1 \in 1..n /\ 1..1 - 1 = {}
    BY <1>1
  <2>2. ToSet(first) \subseteq made
    BY <1>1, <2>1 DEF InTurn, AvailableTo
  <2>3. QED
    BY <1>1, <1>6, <2>1, <2>2 DEF InTurn
<1>8. first \in ToSet(ps) /\ ToSet(rest) \subseteq ToSet(ps)
  <2>1. 1 \in 1..n
    BY <1>1
  <2>2. QED
    BY <1>1, <1>2, <1>3, <1>4, <2>1 DEF ToSet
<1>9. ASSUME NEW k \in 1..n - 1
      PROVE  /\ Divided(rest[k]) /\ Len(rest[k]) > 1
             /\ ToSet(rest[k]) \subseteq AvailableTo(rest, k, all)
             /\ \A i \in 1..k - 1 : Inside(Parts(rest[i]), rest[k])
             /\ Inside(Parts(first), rest[k])
  <2>1. rest[k] = ps[k + 1] /\ k + 1 \in DOMAIN ps /\ (k + 1) - 1 = k
    BY <1>1, <1>2, <1>4
  <2>2. Divided(rest[k]) /\ Len(rest[k]) > 1 /\ ToSet(rest[k]) \subseteq AvailableTo(ps, k + 1, made)
        /\ \A i \in 1..k : Inside(Parts(ps[i]), rest[k])
    BY <2>1 DEF InTurn
  <2>3. \A i \in 1..k : i = 1 \/ (i - 1 \in 1..k - 1 /\ i - 1 \in 1..n - 1 /\ (i - 1) + 1 = i)
    BY <1>1
  <2>4. \A i \in 1..k : ps[i] = first \/ ps[i] = rest[i - 1]
    BY <1>1, <1>2, <2>3
  <2>5. ASSUME NEW e \in ToSet(rest[k]) PROVE e \in AvailableTo(rest, k, all)
    <3>1. e # {}
      BY <1>4, <1>6, <2>1
    <3>2. CASE e \in made
      BY <3>1, <3>2 DEF AvailableTo
    <3>3. CASE e \notin made
      <4>1. PICK i \in 1..k : e = Parts(ps[i])
        BY <2>1, <2>2, <3>3 DEF AvailableTo
      <4>2. i = 1 \/ (i - 1 \in 1..k - 1 /\ e = Parts(rest[i - 1]))
        BY <1>1, <1>2, <2>3, <4>1
      <4>3. QED
        BY <1>1, <4>1, <4>2 DEF AvailableTo
    <3>4. QED
      BY <3>2, <3>3
  <2>6. \A i \in 1..k - 1 : i + 1 \in 1..k /\ rest[i] = ps[i + 1]
    BY <1>1, <1>2
  <2>7. 1 \in 1..k
    BY <1>4
  <2>8. QED
    BY <1>1, <2>2, <2>5, <2>6, <2>7
<1>10. InTurn(rest, all)
  BY <1>2, <1>3, <1>9 DEF InTurn
<1>11. \A p \in ToSet(rest) : Inside(Parts(first), p)
  BY <1>3, <1>9 DEF ToSet
<1>12. ASSUME NEW e \in Available(ps, made), e # {} PROVE e \in Available(rest, all)
  <2>1. CASE e \in made
    BY <1>12, <2>1 DEF Available
  <2>2. CASE e \notin made
    <3>1. PICK i \in 1..n : e = Parts(ps[i])
      BY <1>1, <2>2 DEF Available, PartsOf
    <3>2. i = 1 \/ (i - 1 \in DOMAIN rest /\ e = Parts(rest[i - 1]))
      BY <1>2, <1>3, <1>5, <3>1
    <3>3. QED
      BY <1>1, <3>1, <3>2 DEF Available, PartsOf
  <2>3. QED
    BY <2>1, <2>2
<1>13. QED
  BY <1>7, <1>8, <1>10, <1>11, <1>12 DEF first, rest

LEMMA BeginStep ==
  ASSUME SearchInv, TreeInv', Begin
  PROVE  SearchInv'
<1> DEFINE first == Head(problems)
           rest == Tail(problems)
           done == DOMAIN rows
           n == Len(first)
<1>1. /\ Deconstructed /\ Idle /\ rows # <<>> /\ problems # <<>>
      /\ initial_rels' = first /\ problems' = rest
      /\ join_rel_level' = [l \in 1..n |-> IF l = 1 THEN first ELSE <<>>]
      /\ join_cur_level' = 1 /\ agenda' = <<>> /\ last_ditch' = TRUE
      /\ UNCHANGED <<statement, next, join_info_list, failed, rows>>
  BY DEF Begin, Idle
<1>2. \A e \in Made : e # {} => e \in done
  <2>1. Single \subseteq done
    BY <1>1 DEF SearchInv, RowsInv
  <2>2. Parts(initial_rels) = {} \/ Parts(initial_rels) \in done
    <3>1. CASE NotBegun
      <4>1. ToSet(<<>>) = {}
        BY DEF ToSet
      <4>2. QED
        BY <3>1, <4>1 DEF NotBegun, Parts
    <3>2. CASE LevelsInv
      BY <1>1, <3>2, Solved
    <3>3. QED
      BY <3>1, <3>2 DEF SearchInv
  <2>3. QED
    BY <2>1, <2>2 DEF Made
<1>3. /\ Divided(first) /\ n > 1 /\ ToSet(first) \subseteq done
      /\ first \in ToSet(problems) /\ ToSet(rest) \subseteq ToSet(problems)
      /\ \A p \in ToSet(rest) : Inside(Parts(first), p)
      /\ InTurn(rest, done \cup {Parts(first)})
      /\ \A e \in Available(problems, Made) : e # {} => e \in Available(rest, done \cup {Parts(first)})
  <2>1. InTurn(problems, Made) /\ problems # <<>>
    BY <1>1 DEF SearchInv
  <2> HIDE DEF done
  <2>2. QED
    BY <1>2, <2>1, FirstOf
<1> HIDE DEF first, rest, n
<1>4. Single \subseteq done /\ n \in Nat /\ first \in Lists
  BY <1>1, <1>3, DividedIs DEF SearchInv, RowsInv, Divided, n
<1>5. Made' = done \cup {Parts(first)}
  BY <1>1, <1>4 DEF Made, Single
<1>6. InTurn(problems, Made)'
  BY <1>1, <1>3, <1>5 DEF InTurn, AvailableTo
<1>7. RelsInQuery' = RelsInQuery /\ Deconstructed' = Deconstructed
  BY <1>1 DEF RelsInQuery, Deconstructed
<1>8. (RelsInQuery \in Available(problems, Made))'
  <2>1. RelsInQuery \in Available(problems, Made) /\ RelsInQuery # {}
    BY <1>1, LastScope DEF SearchInv
  <2>2. RelsInQuery \in Available(rest, done \cup {Parts(first)})
    BY <1>3, <2>1
  <2>3. Available(problems, Made)' = Available(rest, done \cup {Parts(first)})
    BY <1>1, <1>5 DEF Available, PartsOf
  <2>4. QED
    BY <1>7, <2>2, <2>3
<1>9. RowsInv'
  BY <1>1, <1>3 DEF SearchInv, RowsInv
<1>10. LevelsInv'
  <2> DEFINE levels == [l \in 1..n |-> IF l = 1 THEN first ELSE <<>>]
  <2>1. levels \in [1..n -> Lists] /\ 1 \in 1..n /\ levels[1] = first
    BY <1>3, <1>4 DEF Lists
  <2>2. IsInjective(first) /\ \A s \in ToSet(first) : s \in done /\ Joins(first, s, 1)
    BY <1>3, DividedIs, JoinsOne
  <2>3. IsInjective(<<>>) /\ ToSet(<<>>) = {}
    BY DEF IsInjective, ToSet
  <2>4. \A l \in 1..n : IsInjective(levels[l]) /\ \A s \in ToSet(levels[l]) : s \in done /\ Joins(first, s, l)
    BY <2>2, <2>3
  <2>5. \A s \in done : Inside(s, first)
    BY <1>3 DEF SearchInv, RowsInv
  <2>6. Tried(<<>>, levels, 1)
    BY EmptyTried
  <2> HIDE DEF levels
  <2>7. join_rel_level' = levels
    BY <1>1 DEF levels
  <2>8. QED
    BY <1>1, <1>3, <2>1, <2>4, <2>5, <2>6, <2>7 DEF LevelsInv, n
<1>11. NoneEmpty'
  <2>1. 1..1 - 1 = {}
    OBVIOUS
  <2>2. QED
    BY <1>1, <2>1 DEF NoneEmpty
<1>12. QED
  BY <1>1, <1>6, <1>7, <1>8, <1>9, <1>10, <1>11 DEF SearchInv

LEMMA ScanStep ==
  ASSUME SearchInv, TreeInv', ScanTables
  PROVE  SearchInv'
<1>1. /\ Deconstructed /\ rows = <<>> /\ DOMAIN rows' = Single /\ (\A s \in Single : rows'[s] # {})
      /\ UNCHANGED <<statement, next, join_info_list, failed, problems, initial_rels, join_rel_level, join_cur_level,
                     agenda, last_ditch>>
  BY DEF ScanTables, treeVars, Single
<1>2. DOMAIN rows = {}
  BY <1>1
<1>3. NotBegun
  <2>1. ASSUME LevelsInv PROVE FALSE
    <3>1. initial_rels \in Lists /\ initial_rels # <<>> /\ 1 \in 1..Len(initial_rels)
      BY <2>1, DividedIs DEF LevelsInv, Divided
    <3>2. PICK s \in ToSet(join_rel_level[1]) : TRUE
      BY <2>1, <3>1, ListHasFirst DEF LevelsInv
    <3>3. s \in DOMAIN rows
      BY <2>1, <3>1, <3>2 DEF LevelsInv
    <3>4. QED
      BY <1>2, <3>3
  <2>2. QED
    BY <2>1 DEF SearchInv
<1>4. Made' = Made
  BY <1>1, <1>2 DEF Made
<1>5. InTurn(problems, Made)'
  BY <1>1, <1>4 DEF SearchInv, InTurn, AvailableTo
<1>6. Deconstructed' = Deconstructed /\ (RelsInQuery \in Available(problems, Made))'
  BY <1>1, <1>4 DEF SearchInv, Deconstructed, RelsInQuery, Available, PartsOf
<1>7. ASSUME NEW s \in Single, NEW p \in ToSet(problems) PROVE Inside(s, p)
  BY <1>7 DEF Single, Inside, Parts, Overlap
<1>8. RowsInv'
  BY <1>1, <1>3, <1>7 DEF RowsInv, NotBegun
<1>9. NotBegun'
  BY <1>1, <1>3 DEF NotBegun
<1>10. QED
  BY <1>1, <1>5, <1>6, <1>8, <1>9 DEF SearchInv

\* What a pair adds: the join is new exactly when the level has it not.
LEMMA JoinRelStep ==
  ASSUME SearchInv, TreeInv', make_join_rel
  PROVE  SearchInv'
<1> DEFINE rel1 == Head(agenda)[1]
           rel2 == Head(agenda)[2]
           joinrel == rel1 \cup rel2
           known == IF joinrel \in DOMAIN rows THEN rows[joinrel] ELSE {}
           rest == Tail(agenda)
           n == Len(initial_rels)
           L == join_cur_level
           here == join_rel_level[L]
           legal == join_is_legal(rel1, rel2)
<1>1. /\ agenda # <<>> /\ agenda' = rest
      /\ UNCHANGED <<statement, next, join_info_list, failed, problems, initial_rels, join_cur_level, last_ditch>>
  BY DEF make_join_rel, treeVars
<1>2. /\ legal => /\ rows' = [s \in DOMAIN rows \cup {joinrel} |->
                                IF s = joinrel THEN known \cup Populated(rel1, rel2) ELSE rows[s]]
                  /\ join_rel_level' = [join_rel_level EXCEPT ![L] = IF known = {} THEN Append(@, joinrel) ELSE @]
      /\ ~legal => rows' = rows /\ join_rel_level' = join_rel_level
  BY DEF make_join_rel
<1>3. LevelsInv /\ NoneEmpty
  BY <1>1 DEF SearchInv, NotBegun
<1>4. /\ L >= 2 /\ joinrel \in SUBSET Rels /\ Joins(initial_rels, joinrel, L) /\ Tried(rest, join_rel_level, L)
  BY <1>1, <1>3, NextPair
<1>5. /\ joinrel \in DOMAIN rows <=> joinrel \in ToSet(here)
      /\ joinrel \subseteq Parts(initial_rels)
  BY <1>3, <1>4, MadeAtLevel
<1>6. Populated(rel1, rel2) # {}
  BY PopulatedSome
<1>7. known = {} <=> joinrel \notin DOMAIN rows
  BY DEF SearchInv, RowsInv
<1>8. /\ n \in Nat /\ L \in 1..n /\ here \in Lists /\ join_rel_level \in [1..n -> Lists]
      /\ IsInjective(here) /\ \A s \in ToSet(here) : s \in DOMAIN rows /\ Joins(initial_rels, s, L)
      /\ initial_rels # <<>> /\ Deconstructed
  BY <1>3, DividedIs DEF LevelsInv, Divided, SearchInv, NotBegun
<1> HIDE DEF joinrel, rest, n, here, legal, known
<1>9. CASE ~legal
  <2>1. rows' = rows /\ join_rel_level' = join_rel_level
    BY <1>2, <1>9
  <2>2. join_info_list # <<>>
    BY <1>9, AlwaysLegal DEF legal
  <2>3. LevelsInv'
    BY <1>1, <1>3, <1>4, <2>1 DEF LevelsInv
  <2>4. NoneEmpty'
    BY <1>1, <2>2 DEF NoneEmpty
  <2>5. Made' = Made /\ Deconstructed' = Deconstructed
    BY <1>1, <2>1 DEF Made, Deconstructed
  <2>6. InTurn(problems, Made)' /\ (RelsInQuery \in Available(problems, Made))'
    BY <1>1, <1>8, <2>5 DEF SearchInv, InTurn, AvailableTo, RelsInQuery, Available, PartsOf
  <2>7. RowsInv'
    BY <1>1, <2>1 DEF SearchInv, RowsInv
  <2>8. QED
    BY <1>1, <1>8, <2>3, <2>4, <2>5, <2>6, <2>7 DEF SearchInv
<1>10. CASE legal
  <2> DEFINE done == DOMAIN rows \cup {joinrel}
             now == IF known = {} THEN Append(here, joinrel) ELSE here
             levels == [join_rel_level EXCEPT ![L] = now]
  <2>1. /\ DOMAIN rows' = done /\ join_rel_level' = levels
        /\ \A s \in done : rows'[s] # {}
    <3>1. rows' = [s \in done |-> IF s = joinrel THEN known \cup Populated(rel1, rel2) ELSE rows[s]]
          /\ join_rel_level' = levels
      BY <1>2, <1>10 DEF here
    <3>2. \A s \in DOMAIN rows : rows[s] # {}
      BY DEF SearchInv, RowsInv
    <3>3. QED
      BY <1>6, <3>1, <3>2
  <2>2. now \in Lists /\ ToSet(now) = ToSet(here) \cup {joinrel} /\ IsInjective(now) /\ now # <<>>
    <3>1. CASE known = {}
      <4>1. /\ Append(here, joinrel) \in Lists /\ Append(here, joinrel) # <<>>
            /\ Len(Append(here, joinrel)) = Len(here) + 1
            /\ \A i \in 1..Len(here) : Append(here, joinrel)[i] = here[i]
            /\ Append(here, joinrel)[Len(here) + 1] = joinrel
        <5>1. here \in Seq(SUBSET Rels) /\ joinrel \in SUBSET Rels
          BY <1>4, <1>8 DEF Lists
        <5> HIDE DEF now, levels, done
        <5>2. QED
          BY <5>1, AppendProperties DEF Lists
      <4>2. ToSet(Append(here, joinrel)) = ToSet(here) \cup {joinrel}
        BY <1>4, <1>8, AppendedSet DEF Lists
      <4>3. joinrel \notin ToSet(here)
        BY <1>5, <1>7, <3>1
      <4>4. Len(here) \in Nat /\ DOMAIN here = 1..Len(here)
            /\ DOMAIN Append(here, joinrel) = 1..Len(here) + 1
        BY <1>8, <4>1, LenProperties DEF Lists
      <4>5. \A i \in 1..Len(here) + 1 : i \in 1..Len(here) \/ i = Len(here) + 1
        BY <4>4
      <4>6. \A i \in 1..Len(here) : here[i] # joinrel
        BY <4>3, <4>4 DEF ToSet
      <4>7. \A i, k \in 1..Len(here) : here[i] = here[k] => i = k
        BY <1>8, <4>4 DEF IsInjective
      <4>8. \A i, k \in 1..Len(here) + 1 : Append(here, joinrel)[i] = Append(here, joinrel)[k] => i = k
        BY <4>1, <4>5, <4>6, <4>7
      <4>9. IsInjective(Append(here, joinrel))
        BY <4>4, <4>8 DEF IsInjective
      <4>10. QED
        BY <3>1, <4>1, <4>2, <4>9
    <3>2. CASE known # {}
      <4>1. joinrel \in ToSet(here)
        BY <1>5, <1>7, <3>2
      <4>2. ToSet(<<>>) = {}
        BY DEF ToSet
      <4>3. QED
        BY <1>8, <3>2, <4>1, <4>2
    <3>3. QED
      BY <3>1, <3>2
  <2> HIDE DEF now
  <2>3. /\ levels \in [1..n -> Lists] /\ levels[L] = now
        /\ \A l \in 1..n : l # L => levels[l] = join_rel_level[l]
    BY <1>8, <2>2
  <2> HIDE DEF levels, done
  <2>4. \A l \in 1..n : IsInjective(levels[l]) /\ \A s \in ToSet(levels[l]) : s \in done /\ Joins(initial_rels, s, l)
    <3>1. ASSUME NEW l \in 1..n, l # L
          PROVE  IsInjective(levels[l]) /\ \A s \in ToSet(levels[l]) : s \in done /\ Joins(initial_rels, s, l)
      <4>1. levels[l] = join_rel_level[l]
        BY <2>3, <3>1
      <4>2. IsInjective(join_rel_level[l])
            /\ \A s \in ToSet(join_rel_level[l]) : s \in DOMAIN rows /\ Joins(initial_rels, s, l)
        BY <1>3 DEF LevelsInv, n
      <4>3. QED
        BY <4>1, <4>2 DEF done
    <3>2. IsInjective(now) /\ \A s \in ToSet(now) : s \in done /\ Joins(initial_rels, s, L)
      BY <1>4, <1>8, <2>2 DEF done
    <3>3. QED
      BY <2>3, <3>1, <3>2
  <2>5. \A s \in done : Inside(s, initial_rels) \/ \E l \in 1..n : s \in ToSet(levels[l])
    <3>1. \A l \in 1..n : ToSet(join_rel_level[l]) \subseteq ToSet(levels[l])
      BY <2>2, <2>3 DEF here
    <3>2. \A s \in DOMAIN rows : Inside(s, initial_rels) \/ \E l \in 1..n : s \in ToSet(join_rel_level[l])
      BY <1>3 DEF LevelsInv, n
    <3>3. joinrel \in ToSet(levels[L])
      BY <2>2, <2>3
    <3>4. QED
      BY <1>8, <3>1, <3>2, <3>3 DEF done
  <2>6. Tried(rest, levels, L)
    <3>1. \A k \in 1..L - 1 : k \in 1..n /\ k # L /\ L - k \in 1..n /\ L - k # L
      BY <1>8
    <3>2. \A k \in 1..L - 1 : levels[k] = join_rel_level[k] /\ levels[L - k] = join_rel_level[L - k]
      BY <2>3, <3>1
    <3>3. QED
      BY <1>4, <3>2 DEF Tried, Fitting
  <2>7. levels[1] = initial_rels
    <3>1. 1 \in 1..n /\ 1 # L
      BY <1>4, <1>8
    <3>2. QED
      BY <1>3, <2>3, <3>1 DEF LevelsInv
  <2>8. LevelsInv'
    BY <1>1, <1>3, <1>8, <2>1, <2>3, <2>4, <2>5, <2>6, <2>7 DEF LevelsInv, n
  <2>9. NoneEmpty'
    <3>1. \A l \in 1..L - 1 : l \in 1..n /\ l # L
      BY <1>8
    <3>2. \A l \in 1..L - 1 : levels[l] = join_rel_level[l]
      BY <2>3, <3>1
    <3>3. QED
      BY <1>1, <1>3, <2>1, <2>2, <2>3, <3>2 DEF NoneEmpty
  <2>10. Made \subseteq Made'
    BY <1>1, <2>1 DEF Made, done
  <2>11. InTurn(problems, Made)'
    <3> DEFINE more == Made'
    <3>1. InTurn(problems, Made) /\ Made \subseteq more
      BY <2>10 DEF SearchInv
    <3> HIDE DEF more
    <3>2. InTurn(problems, more)
      BY <3>1, MoreMade
    <3>3. QED
      BY <1>1, <3>2 DEF InTurn, AvailableTo, more
  <2>12. (RelsInQuery \in Available(problems, Made))'
    BY <1>1, <1>8, <2>10 DEF SearchInv, RelsInQuery, Available, PartsOf
  <2>13. RowsInv'
    <3>1. \A p \in ToSet(problems) : Inside(joinrel, p)
      BY <1>5, <1>8, InsideLess DEF SearchInv, RowsInv
    <3>2. rows # <<>>
      <4>1. 1 \in 1..n /\ initial_rels \in Lists
        BY <1>3, <1>8 DEF LevelsInv, Divided
      <4>2. PICK s \in ToSet(join_rel_level[1]) : TRUE
        <5>1. join_rel_level[1] = initial_rels
          BY <1>3 DEF LevelsInv
        <5>2. QED
          BY <1>8, <4>1, <5>1, ListHasFirst
      <4>3. s \in DOMAIN rows
        BY <1>3, <4>1, <4>2 DEF LevelsInv, n
      <4>4. QED
        BY <4>3
    <3>3. Single \subseteq done
      BY <3>2 DEF SearchInv, RowsInv, done
    <3>4. \A s \in done : \A p \in ToSet(problems) : Inside(s, p)
      BY <3>1 DEF SearchInv, RowsInv, done
    <3>5. QED
      BY <1>1, <2>1, <3>3, <3>4 DEF SearchInv, RowsInv
  <2>14. Deconstructed' = Deconstructed
    BY <1>1 DEF Deconstructed
  <2>15. QED
    BY <1>1, <1>8, <2>8, <2>9, <2>11, <2>12, <2>13, <2>14 DEF SearchInv
<1>11. QED
  BY <1>9, <1>10

\* A level would be left empty: without special joins some pair is left to be tried.
LEMMA ClauselessStep ==
  ASSUME SearchInv, TreeInv', TryClauseless
  PROVE  SearchInv'
<1> DEFINE n == Len(initial_rels)
           L == join_cur_level
           more == IF join_rel_level[L] = <<>> THEN ClauselessPairs(join_rel_level, L) ELSE <<>>
<1>1. /\ agenda = <<>> /\ L >= 2 /\ last_ditch' = TRUE /\ agenda' = more
      /\ UNCHANGED <<statement, next, join_info_list, failed, problems, rows, initial_rels, join_cur_level, join_rel_level>>
  BY DEF TryClauseless, treeVars
<1>2. LevelsInv /\ NoneEmpty
  BY <1>1 DEF SearchInv, NotBegun
<1>3. n \in Nat /\ L \in 1..n /\ L \in 2..n /\ join_rel_level \in [1..n -> Lists] /\ Deconstructed
      /\ Divided(initial_rels) /\ join_rel_level[1] = initial_rels
  <2>1. n \in Nat /\ L \in 1..n /\ join_rel_level \in [1..n -> Lists] /\ Deconstructed
        /\ Divided(initial_rels) /\ join_rel_level[1] = initial_rels
    BY <1>1, <1>2, DividedIs DEF LevelsInv, SearchInv, NotBegun
  <2>2. QED
    BY <1>1, <2>1
<1>4. Tried(more, join_rel_level, L)
  BY <1>3, LevelTried, EmptyTried
<1>5. ASSUME join_info_list = <<>>, join_rel_level[L] = <<>> PROVE more # <<>>
  <2>1. L - 1 \in 1..L - 1 /\ L - 1 \in 1..n /\ L - 1 # n
    BY <1>3
  <2>2. join_rel_level[L - 1] # <<>> /\ join_rel_level[L - 1] \in Lists
    BY <1>2, <1>3, <1>5, <2>1 DEF NoneEmpty
  <2>3. PICK rel \in ToSet(join_rel_level[L - 1]) : TRUE
    BY <2>2, ListHasFirst
  <2>4. Joins(initial_rels, rel, L - 1)
    BY <1>2, <2>1, <2>3 DEF LevelsInv
  <2>5. PICK r \in ToSet(initial_rels) : ~Overlap(rel, r)
    BY <1>3, <2>1, <2>4, JoinsNotAll
  <2>6. ClauselessPairs(join_rel_level, L) # <<>>
    BY <1>3, <2>3, <2>5, ClauselessTried
  <2>7. QED
    BY <1>5, <2>6
<1> HIDE DEF more, n
<1>6. LevelsInv'
  BY <1>1, <1>2, <1>4 DEF LevelsInv
<1>7. NoneEmpty'
  BY <1>1, <1>2, <1>5 DEF NoneEmpty
<1>8. Made' = Made /\ Deconstructed' = Deconstructed
  BY <1>1 DEF Made, Deconstructed
<1>9. InTurn(problems, Made)' /\ (RelsInQuery \in Available(problems, Made))'
  BY <1>1, <1>3, <1>8 DEF SearchInv, InTurn, AvailableTo, RelsInQuery, Available, PartsOf
<1>10. RowsInv'
  BY <1>1 DEF SearchInv, RowsInv
<1>11. QED
  BY <1>1, <1>3, <1>6, <1>7, <1>8, <1>9, <1>10 DEF SearchInv

LEMMA NextLevelStep ==
  ASSUME SearchInv, TreeInv', NextLevel
  PROVE  SearchInv'
<1> DEFINE n == Len(initial_rels)
           L == join_cur_level
           more == join_search_one_level(join_rel_level, L + 1)
<1>1. /\ LevelEnds /\ ~GivesUp /\ L < n /\ join_cur_level' = L + 1 /\ last_ditch' = FALSE /\ agenda' = more
      /\ UNCHANGED <<statement, next, join_info_list, failed, problems, rows, initial_rels, join_rel_level>>
  BY DEF NextLevel, StartLevel, treeVars, levels_needed
<1>2. LevelsInv /\ NoneEmpty
  BY <1>1, EmptySeq DEF SearchInv, NotBegun
<1>3. n \in Nat /\ L \in 1..n /\ L + 1 \in 2..n /\ L + 1 \in 1..n /\ join_rel_level \in [1..n -> Lists]
      /\ initial_rels # <<>> /\ join_rel_level[1] = initial_rels /\ Deconstructed
  <2>1. n \in Nat /\ L \in 1..n /\ join_rel_level \in [1..n -> Lists] /\ join_rel_level[1] = initial_rels
        /\ initial_rels # <<>>
    BY <1>2, DividedIs DEF LevelsInv, Divided
  <2>2. Deconstructed
    BY <2>1 DEF SearchInv, NotBegun
  <2>3. QED
    BY <1>1, <2>1, <2>2
<1>4. Tried(more, join_rel_level, L + 1)
  BY <1>3, LevelTried
<1>5. ASSUME join_info_list = <<>>, NEW l \in 1..L PROVE join_rel_level[l] # <<>>
  <2>1. CASE l \in 1..L - 1
    BY <1>2, <1>5, <2>1 DEF NoneEmpty
  <2>2. CASE l = L /\ L = 1
    BY <1>3, <2>2
  <2>3. CASE l = L /\ L >= 2
    BY <1>1, <1>5, <2>3 DEF GivesUp
  <2>4. QED
    BY <1>3, <2>1, <2>2, <2>3
<1> HIDE DEF more, n
<1>6. LevelsInv'
  BY <1>1, <1>2, <1>3, <1>4 DEF LevelsInv, n
<1>7. NoneEmpty'
  <2>1. (L + 1) - 1 = L
    BY <1>3
  <2>2. QED
    BY <1>1, <1>5, <2>1 DEF NoneEmpty
<1>8. Made' = Made /\ Deconstructed' = Deconstructed
  BY <1>1 DEF Made, Deconstructed
<1>9. InTurn(problems, Made)' /\ (RelsInQuery \in Available(problems, Made))'
  BY <1>1, <1>3, <1>8 DEF SearchInv, InTurn, AvailableTo, RelsInQuery, Available, PartsOf
<1>10. RowsInv'
  BY <1>1 DEF SearchInv, RowsInv
<1>11. QED
  BY <1>1, <1>3, <1>6, <1>7, <1>8, <1>9, <1>10 DEF SearchInv

\* Taking the joins apart is over before the search begins.
LEMMA TreeStep ==
  ASSUME SearchInv, TreeInv', TreeNext, UNCHANGED searchVars
  PROVE  SearchInv'
<1>1. ~Deconstructed /\ statement' = statement /\ next' = next + 1
      /\ UNCHANGED <<tables, initial_rels, join_rel_level, join_cur_level, agenda, last_ditch, rows>>
  <2>1. Len(statement.joins) \in Nat /\ next \in Nat
    BY LastScope DEF SearchInv, TreeInv
  <2>2. QED
    BY <2>1 DEF TreeNext, DeconstructJoin, DeconstructWhere, Deconstructed, searchVars
<1>2. rows = <<>> /\ NotBegun /\ ListsInv /\ InTurn(problems, Made) /\ TreeInv
  BY <1>1 DEF SearchInv
<1>3. rows' = <<>> /\ NotBegun' /\ RowsInv'
  BY <1>1, <1>2 DEF NotBegun, RowsInv
<1>4. failed' \in BOOLEAN
  BY DEF TreeNext, DeconstructJoin, DeconstructWhere
<1>5. CASE DeconstructJoin
  <2>1. ListsInv' /\ InTurn(problems, Made)'
    BY <1>1, <1>2, <1>5, ListsStep
  <2>2. ~Deconstructed'
    <3>1. next <= Len(statement.joins) /\ Len(statement.joins) \in Nat /\ next \in Nat
      BY <1>2, <1>5, LastScope DEF DeconstructJoin, TreeInv
    <3>2. QED
      BY <1>1, <3>1 DEF Deconstructed
  <2>3. QED
    BY <1>3, <1>4, <2>1, <2>2 DEF SearchInv
<1>6. CASE DeconstructWhere
  <2>1. InTurn(problems, Made)' /\ (RelsInQuery \in Available(problems, Made))'
    BY <1>1, <1>2, <1>6, TopStep
  <2>2. Deconstructed'
    <3>1. next = Len(statement.joins) + 1 /\ Len(statement.joins) \in Nat
      BY <1>2, <1>6, LastScope DEF DeconstructWhere
    <3>2. QED
      BY <1>1, <3>1 DEF Deconstructed
  <2>3. QED
    BY <1>3, <1>4, <2>1, <2>2 DEF SearchInv
<1>7. QED
  BY <1>5, <1>6 DEF TreeNext

LEMMA SearchStart == Init => SearchInv
<1> SUFFICES ASSUME Init PROVE SearchInv
  OBVIOUS
<1>1. TreeInv
  BY TreeStart
<1>2. /\ next = 1 /\ problems = <<>> /\ failed = FALSE /\ joinlist = [s \in Single |-> <<s>>]
      /\ initial_rels = <<>> /\ join_rel_level = <<>> /\ join_cur_level = 0 /\ agenda = <<>> /\ rows = <<>>
  BY DEF Init, TreeInit, Single
<1>3. ScopesBefore(next) = {}
  BY <1>2 DEF ScopesBefore
<1>4. PartsOf(problems) = {} /\ InTurn(problems, Made) /\ ToSet(problems) = {}
  BY <1>2 DEF PartsOf, InTurn, ToSet
<1>5. ASSUME NEW s \in Single
      PROVE  Divided(joinlist[s]) /\ Parts(joinlist[s]) = s /\ ToSet(joinlist[s]) \subseteq Available(problems, Made)
  <2>1. s \in SUBSET Rels /\ s # {} /\ joinlist[s] = <<s>>
    BY <1>2 DEF Single
  <2>2. s \in Available(problems, Made)
    BY DEF Available, Made
  <2>3. QED
    BY <2>1, <2>2, OneList
<1>6. ListsInv
  BY <1>2, <1>3, <1>4, <1>5 DEF ListsInv
<1>7. ~Deconstructed
  BY <1>1, <1>2, LastScope DEF Deconstructed
<1>8. RowsInv /\ NotBegun /\ failed \in BOOLEAN
  <2>1. DOMAIN rows = {}
    BY <1>2
  <2>2. QED
    BY <1>2, <2>1 DEF RowsInv, NotBegun
<1>9. QED
  BY <1>1, <1>2, <1>4, <1>6, <1>7, <1>8 DEF SearchInv

LEMMA SearchKept == SearchInv /\ [Next]_vars => SearchInv'
<1> SUFFICES ASSUME SearchInv, [Next]_vars PROVE SearchInv'
  OBVIOUS
<1>1. TreeInv'
  BY TreeKept DEF SearchInv
<1>2. CASE TreeNext /\ UNCHANGED searchVars
  BY <1>1, <1>2, TreeStep
<1>3. CASE ScanTables
  BY <1>1, <1>3, ScanStep
<1>4. CASE Begin
  BY <1>1, <1>4, BeginStep
<1>5. CASE make_join_rel
  BY <1>1, <1>5, JoinRelStep
<1>6. CASE TryClauseless
  BY <1>1, <1>6, ClauselessStep
<1>7. CASE NextLevel
  BY <1>1, <1>7, NextLevelStep
<1>8. CASE UNCHANGED vars
  <2>1. /\ UNCHANGED <<statement, next, join_info_list, joinlist, problems, failed>>
        /\ UNCHANGED <<initial_rels, join_rel_level, join_cur_level, agenda, last_ditch, rows>>
    BY <1>8 DEF vars, treeVars, searchVars
  <2>2. Made' = Made /\ Deconstructed' = Deconstructed /\ RelsInQuery' = RelsInQuery
        /\ ScopesBefore(next)' = ScopesBefore(next)
    BY <2>1 DEF Made, Deconstructed, RelsInQuery, ScopesBefore
  <2>3. InTurn(problems, Made)' <=> InTurn(problems, Made)
    BY <2>1, <2>2 DEF InTurn, AvailableTo
  <2>4. PartsOf(problems)' = PartsOf(problems) /\ Available(problems, Made)' = Available(problems, Made)
    BY <2>1, <2>2 DEF PartsOf, Available
  <2>5. ListsInv => ListsInv'
    BY <2>1, <2>2, <2>4 DEF ListsInv, Consumed
  <2>6. RowsInv => RowsInv'
    BY <2>1 DEF RowsInv
  <2>7. (NotBegun => NotBegun') /\ (LevelsInv => LevelsInv') /\ (NoneEmpty => NoneEmpty')
    BY <2>1 DEF NotBegun, LevelsInv, NoneEmpty
  <2>8. QED
    BY <1>1, <2>1, <2>2, <2>3, <2>4, <2>5, <2>6, <2>7 DEF SearchInv
<1>9. QED
  BY <1>2, <1>3, <1>4, <1>5, <1>6, <1>7, <1>8 DEF Next

------------------------------------------------------------------------------
(* What it means *)

LEMMA InvGivesType ==
  ASSUME SearchInv
  PROVE  TypeOK
<1>1. failed \in BOOLEAN /\ next \in 1..Len(statement.joins) + 2
  BY DEF SearchInv, TreeInv
<1>2. CASE NotBegun
  <2>1. DOMAIN join_rel_level = {}
    BY <1>2 DEF NotBegun
  <2>2. QED
    BY <1>1, <2>1 DEF TypeOK
<1>3. CASE LevelsInv
  <2>1. DOMAIN join_rel_level = 1..Len(initial_rels)
    BY <1>3 DEF LevelsInv
  <2>2. ASSUME NEW l \in DOMAIN join_rel_level
        PROVE  /\ IsInjective(join_rel_level[l])
               /\ \A rel \in ToSet(join_rel_level[l]) :
                    rel \in DOMAIN rows /\ Cardinality({r \in ToSet(initial_rels) : r \subseteq rel}) = l
    <3>1. IsInjective(join_rel_level[l])
          /\ \A rel \in ToSet(join_rel_level[l]) : rel \in DOMAIN rows /\ Joins(initial_rels, rel, l)
      BY <1>3, <2>1 DEF LevelsInv
    <3>2. QED
      BY <3>1 DEF Joins, TakenFrom
  <2>3. QED
    BY <1>1, <2>2 DEF TypeOK
<1>4. QED
  BY <1>2, <1>3 DEF SearchInv

LEMMA InvGivesSanity ==
  ASSUME SearchInv
  PROVE  SanityHolds
<1>1. SUFFICES ASSUME join_info_list = <<>>, GivesUp PROVE FALSE
  BY DEF SanityHolds
<1>2. agenda = <<>> /\ join_cur_level >= 2 /\ last_ditch /\ join_rel_level[join_cur_level] = <<>>
  <2>1. ~(join_cur_level >= 2 /\ join_cur_level < 2)
    <3>1. CASE NotBegun
      BY <3>1 DEF NotBegun
    <3>2. CASE LevelsInv
      BY <3>2, DividedIs DEF LevelsInv
    <3>3. QED
      BY <3>1, <3>2 DEF SearchInv
  <2>2. QED
    BY <1>1, <2>1 DEF GivesUp, LevelEnds
<1>3. NoneEmpty
  BY <1>2 DEF SearchInv, NotBegun
<1>4. QED
  BY <1>1, <1>2, <1>3 DEF NoneEmpty

LEMMA InvGivesOne ==
  ASSUME SearchInv
  PROVE  OneFinalRel
<1> DEFINE n == Len(initial_rels)
           top == join_rel_level[n]
<1>1. SUFFICES ASSUME Idle, join_cur_level >= 1 PROVE Len(top) = 1
  BY DEF OneFinalRel, levels_needed
<1>2. LevelsInv
  BY <1>1 DEF SearchInv, NotBegun
<1>3. n \in Nat /\ n >= 2 /\ join_cur_level = n /\ n \in 1..n
  BY <1>1, <1>2, DividedIs DEF LevelsInv, Idle, levels_needed
<1>4. top # <<>> /\ top \in Lists /\ IsInjective(top)
  BY <1>1, <1>2, <1>3 DEF LevelsInv, Idle, GivesUp, levels_needed
<1>5. Len(top) \in Nat \ {0} /\ DOMAIN top = 1..Len(top)
  BY <1>4, EmptySeq, LenProperties DEF Lists
<1>6. \A i \in DOMAIN top : top[i] = Parts(initial_rels)
  <2>1. \A s \in ToSet(top) : s = Parts(initial_rels)
    BY <1>2, <1>3, JoinsAll DEF LevelsInv
  <2>2. QED
    BY <2>1 DEF ToSet
<1>7. \A i, k \in DOMAIN top : i = k
  BY <1>4, <1>6 DEF IsInjective
<1> HIDE DEF top
<1>8. 1 \in DOMAIN top /\ Len(top) \in DOMAIN top
  BY <1>5
<1>9. QED
  BY <1>7, <1>8

LEMMA InvGivesEnd ==
  ASSUME SearchInv, Idle, rows # <<>>, problems = <<>>
  PROVE  RelsInQuery \in DOMAIN rows
<1>1. PartsOf(problems) = {} /\ Deconstructed
  BY DEF PartsOf, Idle
<1>2. RelsInQuery \in Made /\ RelsInQuery # {}
  BY <1>1, LastScope DEF SearchInv, Available
<1>3. CASE RelsInQuery = Parts(initial_rels)
  <2>1. CASE NotBegun
    <3>1. Parts(initial_rels) = {}
      BY <2>1 DEF NotBegun, Parts, ToSet
    <3>2. QED
      BY <1>2, <1>3, <3>1
  <2>2. CASE LevelsInv
    BY <1>3, <2>2, Solved
  <2>3. QED
    BY <2>1, <2>2 DEF SearchInv
<1>4. CASE RelsInQuery # Parts(initial_rels)
  BY <1>2, <1>4 DEF Made, SearchInv, RowsInv
<1>5. QED
  BY <1>3, <1>4

\* Whatever the joins, the conditions, the special joins they make and join_collapse_limit:
\* join_search_one_level builds joins of as many relations as the level says, each once;
\* every problem finds what it joins already made, and nothing that its own levels would
\* miss; a search that ends has one relation at its last level and has joined all there are;
\* and without special joins no level is left empty, which joinrels.c takes for an error.
THEOREM SearchIsSound == Spec => []SearchSound
<1>1. SearchInv => SearchSound
  BY InvGivesType, InvGivesSanity, InvGivesOne, InvGivesEnd DEF SearchSound, SearchInv, TreeInv, EndsJoined
<1>2. QED
  BY SearchStart, SearchKept, <1>1, PTL DEF Spec

===============================================================================
