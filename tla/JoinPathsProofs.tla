--------------------------- MODULE JoinPathsProofs ---------------------------
(***************************************************************************)
(* Theorems about JoinPaths, for every set of relations, expressions and   *)
(* queries, and every order in which the clauses of a query come: merging  *)
(* leaves the connected components of the clauses as classes; a tree of    *)
(* joins tests every clause that is no equality wherever parameters have   *)
(* moved it, and none twice; and it makes equal whatever the query does,   *)
(* given its parameters.                                                   *)
(***************************************************************************)
EXTENDS JoinPaths, FiniteSetTheorems, SequenceTheorems, WellFoundedInduction, TLAPS

------------------------------------------------------------------------------
(* The inductive invariant *)

Members(ec) == ToSet(ec.members)
Done == query \ todo

ClauseType == [left : Exprs, right : Exprs, derived : BOOLEAN, required : SUBSET Rels]
ClassType ==
  [members : Seq(Exprs), sources : SUBSET ClauseType, has_const : BOOLEAN, broken : BOOLEAN]

\* Connected, but over all sets of expressions, so that more pairs change nothing else.
Linked(pairs, a, b) ==
  \A S \in SUBSET Exprs : (\A p \in pairs : p[1] \in S <=> p[2] \in S) => (a \in S <=> b \in S)

\* A class holds both sides of every clause it holds one of, only expressions of the clauses
\* done, all linked by these; no two classes share an expression.
RightClass(ec) ==
  /\ \A e \in Members(ec) : \E p \in Done : e \in {p[1], p[2]}
  /\ \A a, b \in Members(ec) : Linked(Done, a, b)
  /\ IsInjective(ec.members)
  /\ ec.has_const <=> \E e \in Members(ec) : IsConst(e)
  /\ Sides(ec.sources) = {p \in Done : p[1] \in Members(ec)}
  /\ \A s \in ec.sources : s.required = clause_relids(s)
Apart == \A ec1, ec2 \in eq_classes : Members(ec1) \cap Members(ec2) # {} => ec1 = ec2
Covered == \A p \in Done : \E ec \in eq_classes : {p[1], p[2]} \subseteq Members(ec)
Merging == Apart /\ Covered /\ \A ec \in eq_classes : RightClass(ec)

ClassesWellFormed ==
  /\ query \in Queries /\ todo \subseteq query /\ ec_merging_done \in BOOLEAN
  /\ eq_classes \subseteq ClassType

\* A clause of the classes is placed by its relations, that of two constants at the top.
Anchored(c) == IF clause_relids(c) = {} THEN c.required = Rels ELSE c.required = clause_relids(c)
OfOneClass(c) == \E ec \in eq_classes : {c.left, c.right} \subseteq Members(ec)
QualsPlaced == \A c \in quals : Anchored(c) /\ OfOneClass(c)
Unmerged == ~ec_merging_done => quals = {} /\ \A ec \in eq_classes : ~ec.broken

MergeInv == ClassesWellFormed /\ Merging /\ QualsPlaced /\ Unmerged

\* Each relation is in one tree, which takes its parameters from elsewhere, enforces what it
\* has to and keeps the clauses it shares with others for the joins above.
RightPath(p) ==
  /\ p.req \subseteq Rels \ p.rel
  /\ EnforcesOthers(p)
  /\ \A c \in OtherClauses : c.required \cap p.rel # {} /\ ~(c.required \subseteq p.rel) => c \in p.joininfo
Forest ==
  /\ scanned \subseteq Rels /\ (forest # {} => ec_merging_done)
  /\ \A p \in forest : p.rel \subseteq scanned /\ RightPath(p)
  /\ \A p, q \in forest : p = q \/ p.rel \cap q.rel = {}

JoinInv == MergeInv /\ Forest

------------------------------------------------------------------------------
(* Sequences of members *)

LEMMA AppendMember ==
  ASSUME NEW S, NEW s \in Seq(S), NEW e \in S
  PROVE  LET t == Append(s, e)
         IN /\ t \in Seq(S) /\ ToSet(t) = ToSet(s) \cup {e}
            /\ IsInjective(s) /\ e \notin ToSet(s) => IsInjective(t)
<1> DEFINE t == Append(s, e)
<1>1. /\ t \in Seq(S) /\ DOMAIN s = 1..Len(s) /\ DOMAIN t = 1..Len(s) + 1 /\ Len(s) \in Nat
      /\ \A i \in 1..Len(s) : t[i] = s[i]
      /\ t[Len(s) + 1] = e
  BY AppendProperties, LenProperties
<1> HIDE DEF t
<1>2. ToSet(t) = ToSet(s) \cup {e}
  <2>1. ASSUME NEW x \in ToSet(t) PROVE x \in ToSet(s) \cup {e}
    BY <1>1, <2>1 DEF ToSet
  <2>2. ASSUME NEW x \in ToSet(s) PROVE x \in ToSet(t)
    <3>1. PICK i \in 1..Len(s) : x = s[i]
      BY <1>1 DEF ToSet
    <3>2. i \in DOMAIN t /\ x = t[i]
      BY <1>1, <3>1
    <3>3. QED
      BY <3>2 DEF ToSet
  <2>3. e \in ToSet(t)
    <3>1. Len(s) + 1 \in DOMAIN t
      BY <1>1
    <3>2. QED
      BY <1>1, <3>1 DEF ToSet
  <2>4. QED
    BY <2>1, <2>2, <2>3
<1>3. ASSUME IsInjective(s), e \notin ToSet(s), NEW i \in DOMAIN t, NEW j \in DOMAIN t, t[i] = t[j]
      PROVE  i = j
  <2>1. \A k \in 1..Len(s) : s[k] # e
    BY <1>1, <1>3 DEF ToSet
  <2>2. CASE i \in 1..Len(s) /\ j \in 1..Len(s)
    BY <1>1, <1>3, <2>2 DEF IsInjective
  <2>3. CASE ~(i \in 1..Len(s) /\ j \in 1..Len(s))
    BY <1>1, <1>3, <2>1, <2>3
  <2>4. QED
    BY <2>2, <2>3
<1>4. IsInjective(s) /\ e \notin ToSet(s) => IsInjective(t)
  BY <1>3 DEF IsInjective
<1>5. QED
  BY <1>1, <1>2, <1>4 DEF t

LEMMA ConcatMembers ==
  ASSUME NEW S, NEW s \in Seq(S), NEW u \in Seq(S)
  PROVE  LET t == s \o u
         IN /\ t \in Seq(S) /\ ToSet(t) = ToSet(s) \cup ToSet(u)
            /\ IsInjective(s) /\ IsInjective(u) /\ ToSet(s) \cap ToSet(u) = {} => IsInjective(t)
<1> DEFINE t == s \o u
<1>1. /\ t \in Seq(S) /\ DOMAIN s = 1..Len(s) /\ DOMAIN u = 1..Len(u) /\ DOMAIN t = 1..Len(s) + Len(u)
      /\ Len(s) \in Nat /\ Len(u) \in Nat
      /\ \A i \in 1..Len(s) + Len(u) : t[i] = IF i <= Len(s) THEN s[i] ELSE u[i - Len(s)]
  BY ConcatProperties, LenProperties
<1> HIDE DEF t
<1>2. ToSet(t) = ToSet(s) \cup ToSet(u)
  <2>1. ASSUME NEW x \in ToSet(t) PROVE x \in ToSet(s) \cup ToSet(u)
    <3>1. PICK i \in 1..Len(s) + Len(u) : x = t[i]
      BY <1>1 DEF ToSet
    <3>2. CASE i <= Len(s)
      BY <1>1, <3>1, <3>2 DEF ToSet
    <3>3. CASE ~(i <= Len(s))
      <4>1. i - Len(s) \in DOMAIN u /\ x = u[i - Len(s)]
        BY <1>1, <3>1, <3>3
      <4>2. QED
        BY <4>1 DEF ToSet
    <3>4. QED
      BY <3>2, <3>3
  <2>2. ASSUME NEW x \in ToSet(s) PROVE x \in ToSet(t)
    <3>1. PICK i \in 1..Len(s) : x = s[i]
      BY <1>1 DEF ToSet
    <3>2. i \in DOMAIN t /\ x = t[i]
      BY <1>1, <3>1
    <3>3. QED
      BY <3>2 DEF ToSet
  <2>3. ASSUME NEW x \in ToSet(u) PROVE x \in ToSet(t)
    <3>1. PICK i \in 1..Len(u) : x = u[i]
      BY <1>1 DEF ToSet
    <3>2. i + Len(s) \in DOMAIN t /\ x = t[i + Len(s)]
      BY <1>1, <3>1
    <3>3. QED
      BY <3>2 DEF ToSet
  <2>4. QED
    BY <2>1, <2>2, <2>3
<1>3. ASSUME IsInjective(s), IsInjective(u), ToSet(s) \cap ToSet(u) = {},
             NEW i \in DOMAIN t, NEW j \in DOMAIN t, t[i] = t[j]
      PROVE  i = j
  <2>1. \A k \in 1..Len(s), l \in 1..Len(u) : s[k] # u[l]
    <3>1. ASSUME NEW k \in 1..Len(s), NEW l \in 1..Len(u), s[k] = u[l] PROVE FALSE
      <4>1. s[k] \in ToSet(s) /\ s[k] \in ToSet(u)
        BY <1>1, <3>1 DEF ToSet
      <4>2. QED
        BY <1>3, <4>1
    <3>2. QED
      BY <3>1
  <2>2. i \in 1..Len(s) + Len(u) /\ j \in 1..Len(s) + Len(u)
    BY <1>1
  <2>3. CASE i <= Len(s) /\ j <= Len(s)
    BY <1>1, <1>3, <2>2, <2>3 DEF IsInjective
  <2>4. CASE ~(i <= Len(s)) /\ ~(j <= Len(s))
    <3>1. i - Len(s) \in DOMAIN u /\ j - Len(s) \in DOMAIN u /\ u[i - Len(s)] = u[j - Len(s)]
      BY <1>1, <1>3, <2>2, <2>4
    <3>2. i - Len(s) = j - Len(s)
      BY <1>3, <3>1 DEF IsInjective
    <3>3. QED
      BY <1>1, <2>2, <3>2
  <2>5. CASE i <= Len(s) /\ ~(j <= Len(s))
    <3>1. i \in 1..Len(s) /\ j - Len(s) \in 1..Len(u) /\ s[i] = u[j - Len(s)]
      BY <1>1, <1>3, <2>2, <2>5
    <3>2. QED
      BY <2>1, <3>1
  <2>6. CASE ~(i <= Len(s)) /\ j <= Len(s)
    <3>1. j \in 1..Len(s) /\ i - Len(s) \in 1..Len(u) /\ s[j] = u[i - Len(s)]
      BY <1>1, <1>3, <2>2, <2>6
    <3>2. QED
      BY <2>1, <3>1
  <2>7. QED
    BY <2>3, <2>4, <2>5, <2>6
<1>4. IsInjective(s) /\ IsInjective(u) /\ ToSet(s) \cap ToSet(u) = {} => IsInjective(t)
  BY <1>3 DEF IsInjective
<1>5. QED
  BY <1>1, <1>2, <1>4 DEF t

LEMMA PairMembers ==
  ASSUME NEW S, NEW a \in S, NEW b \in S, a # b, NEW p, p = <<a, b>>
  PROVE  p \in Seq(S) /\ ToSet(p) = {a, b} /\ IsInjective(p)
<1>1. p \in Seq(S) /\ DOMAIN p = {1, 2} /\ p[1] = a /\ p[2] = b
  OBVIOUS
<1>2. ToSet(p) = {a, b}
  BY <1>1 DEF ToSet
<1>3. IsInjective(p)
  BY <1>1 DEF IsInjective
<1>4. QED
  BY <1>1, <1>2, <1>3

------------------------------------------------------------------------------
(* What clauses link *)

LEMMA LinkedBack ==
  ASSUME NEW pairs, NEW a, NEW b, Linked(pairs, a, b)
  PROVE  Linked(pairs, b, a)
BY DEF Linked

LEMMA LinkedOn ==
  ASSUME NEW pairs, NEW a, NEW b, NEW c, Linked(pairs, a, b), Linked(pairs, b, c)
  PROVE  Linked(pairs, a, c)
<1>1. SUFFICES ASSUME NEW S \in SUBSET Exprs, \A p \in pairs : p[1] \in S <=> p[2] \in S
               PROVE  a \in S <=> c \in S
  BY DEF Linked
<1>2. (a \in S <=> b \in S) /\ (b \in S <=> c \in S)
  BY <1>1 DEF Linked
<1>3. QED
  BY <1>2

LEMMA LinkedByMore ==
  ASSUME NEW pairs, NEW more, pairs \subseteq more, NEW a, NEW b, Linked(pairs, a, b)
  PROVE  Linked(more, a, b)
<1>1. SUFFICES ASSUME NEW S \in SUBSET Exprs, \A p \in more : p[1] \in S <=> p[2] \in S
               PROVE  a \in S <=> b \in S
  BY DEF Linked
<1>2. \A p \in pairs : p[1] \in S <=> p[2] \in S
  BY <1>1
<1>3. QED
  BY <1>2 DEF Linked

LEMMA LinkedByPair ==
  ASSUME NEW pairs, NEW p \in pairs
  PROVE  Linked(pairs, p[1], p[2]) /\ Linked(pairs, p[1], p[1])
BY DEF Linked

LEMMA ClauseOfQuery ==
  ASSUME query \in Queries, NEW p \in query
  PROVE  p = <<p[1], p[2]>> /\ p[1] \in Exprs /\ p[2] \in Exprs /\ p[1] # p[2]
<1>1. p \in Exprs \X Exprs /\ p[1] # p[2]
  BY QueriesAssumption
<1>2. QED
  BY <1>1

------------------------------------------------------------------------------
(* process_equivalence *)

\* One clause replaces the classes that hold its sides by a class that has what they had.
LEMMA PutMerges ==
  ASSUME ClassesWellFormed, Merging, NEW p \in todo,
         NEW gone \in SUBSET eq_classes, NEW ec \in ClassType,
         \A g \in gone : Members(g) \cap {p[1], p[2]} # {},
         \A other \in eq_classes \ gone : Members(other) \cap {p[1], p[2]} = {},
         Members(ec) = {p[1], p[2]} \cup UNION {Members(g) : g \in gone},
         IsInjective(ec.members),
         ec.has_const <=> \E e \in Members(ec) : IsConst(e),
         Sides(ec.sources) = {p} \cup UNION {Sides(g.sources) : g \in gone},
         \A s \in ec.sources : s.required = clause_relids(s),
         eq_classes' = (eq_classes \ gone) \cup {ec}, todo' = todo \ {p}, query' = query
  PROVE  Merging'
<1> DEFINE done == Done \cup {p}
<1>1. Done' = done
  BY DEF Done, ClassesWellFormed
<1>2. \A c \in eq_classes : RightClass(c)
  BY DEF Merging
<1>3. \A c1, c2 \in eq_classes : Members(c1) \cap Members(c2) # {} => c1 = c2
  BY DEF Merging, Apart
<1>4. \A q \in Done : \E c \in eq_classes : {q[1], q[2]} \subseteq Members(c)
  BY DEF Merging, Covered
<1>5. \A other \in eq_classes \ gone : Members(other) \cap Members(ec) = {}
  <2>1. ASSUME NEW other \in eq_classes \ gone, NEW e \in Members(other), e \in Members(ec) PROVE FALSE
    <3>1. e \notin {p[1], p[2]}
      BY <2>1
    <3>2. PICK g \in gone : e \in Members(g)
      BY <2>1, <3>1
    <3>3. other = g
      BY <1>3, <2>1, <3>2
    <3>4. QED
      BY <2>1, <3>2, <3>3
  <2>2. QED
    BY <2>1
<1>6. Apart'
  <2>1. \A c1, c2 \in eq_classes' : Members(c1) \cap Members(c2) # {} => c1 = c2
    BY <1>3, <1>5
  <2>2. QED
    BY <2>1 DEF Apart, Members
<1>7. Covered'
  <2>1. ASSUME NEW q \in done PROVE \E c \in eq_classes' : {q[1], q[2]} \subseteq Members(c)
    <3>1. CASE q = p
      BY <3>1
    <3>2. CASE q \in Done
      <4>1. PICK c \in eq_classes : {q[1], q[2]} \subseteq Members(c)
        BY <1>4, <3>2
      <4>2. CASE c \in gone
        <5>1. Members(c) \subseteq Members(ec)
          BY <4>2
        <5>2. QED
          BY <4>1, <5>1
      <4>3. CASE c \notin gone
        BY <4>1, <4>3
      <4>4. QED
        BY <4>2, <4>3
    <3>3. QED
      BY <3>1, <3>2
  <2>2. QED
    BY <1>1, <2>1 DEF Covered, Members
<1>8. ASSUME NEW c \in eq_classes'
      PROVE  /\ \A e \in Members(c) : \E q \in done : e \in {q[1], q[2]}
             /\ \A a, b \in Members(c) : Linked(done, a, b)
             /\ IsInjective(c.members)
             /\ c.has_const <=> \E e \in Members(c) : IsConst(e)
             /\ Sides(c.sources) = {q \in done : q[1] \in Members(c)}
             /\ \A s \in c.sources : s.required = clause_relids(s)
  <2>1. CASE c \in eq_classes \ gone
    <3>1. /\ \A e \in Members(c) : \E q \in Done : e \in {q[1], q[2]}
          /\ \A a, b \in Members(c) : Linked(Done, a, b)
          /\ IsInjective(c.members)
          /\ c.has_const <=> \E e \in Members(c) : IsConst(e)
          /\ Sides(c.sources) = {q \in Done : q[1] \in Members(c)}
          /\ \A s \in c.sources : s.required = clause_relids(s)
      BY <1>2, <2>1 DEF RightClass
    <3>2. \A a, b \in Members(c) : Linked(done, a, b)
      BY <3>1, LinkedByMore
    <3>3. p[1] \notin Members(c)
      BY <2>1
    <3>4. QED
      BY <3>1, <3>2, <3>3
  <2>2. CASE c = ec
    <3>1. \A e \in Members(ec) : \E q \in done : e \in {q[1], q[2]}
      <4>1. ASSUME NEW e \in Members(ec) PROVE \E q \in done : e \in {q[1], q[2]}
        <5>1. CASE e \in {p[1], p[2]}
          BY <5>1
        <5>2. CASE e \notin {p[1], p[2]}
          <6>1. PICK g \in gone : e \in Members(g)
            BY <4>1, <5>2
          <6>2. \E q \in Done : e \in {q[1], q[2]}
            BY <1>2, <6>1 DEF RightClass
          <6>3. QED
            BY <6>2
        <5>3. QED
          BY <5>1, <5>2
      <4>2. QED
        BY <4>1
    <3>2. ASSUME NEW e \in Members(ec) PROVE Linked(done, e, p[1])
      <4>1. Linked(done, p[1], p[2]) /\ Linked(done, p[1], p[1])
        BY LinkedByPair
      <4>2. Linked(done, p[2], p[1])
        BY <4>1, LinkedBack
      <4>3. CASE e \in {p[1], p[2]}
        BY <4>1, <4>2, <4>3
      <4>4. CASE e \notin {p[1], p[2]}
        <5>1. PICK g \in gone : e \in Members(g)
          BY <3>2, <4>4
        <5>2. PICK x \in {p[1], p[2]} : x \in Members(g)
          OBVIOUS
        <5>3. Linked(Done, e, x)
          BY <1>2, <5>1, <5>2 DEF RightClass
        <5>4. Linked(done, e, x)
          BY <5>3, LinkedByMore
        <5>5. Linked(done, x, p[1])
          BY <4>1, <4>2
        <5>6. QED
          BY <5>4, <5>5, LinkedOn
      <4>5. QED
        BY <4>3, <4>4
    <3>3. \A a, b \in Members(ec) : Linked(done, a, b)
      <4>1. ASSUME NEW a \in Members(ec), NEW b \in Members(ec) PROVE Linked(done, a, b)
        <5>1. Linked(done, a, p[1]) /\ Linked(done, b, p[1])
          BY <3>2
        <5>2. Linked(done, p[1], b)
          BY <5>1, LinkedBack
        <5>3. QED
          BY <5>1, <5>2, LinkedOn
      <4>2. QED
        BY <4>1
    <3>4. Sides(ec.sources) = {q \in done : q[1] \in Members(ec)}
      <4>1. \A g \in gone : Sides(g.sources) = {q \in Done : q[1] \in Members(g)}
        BY <1>2 DEF RightClass
      <4>2. ASSUME NEW q \in Done, q[1] \in Members(ec) PROVE q \in Sides(ec.sources)
        <5>1. PICK c0 \in eq_classes : {q[1], q[2]} \subseteq Members(c0)
          BY <1>4
        <5>2. c0 \in gone
          BY <1>5, <4>2, <5>1
        <5>3. q \in Sides(c0.sources)
          BY <4>1, <5>1, <5>2
        <5>4. QED
          BY <5>2, <5>3
      <4>3. ASSUME NEW q \in Sides(ec.sources), q # p PROVE q \in Done /\ q[1] \in Members(ec)
        <5>1. PICK g \in gone : q \in Sides(g.sources)
          BY <4>3
        <5>2. q \in Done /\ q[1] \in Members(g)
          BY <4>1, <5>1
        <5>3. QED
          BY <5>2
      <4>4. p \in Sides(ec.sources) /\ p[1] \in Members(ec)
        OBVIOUS
      <4>5. QED
        BY <4>2, <4>3, <4>4
    <3>5. QED
      BY <2>2, <3>1, <3>3, <3>4
  <2>3. QED
    BY <2>1, <2>2
<1>9. (\A c \in eq_classes : RightClass(c))'
  BY <1>1, <1>8 DEF RightClass, Members
<1>10. QED
  BY <1>6, <1>7, <1>9 DEF Merging

LEMMA ClauseTyped ==
  ASSUME query \in Queries, NEW p \in query, NEW derived \in BOOLEAN
  PROVE  Clause(p[1], p[2], derived) \in ClauseType
<1>1. p[1] \in Exprs /\ p[2] \in Exprs
  BY ClauseOfQuery
<1>2. relids[p[1]] \in SUBSET Rels /\ relids[p[2]] \in SUBSET Rels
  BY <1>1, ExprsAssumption
<1>3. QED
  BY <1>1, <1>2 DEF Clause, ClauseType

LEMMA SourceAdded ==
  ASSUME NEW ec \in ClassType, NEW p, p = <<p[1], p[2]>>, NEW src \in ClauseType,
         src.left = p[1], src.right = p[2]
  PROVE  LET new == AddSource(ec, src)
         IN /\ new \in ClassType /\ new.members = ec.members /\ new.has_const = ec.has_const
            /\ new.broken = ec.broken /\ new.sources = ec.sources \cup {src}
            /\ Sides(new.sources) = Sides(ec.sources) \cup {p}
<1> DEFINE new == AddSource(ec, src)
<1>1. /\ new \in ClassType /\ new.members = ec.members /\ new.has_const = ec.has_const
      /\ new.broken = ec.broken /\ new.sources = ec.sources \cup {src}
  BY DEF AddSource, ClassType
<1> HIDE DEF new
<1>2. <<src.left, src.right>> = p
  OBVIOUS
<1>3. Sides(new.sources) = Sides(ec.sources) \cup {p}
  BY <1>1, <1>2, Zenon DEF Sides
<1>4. QED
  BY <1>1, <1>3 DEF new

\* Whatever order the clauses come in, and whichever side is known already.
LEMMA ProcessKeepsMerging ==
  ASSUME MergeInv, NEW p \in query, process_equivalence(p)
  PROVE  MergeInv'
<1>1. /\ ~ec_merging_done /\ p \in todo /\ todo' = todo \ {p}
      /\ query' = query /\ ec_merging_done' = ec_merging_done
  BY DEF process_equivalence
<1>2. /\ ClassesWellFormed /\ Merging /\ query \in Queries /\ todo \subseteq query /\ eq_classes \subseteq ClassType
      /\ quals = {} /\ \A ec \in eq_classes : ~ec.broken
  BY <1>1 DEF MergeInv, ClassesWellFormed, Unmerged
<1>3. p = <<p[1], p[2]>> /\ p[1] \in Exprs /\ p[2] \in Exprs /\ p[1] # p[2]
  BY <1>2, ClauseOfQuery
<1> DEFINE src == Clause(p[1], p[2], FALSE)
           ec1s == EcOf(p[1])
           ec2s == EcOf(p[2])
<1>4. src \in ClauseType /\ src.left = p[1] /\ src.right = p[2] /\ src.required = clause_relids(src)
  <2>1. src \in ClauseType
    BY <1>2, ClauseTyped
  <2>2. QED
    BY <2>1 DEF Clause, clause_relids
<1>5. \A ec \in eq_classes : RightClass(ec) /\ ec \in ClassType
  BY <1>2 DEF Merging
<1>6. \A c1, c2 \in eq_classes : Members(c1) \cap Members(c2) # {} => c1 = c2
  BY <1>2 DEF Merging, Apart
<1>7. /\ ec1s = {ec \in eq_classes : p[1] \in Members(ec)}
      /\ ec2s = {ec \in eq_classes : p[2] \in Members(ec)}
  BY DEF EcOf, Members
<1> HIDE DEF src, ec1s, ec2s
\* Each case replaces the classes gone by new, which gets the clause as a source.
<1>8. ASSUME NEW gone \in SUBSET eq_classes, NEW new \in ClassType,
             ec1s \cup ec2s = gone,
             Members(new) = {p[1], p[2]} \cup UNION {Members(g) : g \in gone},
             IsInjective(new.members),
             new.has_const <=> \E e \in Members(new) : IsConst(e),
             Sides(new.sources) = UNION {Sides(g.sources) : g \in gone},
             \A s \in new.sources : s.required = clause_relids(s), ~new.broken,
             eq_classes' = (eq_classes \ gone) \cup {AddSource(new, src)}
      PROVE  MergeInv'
  <2> DEFINE ec == AddSource(new, src)
  <2>1. /\ ec \in ClassType /\ ec.members = new.members /\ ec.has_const = new.has_const
        /\ ec.broken = new.broken /\ ec.sources = new.sources \cup {src}
        /\ Sides(ec.sources) = Sides(new.sources) \cup {p}
    BY <1>3, <1>4, SourceAdded
  <2> HIDE DEF ec
  <2>2. \A g \in gone : Members(g) \cap {p[1], p[2]} # {}
    BY <1>7, <1>8
  <2>3. \A other \in eq_classes \ gone : Members(other) \cap {p[1], p[2]} = {}
    BY <1>7, <1>8
  <2>4. /\ Members(ec) = {p[1], p[2]} \cup UNION {Members(g) : g \in gone}
        /\ IsInjective(ec.members)
        /\ ec.has_const <=> \E e \in Members(ec) : IsConst(e)
    BY <1>8, <2>1 DEF Members
  <2>5. Sides(ec.sources) = {p} \cup UNION {Sides(g.sources) : g \in gone}
    BY <1>8, <2>1
  <2>10. \A s \in ec.sources : s.required = clause_relids(s)
    BY <1>4, <1>8, <2>1
  <2>6. eq_classes' = (eq_classes \ gone) \cup {ec}
    BY <1>8 DEF ec
  <2>7. Merging'
    BY <1>1, <1>2, <2>1, <2>2, <2>3, <2>4, <2>5, <2>6, <2>10, PutMerges
  <2>8. ClassesWellFormed'
    BY <1>1, <1>2, <2>1, <2>6 DEF ClassesWellFormed
  <2>11. quals' = {}
    BY <1>2 DEF process_equivalence
  <2>12. \A c \in eq_classes' : ~c.broken
    BY <1>2, <1>8, <2>1, <2>6
  <2>9. QED
    BY <2>7, <2>8, <2>11, <2>12 DEF MergeInv, QualsPlaced, Unmerged
<1>9. CASE ec1s = {} /\ ec2s = {} /\ eq_classes' = (eq_classes \ {}) \cup {AddSource(NewClass(p), src)}
  <2> DEFINE new == NewClass(p)
  <2>1. p \in Seq(Exprs) /\ ToSet(p) = {p[1], p[2]} /\ IsInjective(p)
    BY <1>3, PairMembers
  <2>2. /\ new.members = p /\ new.sources = {} /\ ~new.broken /\ new.has_const = (IsConst(p[1]) \/ IsConst(p[2]))
        /\ new \in ClassType
    BY <2>1 DEF NewClass, ClassType, IsConst
  <2> HIDE DEF new
  <2>3. Members(new) = {p[1], p[2]} /\ Sides(new.sources) = {}
    BY <2>1, <2>2 DEF Members, Sides
  <2>4. new.has_const <=> \E e \in Members(new) : IsConst(e)
    BY <2>2, <2>3
  <2>5. eq_classes' = (eq_classes \ {}) \cup {AddSource(new, src)}
    BY <1>9 DEF new
  <2>6. /\ Members(new) = {p[1], p[2]} \cup UNION {Members(g) : g \in {}}
        /\ Sides(new.sources) = UNION {Sides(g.sources) : g \in {}}
        /\ IsInjective(new.members) /\ {} \in SUBSET eq_classes /\ ec1s \cup ec2s = {}
    BY <1>9, <2>1, <2>2, <2>3
  <2>7. QED
    BY <1>8, <2>2, <2>4, <2>5, <2>6
\* The class of one side takes in the other.
<1>10. ASSUME NEW ec \in eq_classes, NEW e \in Exprs, NEW known \in Members(ec), {e, known} = {p[1], p[2]},
              e \notin Members(ec), ec1s \cup ec2s = {ec},
              eq_classes' = (eq_classes \ {ec}) \cup {AddSource(add_eq_member(ec, e), src)}
       PROVE  MergeInv'
  <2> DEFINE new == add_eq_member(ec, e)
  <2>1. /\ ec \in ClassType /\ IsInjective(ec.members) /\ ~ec.broken
        /\ ec.has_const <=> \E x \in Members(ec) : IsConst(x)
        /\ \A s \in ec.sources : s.required = clause_relids(s)
    BY <1>2, <1>5 DEF RightClass
  <2>2. ec.members \in Seq(Exprs) /\ ec.has_const \in BOOLEAN
    BY <2>1 DEF ClassType
  <2>3. /\ Append(ec.members, e) \in Seq(Exprs) /\ IsInjective(Append(ec.members, e))
        /\ ToSet(Append(ec.members, e)) = Members(ec) \cup {e}
    BY <1>10, <2>1, <2>2, AppendMember DEF Members
  <2>4. /\ new.members = Append(ec.members, e) /\ new.sources = ec.sources /\ ~new.broken
        /\ new.has_const = (ec.has_const \/ IsConst(e)) /\ new \in ClassType
    BY <2>1, <2>2, <2>3 DEF add_eq_member, ClassType, IsConst
  <2> HIDE DEF new
  <2>5. Members(new) = Members(ec) \cup {e} /\ IsInjective(new.members)
    BY <2>3, <2>4 DEF Members
  <2>6. new.has_const <=> \E x \in Members(new) : IsConst(x)
    BY <2>1, <2>4, <2>5
  <2>7. /\ Members(new) = {p[1], p[2]} \cup UNION {Members(g) : g \in {ec}}
        /\ Sides(new.sources) = UNION {Sides(g.sources) : g \in {ec}}
    BY <1>10, <2>4, <2>5
  <2>8. eq_classes' = (eq_classes \ {ec}) \cup {AddSource(new, src)}
    BY <1>10 DEF new
  <2>9. {ec} \in SUBSET eq_classes /\ ec1s \cup ec2s = {ec} /\ new \in ClassType
    BY <1>10, <2>4
  <2>10. QED
    BY <1>8, <2>1, <2>4, <2>5, <2>6, <2>7, <2>8, <2>9
<1>11. ASSUME NEW ec \in ec1s, ec2s = {},
              eq_classes' = (eq_classes \ {ec}) \cup {AddSource(add_eq_member(ec, p[2]), src)}
       PROVE  MergeInv'
  <2>1. ec \in eq_classes /\ p[1] \in Members(ec) /\ p[2] \notin Members(ec) /\ ec1s \cup ec2s = {ec}
    BY <1>6, <1>7, <1>11
  <2>2. QED
    BY <1>3, <1>10, <1>11, <2>1
<1>12. ASSUME NEW ec \in ec2s, ec1s = {},
              eq_classes' = (eq_classes \ {ec}) \cup {AddSource(add_eq_member(ec, p[1]), src)}
       PROVE  MergeInv'
  <2>1. ec \in eq_classes /\ p[2] \in Members(ec) /\ p[1] \notin Members(ec) /\ ec1s \cup ec2s = {ec}
    BY <1>6, <1>7, <1>12
  <2>2. QED
    BY <1>3, <1>10, <1>12, <2>1
<1>13. ASSUME NEW ec \in ec1s \cap ec2s, eq_classes' = (eq_classes \ {ec}) \cup {AddSource(ec, src)}
       PROVE  MergeInv'
  <2>1. ec \in eq_classes /\ {p[1], p[2]} \subseteq Members(ec) /\ ec1s \cup ec2s = {ec}
    BY <1>6, <1>7, <1>13
  <2>2. /\ ec \in ClassType /\ IsInjective(ec.members) /\ (ec.has_const <=> \E x \in Members(ec) : IsConst(x))
        /\ ~ec.broken /\ \A s \in ec.sources : s.required = clause_relids(s)
    BY <1>2, <1>5, <2>1 DEF RightClass
  <2>3. /\ Members(ec) = {p[1], p[2]} \cup UNION {Members(g) : g \in {ec}}
        /\ Sides(ec.sources) = UNION {Sides(g.sources) : g \in {ec}}
    BY <2>1
  <2>4. QED
    BY <1>8, <1>13, <2>1, <2>2, <2>3
<1>14. ASSUME NEW ec1 \in ec1s, NEW ec2 \in ec2s, ec1 # ec2,
              eq_classes' = (eq_classes \ {ec1, ec2}) \cup {AddSource(Merged(ec1, ec2), src)}
       PROVE  MergeInv'
  <2> DEFINE new == Merged(ec1, ec2)
  <2>1. ec1 \in eq_classes /\ ec2 \in eq_classes /\ p[1] \in Members(ec1) /\ p[2] \in Members(ec2)
    BY <1>7
  <2>2. ec1s \cup ec2s = {ec1, ec2} /\ Members(ec1) \cap Members(ec2) = {}
    BY <1>6, <1>7, <1>14, <2>1
  <2>3. /\ ec1 \in ClassType /\ IsInjective(ec1.members) /\ (ec1.has_const <=> \E x \in Members(ec1) : IsConst(x))
        /\ ec2 \in ClassType /\ IsInjective(ec2.members) /\ (ec2.has_const <=> \E x \in Members(ec2) : IsConst(x))
        /\ ~ec1.broken /\ \A s \in ec1.sources \cup ec2.sources : s.required = clause_relids(s)
    BY <1>2, <1>5, <2>1 DEF RightClass
  <2>4. /\ ec1.members \in Seq(Exprs) /\ ec1.has_const \in BOOLEAN
        /\ ec2.members \in Seq(Exprs) /\ ec2.has_const \in BOOLEAN
    BY <2>3 DEF ClassType
  <2>5. /\ ec1.members \o ec2.members \in Seq(Exprs) /\ IsInjective(ec1.members \o ec2.members)
        /\ ToSet(ec1.members \o ec2.members) = Members(ec1) \cup Members(ec2)
    BY <2>2, <2>3, <2>4, ConcatMembers DEF Members
  <2>6. /\ new.members = ec1.members \o ec2.members /\ new.sources = ec1.sources \cup ec2.sources
        /\ new.has_const = (ec1.has_const \/ ec2.has_const) /\ ~new.broken /\ new \in ClassType
    BY <2>3, <2>4, <2>5 DEF Merged, ClassType
  <2> HIDE DEF new
  <2>7. Members(new) = Members(ec1) \cup Members(ec2) /\ IsInjective(new.members)
    BY <2>5, <2>6 DEF Members
  <2>8. new.has_const <=> \E x \in Members(new) : IsConst(x)
    BY <2>3, <2>6, <2>7
  <2>9. Members(new) = {p[1], p[2]} \cup UNION {Members(g) : g \in {ec1, ec2}}
    BY <2>1, <2>7
  <2>10. Sides(new.sources) = UNION {Sides(g.sources) : g \in {ec1, ec2}}
    <3>1. Sides(new.sources) = Sides(ec1.sources) \cup Sides(ec2.sources)
      BY <2>6, Zenon DEF Sides
    <3>2. QED
      BY <3>1
  <2>11. eq_classes' = (eq_classes \ {ec1, ec2}) \cup {AddSource(new, src)}
    BY <1>14 DEF new
  <2>12. QED
    BY <1>8, <2>1, <2>2, <2>3, <2>6, <2>7, <2>8, <2>9, <2>10, <2>11
<1>15. QED
  BY <1>9, <1>11, <1>12, <1>13, <1>14, Zenon DEF process_equivalence, src, ec1s, ec2s

------------------------------------------------------------------------------
(* Positions *)

LEMMA LeastPosition ==
  ASSUME NEW S \in SUBSET Nat, S # {}
  PROVE  \E i \in Firsts(S) : i \in S
<1> DEFINE R == OpToRel(<, Nat)
<1>1. PICK i \in S : \A k \in S : <<k, i>> \notin R
  BY NatLessThanWellFounded, WFMin
<1>2. \A k \in S : i <= k
  <2>1. \A k \in S : ~(k < i)
    BY <1>1 DEF OpToRel
  <2>2. QED
    BY <2>1
<1>3. QED
  BY <1>2 DEF Firsts

LEMMA GreatestPosition ==
  ASSUME NEW n \in Nat, NEW S \in SUBSET (1..n), S # {}
  PROVE  \E i \in Lasts(S) : i \in S
<1> DEFINE R == {k \in Nat : n - k \in S}
<1>1. R # {}
  <2>1. PICK i \in S : TRUE
    OBVIOUS
  <2>2. n - i \in Nat /\ n - (n - i) = i
    BY <2>1
  <2>3. n - i \in R
    BY <2>1, <2>2
  <2>4. QED
    BY <2>3
<1>2. PICK k \in R : k \in Firsts(R)
  <2>1. R \in SUBSET Nat
    OBVIOUS
  <2>2. QED
    BY <1>1, <2>1, LeastPosition
<1>3. k \in Nat /\ n - k \in S /\ \A j \in R : k <= j
  BY <1>2 DEF Firsts
<1>4. ASSUME NEW i \in S PROVE i <= n - k
  <2>1. n - i \in Nat /\ n - (n - i) = i /\ i \in Nat
    OBVIOUS
  <2>2. n - i \in R
    BY <2>1
  <2>3. k <= n - i
    BY <1>3, <2>2
  <2>4. QED
    BY <1>3, <2>1, <2>3
<1>5. QED
  BY <1>3, <1>4 DEF Lasts

LEMMA MemberPositions ==
  ASSUME NEW ec \in ClassType
  PROVE  /\ Len(ec.members) \in Nat /\ DOMAIN ec.members = 1..Len(ec.members)
         /\ \A i \in DOMAIN ec.members : ec.members[i] \in Exprs /\ ec.members[i] \in Members(ec)
         /\ \A e \in Members(ec) : e \in Exprs /\ \E i \in DOMAIN ec.members : ec.members[i] = e
<1>1. ec.members \in Seq(Exprs)
  BY DEF ClassType
<1>2. /\ Len(ec.members) \in Nat /\ DOMAIN ec.members = 1..Len(ec.members)
      /\ \A i \in DOMAIN ec.members : ec.members[i] \in Exprs
  BY <1>1, LenProperties, ElementOfSeq
<1>3. QED
  BY <1>2 DEF Members, ToSet

\* The pairs made for a class with a constant: each other position with that of the constant.
LEMMA ConstPairsAre ==
  ASSUME NEW ec \in ClassType, \E e \in Members(ec) : IsConst(e)
  PROVE  \E const \in DOMAIN ec.members :
           /\ IsConst(ec.members[const]) /\ DOMAIN ConstPairs(ec) = DOMAIN ec.members \ {const}
           /\ \A i \in DOMAIN ec.members \ {const} : ConstPairs(ec)[i] = <<ec.members[i], ec.members[const]>>
<1> DEFINE consts == {i \in DOMAIN ec.members : IsConst(ec.members[i])}
           const == CHOOSE i \in Firsts(consts) : TRUE
<1>1. consts \in SUBSET Nat /\ consts # {}
  BY MemberPositions
<1>2. Firsts(consts) # {}
  BY <1>1, LeastPosition
<1>3. const \in Firsts(consts)
  BY <1>2
<1>4. const \in DOMAIN ec.members /\ IsConst(ec.members[const])
  BY <1>3 DEF Firsts
<1>5. ConstPairs(ec) = [i \in DOMAIN ec.members \ {const} |-> <<ec.members[i], ec.members[const]>>]
  BY DEF ConstPairs
<1> HIDE DEF const
<1>6. QED
  BY <1>4, <1>5

\* Those made for a class without: each position with the last one before it of its relation.
Before(ec, i) == {j \in DOMAIN ec.members : j < i /\ relids[ec.members[j]] = relids[ec.members[i]]}
LEMMA NoConstPairsAre ==
  ASSUME NEW ec \in ClassType
  PROVE  /\ DOMAIN NoConstPairs(ec) =
              {i \in DOMAIN ec.members : Cardinality(relids[ec.members[i]]) = 1 /\ Before(ec, i) # {}}
         /\ \A i \in DOMAIN NoConstPairs(ec) :
              \E j \in Lasts(Before(ec, i)) : NoConstPairs(ec)[i] = <<ec.members[j], ec.members[i]>>
<1> DEFINE later == {i \in DOMAIN ec.members : Cardinality(relids[ec.members[i]]) = 1 /\ Before(ec, i) # {}}
           last(i) == CHOOSE j \in Lasts(Before(ec, i)) : TRUE
<1>1. NoConstPairs(ec) = [i \in later |-> <<ec.members[last(i)], ec.members[i]>>]
  BY DEF NoConstPairs, Before
<1>2. ASSUME NEW i \in later PROVE last(i) \in Lasts(Before(ec, i))
  <2>1. Before(ec, i) \in SUBSET (1..Len(ec.members)) /\ Before(ec, i) # {} /\ Len(ec.members) \in Nat
    BY MemberPositions DEF Before
  <2>2. Lasts(Before(ec, i)) # {}
    BY <2>1, GreatestPosition
  <2>3. QED
    BY <2>2
<1> HIDE DEF last
<1>3. QED
  BY <1>1, <1>2

LEMMA PairsOfMembers ==
  ASSUME NEW ec \in ClassType, ec.has_const <=> \E e \in Members(ec) : IsConst(e)
  PROVE  LET pairs == IF ec.has_const THEN ConstPairs(ec) ELSE NoConstPairs(ec)
         IN \A i \in DOMAIN pairs : pairs[i][1] \in Members(ec) /\ pairs[i][2] \in Members(ec)
<1>1. CASE ec.has_const
  <2>1. PICK const \in DOMAIN ec.members :
          /\ DOMAIN ConstPairs(ec) = DOMAIN ec.members \ {const}
          /\ \A i \in DOMAIN ec.members \ {const} : ConstPairs(ec)[i] = <<ec.members[i], ec.members[const]>>
    BY <1>1, ConstPairsAre
  <2>2. QED
    BY <1>1, <2>1, MemberPositions
<1>2. CASE ~ec.has_const
  <2>1. ASSUME NEW i \in DOMAIN NoConstPairs(ec)
        PROVE  NoConstPairs(ec)[i][1] \in Members(ec) /\ NoConstPairs(ec)[i][2] \in Members(ec)
    <3>1. PICK j \in Lasts(Before(ec, i)) : NoConstPairs(ec)[i] = <<ec.members[j], ec.members[i]>>
      BY NoConstPairsAre
    <3>2. i \in DOMAIN ec.members /\ j \in DOMAIN ec.members
      BY <3>1, NoConstPairsAre DEF Lasts, Before
    <3>3. QED
      BY <3>1, <3>2, MemberPositions
  <2>2. QED
    BY <1>2, <2>1
<1>3. QED
  BY <1>1, <1>2

------------------------------------------------------------------------------
(* What becomes of the classes afterwards *)

\* What joins and relations do to a class leaves all but broken alone, which is never reset.
Alike(new, old) ==
  /\ new \in ClassType /\ new.members = old.members /\ new.sources = old.sources
  /\ new.has_const = old.has_const /\ (old.broken => new.broken)
Aged(new, old) ==
  \E f \in [old -> ClassType] : new = {f[ec] : ec \in old} /\ \A ec \in old : Alike(f[ec], ec)

LEMMA BrokenSet ==
  ASSUME NEW ec \in ClassType, NEW b \in BOOLEAN, ec.broken => b
  PROVE  Alike([ec EXCEPT !.broken = b], ec)
BY DEF Alike, ClassType

LEMMA AgedBy ==
  ASSUME NEW old \in SUBSET ClassType, NEW f, \A ec \in old : Alike(f[ec], ec),
         NEW new, new = {f[ec] : ec \in old}
  PROVE  Aged(new, old)
<1> DEFINE g == [ec \in old |-> f[ec]]
<1>1. \A ec \in old : g[ec] = f[ec] /\ f[ec] \in ClassType
  BY DEF Alike
<1>2. g \in [old -> ClassType]
  BY <1>1
<1>3. new = {g[ec] : ec \in old}
  BY <1>1
<1> HIDE DEF g
<1>4. QED
  BY <1>1, <1>2, <1>3 DEF Aged

LEMMA AgedSame ==
  ASSUME NEW old \in SUBSET ClassType
  PROVE  Aged(old, old)
<1> DEFINE f == [ec \in old |-> ec]
<1>1. \A ec \in old : f[ec] = ec /\ Alike(f[ec], ec)
  BY DEF Alike
<1>2. {f[ec] : ec \in old} = old
  BY <1>1
<1> HIDE DEF f
<1>3. QED
  BY <1>1, <1>2, AgedBy

LEMMA AgedOn ==
  ASSUME NEW old \in SUBSET ClassType, NEW mid, NEW new, Aged(mid, old), Aged(new, mid)
  PROVE  Aged(new, old)
<1>1. PICK f \in [old -> ClassType] : mid = {f[ec] : ec \in old} /\ \A ec \in old : Alike(f[ec], ec)
  BY DEF Aged
<1>2. PICK g \in [mid -> ClassType] : new = {g[ec] : ec \in mid} /\ \A ec \in mid : Alike(g[ec], ec)
  BY DEF Aged
<1> DEFINE h == [ec \in old |-> g[f[ec]]]
<1>3. \A ec \in old : h[ec] = g[f[ec]] /\ f[ec] \in mid
  BY <1>1
<1>4. \A ec \in old : Alike(h[ec], ec)
  BY <1>1, <1>2, <1>3 DEF Alike
<1>5. new = {h[ec] : ec \in old}
  BY <1>1, <1>2, <1>3
<1> HIDE DEF h
<1>6. QED
  BY <1>4, <1>5, AgedBy

LEMMA AgedClasses ==
  ASSUME NEW old \in SUBSET ClassType, NEW new, Aged(new, old)
  PROVE  /\ new \subseteq ClassType
         /\ \A n \in new : \E o \in old : Alike(n, o)
         /\ \A o \in old : \E n \in new : Alike(n, o)
BY DEF Aged

LEMMA BaseBroken ==
  ASSUME NEW ec
  PROVE  BaseClauses(ec).broken \in BOOLEAN
<1> DEFINE pairs == IF ec.has_const THEN ConstPairs(ec) ELSE NoConstPairs(ec)
           done == Links(pairs)
           short == done # DOMAIN pairs
           alone == ec.has_const /\ Len(ec.members) = 2 /\ Cardinality(ec.sources) = 1
                      /\ \A s \in ec.sources : ~Multiple(s.required)
           implied == {Implied(pairs[i][1], pairs[i][2]) : i \in done}
<1>1. short \in BOOLEAN
  OBVIOUS
<1>2. BaseClauses(ec) = IF alone THEN [broken |-> FALSE, clauses |-> ec.sources]
                        ELSE [broken |-> short, clauses |-> implied]
  BY DEF BaseClauses
<1> HIDE DEF short, alone, implied
<1>3. CASE alone
  BY <1>2, <1>3
<1>4. CASE ~alone
  BY <1>1, <1>2, <1>4
<1>5. QED
  BY <1>3, <1>4

LEMMA NormalBroken ==
  ASSUME NEW ec, NEW join, NEW outer, NEW inner
  PROVE  JoinNormal(ec, join, outer, inner).broken \in BOOLEAN
BY DEF JoinNormal

LEMMA TriedAlike ==
  ASSUME NEW ec \in ClassType, NEW join, NEW outer, NEW inner
  PROVE  Alike(Tried(ec, join, outer, inner), ec)
<1> DEFINE now == JoinNormal(ec, join, outer, inner).broken
<1>1. now \in BOOLEAN /\ ec.broken \in BOOLEAN
  BY NormalBroken DEF ClassType
<1>2. Tried(ec, join, outer, inner) = [ec EXCEPT !.broken = ec.broken \/ now]
  BY DEF Tried
<1> HIDE DEF now
<1>3. QED
  BY <1>1, <1>2, BrokenSet

LEMMA AfterJoinAges ==
  ASSUME NEW ecs \in SUBSET ClassType, NEW join, NEW outer, NEW inner
  PROVE  Aged(AfterJoin(ecs, join, outer, inner), ecs)
<1> DEFINE f == [ec \in ecs |-> IF Concerned(ec, outer, inner) THEN Tried(ec, join, outer, inner) ELSE ec]
<1>1. \A ec \in ecs : Alike(f[ec], ec)
  BY TriedAlike DEF Alike
<1>2. AfterJoin(ecs, join, outer, inner) = {f[ec] : ec \in ecs}
  BY DEF AfterJoin
<1> HIDE DEF f
<1>3. QED
  BY <1>1, <1>2, AgedBy

LEMMA AfterParamAges ==
  ASSUME NEW ecs \in SUBSET ClassType, NEW outer, NEW inner, NEW req
  PROVE  Aged(AfterParam(ecs, outer, inner, req), ecs)
<1> DEFINE joinrel == outer.rel \cup inner.rel
           asked == AfterJoin(ecs, joinrel \cup req, req, joinrel)
           f == [ec \in asked |-> IF ec \in dropped_ecs(asked, outer, inner, req)
                                  THEN Tried(ec, outer.rel \cup req, req, outer.rel) ELSE ec]
<1>1. Aged(asked, ecs)
  BY AfterJoinAges
<1>2. asked \in SUBSET ClassType
  BY <1>1, AgedClasses
<1>3. AfterParam(ecs, outer, inner, req) = IF req = {} THEN ecs ELSE {f[ec] : ec \in asked}
  BY DEF AfterParam
<1> HIDE DEF asked
<1>4. \A ec \in asked : Alike(f[ec], ec)
  BY <1>2, TriedAlike DEF Alike
<1> DEFINE new == {f[ec] : ec \in asked}
<1>5. new = {f[ec] : ec \in asked}
  OBVIOUS
<1> HIDE DEF f, new
<1>6. Aged(new, asked)
  BY <1>2, <1>4, <1>5, AgedBy
<1>7. Aged(new, ecs)
  BY <1>1, <1>2, <1>6, AgedOn
<1>8. QED
  BY <1>3, <1>5, <1>7, AgedSame

\* Classes that have only been tried are the components they were.
LEMMA AgedKeepsMerging ==
  ASSUME MergeInv, Aged(eq_classes', eq_classes), UNCHANGED <<query, todo>>
  PROVE  Merging' /\ eq_classes' \subseteq ClassType
<1>1. PICK f \in [eq_classes -> ClassType] :
        eq_classes' = {f[ec] : ec \in eq_classes} /\ \A ec \in eq_classes : Alike(f[ec], ec)
  BY DEF Aged
<1>2. eq_classes \subseteq ClassType
  BY DEF MergeInv, ClassesWellFormed
<1>3. \A ec \in eq_classes : Members(f[ec]) = Members(ec)
  BY <1>1 DEF Alike, Members
<1>4. Done' = Done
  BY DEF Done
<1>5. Apart'
  <2>1. ASSUME NEW n1 \in eq_classes', NEW n2 \in eq_classes', Members(n1) \cap Members(n2) # {}
        PROVE  n1 = n2
    <3>1. PICK o1 \in eq_classes, o2 \in eq_classes : n1 = f[o1] /\ n2 = f[o2]
      BY <1>1
    <3>2. Members(o1) \cap Members(o2) # {}
      BY <1>3, <2>1, <3>1
    <3>3. o1 = o2
      BY <3>2 DEF MergeInv, Merging, Apart
    <3>4. QED
      BY <3>1, <3>3
  <2>2. QED
    BY <2>1 DEF Apart, Members
<1>6. Covered'
  <2>1. ASSUME NEW p \in Done PROVE \E ec \in eq_classes' : {p[1], p[2]} \subseteq Members(ec)
    <3>1. PICK ec \in eq_classes : {p[1], p[2]} \subseteq Members(ec)
      BY DEF MergeInv, Merging, Covered
    <3>2. f[ec] \in eq_classes' /\ {p[1], p[2]} \subseteq Members(f[ec])
      BY <1>1, <1>3, <3>1
    <3>3. QED
      BY <3>2
  <2>2. QED
    BY <1>4, <2>1 DEF Covered, Members
<1>7. ASSUME NEW n \in eq_classes'
      PROVE  /\ \A e \in Members(n) : \E p \in Done : e \in {p[1], p[2]}
             /\ \A a, b \in Members(n) : Linked(Done, a, b)
             /\ IsInjective(n.members)
             /\ n.has_const <=> \E e \in Members(n) : IsConst(e)
             /\ Sides(n.sources) = {p \in Done : p[1] \in Members(n)}
             /\ \A s \in n.sources : s.required = clause_relids(s)
  <2>1. PICK o \in eq_classes : n = f[o]
    BY <1>1
  <2>2. n.members = o.members /\ n.sources = o.sources /\ n.has_const = o.has_const /\ Members(n) = Members(o)
    BY <1>1, <1>3, <2>1 DEF Alike
  <2>3. RightClass(o)
    BY DEF MergeInv, Merging
  <2>4. QED
    BY <2>2, <2>3 DEF RightClass
<1>8. (\A n \in eq_classes' : RightClass(n)')
  BY <1>4, <1>7 DEF RightClass, Members
<1>9. eq_classes' \subseteq ClassType
  BY <1>1
<1>10. QED
  BY <1>5, <1>6, <1>8, <1>9 DEF Merging

\* A source of a class is a clause of the query between two of its members.
LEMMA SourceOfQuery ==
  ASSUME MergeInv, NEW ec \in eq_classes, NEW s \in ec.sources
  PROVE  /\ <<s.left, s.right>> \in Done /\ {s.left, s.right} \subseteq Members(ec)
         /\ s.required = clause_relids(s) /\ clause_relids(s) # {}
<1> DEFINE p == <<s.left, s.right>>
<1>1. RightClass(ec) /\ query \in Queries
  BY DEF MergeInv, Merging, ClassesWellFormed
<1>2. p \in Sides(ec.sources)
  BY DEF Sides
<1>3. p \in Done /\ p[1] \in Members(ec) /\ s.required = clause_relids(s)
  BY <1>1, <1>2 DEF RightClass
<1>4. PICK other \in eq_classes : {p[1], p[2]} \subseteq Members(other)
  BY <1>3 DEF MergeInv, Merging, Covered
<1>5. other = ec
  BY <1>3, <1>4 DEF MergeInv, Merging, Apart
<1>6. relids[p[1]] \cup relids[p[2]] # {}
  BY <1>1, <1>3, QueriesAssumption DEF Done
<1>7. QED
  BY <1>3, <1>4, <1>5, <1>6 DEF clause_relids

\* What a class gives to the relations is a clause between two of its members.
LEMMA BaseQualsOfClass ==
  ASSUME MergeInv, NEW ec \in eq_classes, NEW c \in BaseQuals(ec)
  PROVE  {c.left, c.right} \subseteq Members(ec) /\ Anchored(c)
<1> DEFINE pairs == IF ec.has_const THEN ConstPairs(ec) ELSE NoConstPairs(ec)
<1>1. ec \in ClassType /\ (ec.has_const <=> \E e \in Members(ec) : IsConst(e))
  BY DEF MergeInv, ClassesWellFormed, Merging, RightClass
<1>2. CASE c \in ec.sources
  BY <1>2, SourceOfQuery DEF Anchored
<1>3. ASSUME NEW i \in DOMAIN pairs, c = Implied(pairs[i][1], pairs[i][2])
      PROVE  {c.left, c.right} \subseteq Members(ec) /\ Anchored(c)
  <2>1. pairs[i][1] \in Members(ec) /\ pairs[i][2] \in Members(ec)
    BY <1>1, <1>3, PairsOfMembers
  <2>2. ASSUME NEW a, NEW b, c = Implied(a, b) PROVE c.left = a /\ c.right = b /\ Anchored(c)
    BY <2>2 DEF Implied, Clause, IsConst, Anchored, clause_relids
  <2>3. QED
    BY <1>3, <2>1, <2>2
<1>4. c \in ec.sources \/ \E i \in DOMAIN pairs : c = Implied(pairs[i][1], pairs[i][2])
  <2>1. Links(pairs) \subseteq DOMAIN pairs
    BY DEF Links
  <2>2. CASE c \in BaseClauses(ec).clauses
    <3>1. c \in ec.sources \/ c \in {Implied(pairs[i][1], pairs[i][2]) : i \in Links(pairs)}
      BY <2>2 DEF BaseClauses
    <3>2. QED
      BY <2>1, <3>1
  <2>3. CASE c \in Regurgitated(ec)
    BY <2>3 DEF Regurgitated
  <2>4. QED
    BY <2>2, <2>3 DEF BaseQuals
<1>5. QED
  BY <1>2, <1>3, <1>4

LEMMA BaseKeepsMerging ==
  ASSUME MergeInv, generate_base_implied_equalities
  PROVE  MergeInv'
<1>1. /\ eq_classes' = {[ec EXCEPT !.broken = BaseClauses(ec).broken] : ec \in eq_classes}
      /\ quals' = quals \cup UNION {BaseQuals(ec) : ec \in eq_classes}
      /\ ec_merging_done' = TRUE /\ query' = query /\ todo' = todo
      /\ quals = {} /\ \A ec \in eq_classes : ~ec.broken
      /\ eq_classes \subseteq ClassType
  BY DEF generate_base_implied_equalities, MergeInv, Unmerged, ClassesWellFormed
<1> DEFINE f == [ec \in eq_classes |-> [ec EXCEPT !.broken = BaseClauses(ec).broken]]
<1>2. \A ec \in eq_classes : Alike(f[ec], ec)
  BY <1>1, BaseBroken, BrokenSet
<1>3. eq_classes' = {f[ec] : ec \in eq_classes}
  BY <1>1
<1> HIDE DEF f
<1>4. ASSUME NEW new, new = {f[ec] : ec \in eq_classes} PROVE Aged(new, eq_classes)
  BY <1>1, <1>2, <1>4, AgedBy
<1>5. Merging' /\ eq_classes' \subseteq ClassType
  BY <1>1, <1>3, <1>4, AgedKeepsMerging
<1>6. ASSUME NEW c \in quals' PROVE Anchored(c) /\ \E ec \in eq_classes' : {c.left, c.right} \subseteq Members(ec)
  <2>1. PICK ec \in eq_classes : c \in BaseQuals(ec)
    BY <1>1
  <2>2. {c.left, c.right} \subseteq Members(ec) /\ Anchored(c)
    BY <2>1, BaseQualsOfClass
  <2>3. f[ec] \in eq_classes' /\ Members(f[ec]) = Members(ec)
    BY <1>2, <1>3 DEF Alike, Members
  <2>4. QED
    BY <2>2, <2>3
<1>7. QualsPlaced'
  BY <1>6 DEF QualsPlaced, Anchored, OfOneClass, Members, clause_relids
<1>8. QED
  BY <1>1, <1>5, <1>7 DEF MergeInv, ClassesWellFormed, Unmerged

LEMMA LaterKeepsMerging ==
  ASSUME MergeInv, ec_merging_done, Aged(eq_classes', eq_classes), UNCHANGED <<query, todo, quals, ec_merging_done>>
  PROVE  MergeInv'
<1>1. Merging' /\ eq_classes' \subseteq ClassType
  BY AgedKeepsMerging
<1>2. ASSUME NEW c \in quals PROVE \E ec \in eq_classes' : {c.left, c.right} \subseteq Members(ec)
  <2>1. PICK o \in eq_classes : {c.left, c.right} \subseteq Members(o)
    BY DEF MergeInv, QualsPlaced, OfOneClass
  <2>2. PICK n \in eq_classes' : Alike(n, o)
    BY AgedClasses DEF MergeInv, ClassesWellFormed
  <2>3. QED
    BY <2>1, <2>2 DEF Alike, Members
<1>3. QualsPlaced'
  BY <1>2 DEF MergeInv, QualsPlaced, OfOneClass, Members
<1>4. QED
  BY <1>1, <1>3 DEF MergeInv, ClassesWellFormed, Unmerged

------------------------------------------------------------------------------
(* What the classes give to a join *)

\* All that is used of a class: which constants it has, and that its sources are its own.
SoundClass(ec) ==
  /\ ec \in ClassType
  /\ ec.has_const <=> \E e \in Members(ec) : IsConst(e)
  /\ \A s \in ec.sources :
       {s.left, s.right} \subseteq Members(ec) /\ s.required = clause_relids(s) /\ clause_relids(s) # {}

LEMMA SoundClassesNow ==
  ASSUME MergeInv, NEW ecs, Aged(ecs, eq_classes), NEW ec \in ecs
  PROVE  SoundClass(ec) /\ \E o \in eq_classes : Members(o) = Members(ec)
<1>1. PICK o \in eq_classes : Alike(ec, o)
  BY AgedClasses DEF MergeInv, ClassesWellFormed
<1>2. o \in ClassType /\ (o.has_const <=> \E e \in Members(o) : IsConst(e))
  BY DEF MergeInv, ClassesWellFormed, Merging, RightClass
<1>3. \A s \in o.sources :
        {s.left, s.right} \subseteq Members(o) /\ s.required = clause_relids(s) /\ clause_relids(s) # {}
  BY SourceOfQuery
<1>4. QED
  BY <1>1, <1>2, <1>3 DEF Alike, SoundClass, Members

LEMMA CrossWithin ==
  ASSUME NEW members, NEW outer_members, NEW inner_members
  PROVE  \A p \in CrossPairs(members, outer_members, inner_members) :
           /\ p \in outer_members \X inner_members
           /\ select_equality_operator(members[p[1]], members[p[2]])
<1> DEFINE able == {p \in outer_members \X inner_members : select_equality_operator(members[p[1]], members[p[2]])}
<1>1. CrossPairs(members, outer_members, inner_members) \subseteq able
  BY DEF CrossPairs
<1>2. QED
  BY <1>1

\* A class without constants gives a join clauses between its members that neither side
\* could test.
LEMMA ClausesOfJoin ==
  ASSUME NEW ec, SoundClass(ec), ~ec.has_const, NEW outer, NEW inner, outer \cap inner = {},
         NEW c \in JoinClauses(ec, outer \cup inner, outer, inner)
  PROVE  /\ {c.left, c.right} \subseteq Members(ec)
         /\ clause_relids(c) \subseteq outer \cup inner
         /\ clause_relids(c) \cap outer # {} /\ clause_relids(c) \cap inner # {}
<1> DEFINE join == outer \cup inner
           Computable(rel) == {i \in DOMAIN ec.members : relids[ec.members[i]] \subseteq rel}
           outer_members == Computable(join) \cap Computable(outer)
           inner_members == (Computable(join) \cap Computable(inner)) \ outer_members
           new_members   == Computable(join) \ (outer_members \cup inner_members)
           cross == CrossPairs(ec.members, outer_members, inner_members)
           old == Firsts(IF outer_members # {} THEN outer_members ELSE inner_members)
           pairs == NewPairs(new_members, old)
           Made(p, derived) == Clause(ec.members[p[1]], ec.members[p[2]], derived)
<1>1. ec \in ClassType /\ \A i \in DOMAIN ec.members : ec.members[i] \in Members(ec) /\ relids[ec.members[i]] # {}
  BY MemberPositions DEF SoundClass, IsConst
<1>2. ASSUME NEW p, NEW derived, c = Made(p, derived), p[1] \in DOMAIN ec.members, p[2] \in DOMAIN ec.members
      PROVE  /\ {c.left, c.right} \subseteq Members(ec)
             /\ clause_relids(c) = relids[ec.members[p[1]]] \cup relids[ec.members[p[2]]]
  BY <1>1, <1>2 DEF Clause, clause_relids
<1>3. ASSUME NEW p \in cross, c = Made(p, TRUE)
      PROVE  /\ {c.left, c.right} \subseteq Members(ec)
             /\ clause_relids(c) \subseteq join
             /\ clause_relids(c) \cap outer # {} /\ clause_relids(c) \cap inner # {}
  <2>1. p[1] \in outer_members /\ p[2] \in inner_members
    <3>1. p \in outer_members \X inner_members
      BY <1>3, CrossWithin
    <3>2. QED
      BY <3>1
  <2>2. p[1] \in DOMAIN ec.members /\ p[2] \in DOMAIN ec.members
    BY <2>1
  <2>3. /\ relids[ec.members[p[1]]] \subseteq outer /\ relids[ec.members[p[2]]] \subseteq join
        /\ ~(relids[ec.members[p[2]]] \subseteq outer)
    BY <2>1
  <2>4. /\ {c.left, c.right} \subseteq Members(ec)
        /\ clause_relids(c) = relids[ec.members[p[1]]] \cup relids[ec.members[p[2]]]
    BY <1>2, <1>3, <2>2
  <2>5. relids[ec.members[p[1]]] # {}
    BY <1>1, <2>2
  <2>6. QED
    BY <2>3, <2>4, <2>5
<1>4. ASSUME NEW p \in pairs, c = Made(p, FALSE)
      PROVE  /\ {c.left, c.right} \subseteq Members(ec)
             /\ clause_relids(c) \subseteq join
             /\ clause_relids(c) \cap outer # {} /\ clause_relids(c) \cap inner # {}
  <2>1. p[1] \in new_members /\ p[2] \in Computable(join)
    <3>1. CASE p \in Chain(new_members)
      BY <3>1 DEF Chain
    <3>2. CASE p \in Lasts(new_members) \X old
      BY <3>2 DEF Lasts, Firsts
    <3>3. QED
      BY <1>4, <3>1, <3>2 DEF NewPairs
  <2>2. relids[ec.members[p[1]]] \cap outer # {} /\ relids[ec.members[p[1]]] \cap inner # {}
    BY <1>1, <2>1
  <2>3. QED
    BY <1>2, <1>4, <2>1, <2>2
<1>5. ASSUME c \in JoinBroken(ec, join, outer, inner)
      PROVE  /\ {c.left, c.right} \subseteq Members(ec)
             /\ clause_relids(c) \subseteq join
             /\ clause_relids(c) \cap outer # {} /\ clause_relids(c) \cap inner # {}
  BY <1>5 DEF JoinBroken, SoundClass
<1>6. \/ c \in JoinBroken(ec, join, outer, inner)
      \/ \E p \in cross : c = Made(p, TRUE)
      \/ \E p \in pairs : c = Made(p, FALSE)
  <2>1. c \in JoinBroken(ec, join, outer, inner) \/ c \in JoinNormal(ec, join, outer, inner).clauses
    BY DEF JoinClauses
  <2>2. JoinNormal(ec, join, outer, inner).clauses \subseteq {Made(p, TRUE) : p \in cross} \cup {Made(p, FALSE) : p \in pairs}
    BY DEF JoinNormal
  <2>3. QED
    BY <2>1, <2>2
<1>7. QED
  BY <1>3, <1>4, <1>5, <1>6

LEMMA GeneratedClauses ==
  ASSUME MergeInv, NEW ecs, Aged(ecs, eq_classes), NEW outer, NEW inner, outer \cap inner = {},
         NEW c \in generate_join_implied_equalities(ecs, outer \cup inner, outer, inner)
  PROVE  /\ OfOneClass(c)
         /\ clause_relids(c) \subseteq outer \cup inner
         /\ clause_relids(c) \cap outer # {} /\ clause_relids(c) \cap inner # {}
<1>1. PICK ec \in ecs : Concerned(ec, outer, inner) /\ c \in JoinClauses(ec, outer \cup inner, outer, inner)
  BY DEF generate_join_implied_equalities
<1>2. SoundClass(ec) /\ ~ec.has_const /\ \E o \in eq_classes : Members(o) = Members(ec)
  BY <1>1, SoundClassesNow DEF Concerned
<1>3. QED
  BY <1>1, <1>2, ClausesOfJoin DEF OfOneClass

------------------------------------------------------------------------------
(* Trees of joins *)

LEMMA OtherTyped ==
  ASSUME NEW c \in OtherClauses
  PROVE  c \in AllQuals /\ c.required = clause_relids(c) /\ c.required \subseteq Rels
BY OtherClausesAssumption DEF AllQuals

LEMMA TwoAreMultiple ==
  ASSUME NEW S, IsFiniteSet(S), NEW x \in S, NEW y \in S, x # y
  PROVE  Multiple(S)
<1>1. IsFiniteSet({x}) /\ Cardinality({x}) = 1
  BY FS_Singleton
<1>2. IsFiniteSet({x} \cup {y}) /\ Cardinality({x} \cup {y}) = Cardinality({x}) + 1
  BY <1>1, FS_AddElement
<1>3. Cardinality({x} \cup {y}) <= Cardinality(S) /\ Cardinality(S) \in Nat
  BY FS_Subset, FS_CardinalityType
<1>4. QED
  BY <1>1, <1>2, <1>3 DEF Multiple

LEMMA ScanKeepsForest ==
  ASSUME JoinInv, NEW r \in Rels \ scanned, NEW req \in SUBSET (Rels \ {r}), Scan(r, req)
  PROVE  Forest'
<1> DEFINE new == get_baserel_parampathinfo(eq_classes, r, req)
           path == [rel |-> {r}, req |-> req, joininfo |-> BaseJoininfo(r), twice |-> {}, given |-> req,
                    named |-> {}, lost |-> FALSE, ppi |-> IF req = {} THEN {} ELSE new,
                    text |-> get_single_rel(baserestrictinfo(r)),
                    enforced |-> baserestrictinfo(r) \cup IF req = {} THEN {} ELSE new]
<1>1. /\ forest' = forest \cup {path} /\ scanned' = scanned \cup {r}
      /\ ec_merging_done /\ ec_merging_done' = ec_merging_done
  BY DEF Scan
<1>2. /\ path.rel = {r} /\ path.req = req /\ path.joininfo = BaseJoininfo(r)
      /\ path.enforced = baserestrictinfo(r) \cup IF req = {} THEN {} ELSE new
  OBVIOUS
<1> HIDE DEF path
<1>3. ASSUME NEW c \in OtherClauses, c.required \subseteq {r} \cup req, c.required \cap {r} # {}
      PROVE  c \in path.enforced
  <2>1. CASE c.required = {r}
    BY <1>2, <2>1, OtherTyped DEF baserestrictinfo
  <2>2. CASE c.required # {r}
    <3>1. PICK q \in c.required : q # r
      BY <1>3, <2>2
    <3>2. Multiple(c.required)
      <4>1. IsFiniteSet(c.required)
        BY OtherTyped, ExprsAssumption, FS_Subset
      <4>2. QED
        BY <1>3, <3>1, <4>1, TwoAreMultiple
    <3>3. c \in BaseJoininfo(r)
      BY <1>3, <3>2, OtherTyped DEF BaseJoininfo
    <3>4. join_clause_is_movable_into(c, {r}, {r} \cup req)
      BY <1>3, OtherTyped DEF join_clause_is_movable_into
    <3>5. c \in new /\ req # {}
      BY <1>3, <2>2, <3>1, <3>3, <3>4 DEF get_baserel_parampathinfo
    <3>6. QED
      BY <1>2, <3>5
  <2>3. QED
    BY <2>1, <2>2
<1>4. ASSUME NEW c \in OtherClauses, c.required \cap {r} # {}, ~(c.required \subseteq {r})
      PROVE  c \in path.joininfo
  <2>1. PICK q \in c.required : q # r
    BY <1>4
  <2>2. IsFiniteSet(c.required)
    BY OtherTyped, ExprsAssumption, FS_Subset
  <2>3. Multiple(c.required)
    BY <1>4, <2>1, <2>2, TwoAreMultiple
  <2>4. QED
    BY <1>2, <1>4, <2>3, OtherTyped DEF BaseJoininfo
<1>5. path.rel \subseteq scanned' /\ RightPath(path)
  <2>1. path.rel \subseteq scanned' /\ path.req \subseteq Rels \ path.rel
    BY <1>1, <1>2
  <2>2. QED
    BY <1>2, <1>3, <1>4, <2>1 DEF RightPath, EnforcesOthers
<1>6. \A p \in forest : p.rel \cap path.rel = {}
  BY <1>2 DEF JoinInv, Forest
<1>7. \A p \in forest' : p.rel \subseteq scanned' /\ RightPath(p)
  BY <1>1, <1>5 DEF JoinInv, Forest
<1>8. \A p, q \in forest' : p = q \/ p.rel \cap q.rel = {}
  BY <1>1, <1>6 DEF JoinInv, Forest
<1>9. scanned' \subseteq Rels
  BY <1>1 DEF JoinInv, Forest
<1>10. QED
  BY <1>1, <1>7, <1>8, <1>9 DEF Forest

\* A clause the nested loop or the parameterised path leaves out is enforced by the side it
\* could be moved into.
LEMMA SideEnforces ==
  ASSUME NEW path, RightPath(path), NEW c \in OtherClauses, InSide(c, path)
  PROVE  c \in path.enforced
<1>1. c.required \subseteq and_req(path) /\ c.required \cap path.rel # {}
  BY OtherTyped DEF InSide, join_clause_is_movable_into
<1>2. c.required \subseteq path.rel \cup path.req
  BY <1>1 DEF and_req
<1>3. QED
  BY <1>1, <1>2 DEF RightPath, EnforcesOthers

LEMMA JoinKeepsForest ==
  ASSUME JoinInv, NEW outer \in forest, NEW inner \in forest, NEW nestloop \in BOOLEAN, NEW material \in BOOLEAN,
         Join(outer, inner, nestloop, material)
  PROVE  Forest'
<1> DEFINE joinrel == outer.rel \cup inner.rel
           req == IF nestloop THEN calc_nestloop_required_outer(outer, inner) ELSE outer.req \cup inner.req
           ecs == AfterJoin(eq_classes, joinrel, outer.rel, inner.rel)
           restrictlist == build_joinrel_restrictlist(eq_classes, outer, inner)
           clauses == IF nestloop THEN KeptByNestloop(restrictlist, outer, inner) ELSE restrictlist
           joinlist == build_joinrel_joinlist(joinrel, outer, inner)
           extra == get_joinrel_parampathinfo(ecs, joinlist, outer, inner, req)
<1>1. /\ scanned' = scanned /\ ec_merging_done' = ec_merging_done /\ outer # inner
      /\ IF nestloop THEN NestloopAllowed(outer, inner) ELSE NonNestloopAllowed(outer, inner)
  BY DEF Join
<1>2. PICK text : forest' = (forest \ {outer, inner}) \cup {Built(outer, inner, clauses, req, extra, material, text)}
  BY DEF Join
<1> DEFINE path == Built(outer, inner, clauses, req, extra, material, text)
<1>3. /\ path.rel = joinrel /\ path.req = req /\ path.joininfo = joinlist
      /\ path.enforced = outer.enforced \cup inner.enforced \cup clauses \cup extra
  BY DEF Built
<1>4. /\ RightPath(outer) /\ RightPath(inner) /\ outer.rel \subseteq scanned /\ inner.rel \subseteq scanned
      /\ outer.rel \cap inner.rel = {} /\ ec_merging_done
  BY <1>1 DEF JoinInv, Forest
<1> HIDE DEF path, extra, ecs
<1>5. req \subseteq Rels \ joinrel
  <2>1. outer.req \subseteq Rels \ outer.rel /\ inner.req \subseteq Rels \ inner.rel
    BY <1>4 DEF RightPath
  <2>2. outer.req \cap inner.rel = {} /\ (~nestloop => inner.req \cap outer.rel = {})
    BY <1>1 DEF NestloopAllowed, NonNestloopAllowed
  <2>3. QED
    BY <2>1, <2>2 DEF calc_nestloop_required_outer
\* A clause of the join is either tested by it or by the side that has been given the values.
<1>6. ASSUME NEW c \in OtherClauses, c.required \subseteq joinrel, c.required \cap joinrel # {}
      PROVE  c \in path.enforced
  <2>1. CASE c.required \subseteq outer.rel \/ c.required \subseteq inner.rel
    BY <1>3, <1>4, <1>6, <2>1 DEF RightPath, EnforcesOthers
  <2>2. CASE ~(c.required \subseteq outer.rel) /\ ~(c.required \subseteq inner.rel)
    <3>1. c \in outer.joininfo
      BY <1>4, <1>6, <2>2 DEF RightPath
    <3>2. c \in restrictlist
      BY <1>6, <3>1 DEF build_joinrel_restrictlist, subbuild_joinrel_restrictlist
    <3>3. CASE c \in clauses
      BY <1>3, <3>3
    <3>4. CASE c \notin clauses
      <4>1. InSide(c, inner)
        BY <3>2, <3>4 DEF KeptByNestloop
      <4>2. QED
        BY <1>3, <1>4, <4>1, SideEnforces
    <3>5. QED
      BY <3>3, <3>4
  <2>3. QED
    BY <2>1, <2>2
<1>7. ASSUME NEW c \in OtherClauses, c.required \cap joinrel # {}, ~(c.required \subseteq joinrel)
      PROVE  c \in joinlist
  <2>1. c \in outer.joininfo \cup inner.joininfo
    BY <1>4, <1>7 DEF RightPath
  <2>2. QED
    BY <1>7, <2>1 DEF build_joinrel_joinlist
\* One that needs a parameter is taken over from the joins above, or was by a side.
<1>8. ASSUME NEW c \in OtherClauses, c.required \subseteq joinrel \cup req, c.required \cap joinrel # {},
             ~(c.required \subseteq joinrel)
      PROVE  c \in path.enforced
  <2>1. CASE InSide(c, outer) \/ InSide(c, inner)
    BY <1>3, <1>4, <2>1, SideEnforces
  <2>2. CASE ~InSide(c, outer) /\ ~InSide(c, inner)
    <3>1. c \in joinlist /\ req # {}
      BY <1>7, <1>8
    <3>2. join_clause_is_movable_into(c, joinrel, joinrel \cup req)
      BY <1>8, OtherTyped DEF join_clause_is_movable_into
    <3>3. c \in extra
      BY <2>2, <3>1, <3>2 DEF extra, get_joinrel_parampathinfo
    <3>4. QED
      BY <1>3, <3>3
  <2>3. QED
    BY <2>1, <2>2
<1>9. RightPath(path) /\ path.rel \subseteq scanned
  BY <1>3, <1>4, <1>5, <1>6, <1>7, <1>8 DEF RightPath, EnforcesOthers
<1>10. forest' = (forest \ {outer, inner}) \cup {path}
  BY <1>2 DEF path
<1>11. \A p \in forest' : p.rel \subseteq scanned' /\ RightPath(p)
  BY <1>1, <1>9, <1>10 DEF JoinInv, Forest
<1>12. \A p \in forest \ {outer, inner} : p.rel \cap path.rel = {}
  BY <1>3 DEF JoinInv, Forest
<1>13. \A p, q \in forest' : p = q \/ p.rel \cap q.rel = {}
  BY <1>10, <1>12 DEF JoinInv, Forest
<1>14. QED
  BY <1>1, <1>4, <1>11, <1>13 DEF JoinInv, Forest

------------------------------------------------------------------------------
(* Where the clauses are tested *)

\* A path tests clauses that mention it and nothing but it and its parameters, those of two
\* constants at the top; it carries the clauses it shares with others to the joins above.
Carries(p) ==
  \A c \in p.joininfo :
    /\ Anchored(c) /\ (c \in OtherClauses \/ OfOneClass(c))
    /\ c.required \cap p.rel # {} /\ ~(c.required \subseteq p.rel)
Tests(p) ==
  \A c \in p.enforced :
    /\ clause_relids(c) \subseteq p.rel \cup p.req
    /\ (clause_relids(c) = {} /\ p.rel = Rels) \/ clause_relids(c) \cap p.rel # {}
    /\ c \in OtherClauses \/ OfOneClass(c)
PlacedPath(p) == p.rel # {} /\ p.twice = {} /\ Carries(p) /\ Tests(p)
Placement == \A p \in forest : PlacedPath(p)

LEMMA QualsAnchored ==
  ASSUME MergeInv, NEW c \in AllQuals, c.required # {}
  PROVE  Anchored(c) /\ (c \in OtherClauses \/ OfOneClass(c))
<1>1. CASE c \in OtherClauses
  BY <1>1, OtherTyped DEF Anchored
<1>2. CASE c \in quals
  BY <1>2 DEF MergeInv, QualsPlaced
<1>3. QED
  BY <1>1, <1>2 DEF AllQuals

LEMMA OneClassLater ==
  ASSUME MergeInv, Aged(eq_classes', eq_classes), NEW c, OfOneClass(c)
  PROVE  OfOneClass(c)'
<1>1. PICK o \in eq_classes : {c.left, c.right} \subseteq Members(o)
  BY DEF OfOneClass
<1>2. PICK n \in eq_classes' : Alike(n, o)
  BY AgedClasses DEF MergeInv, ClassesWellFormed
<1>3. QED
  BY <1>1, <1>2 DEF Alike, OfOneClass, Members

LEMMA PlacedLater ==
  ASSUME MergeInv, Aged(eq_classes', eq_classes), NEW p, PlacedPath(p)
  PROVE  PlacedPath(p)'
BY OneClassLater DEF PlacedPath, Carries, Tests, Anchored, clause_relids

LEMMA MultipleNotWithin ==
  ASSUME NEW r, NEW S, Multiple(S)
  PROVE  ~(S \subseteq {r})
<1>1. Cardinality({}) = 0 /\ Cardinality({r}) = 1
  BY FS_EmptySet, FS_Singleton
<1>2. S \subseteq {r} => S = {} \/ S = {r}
  OBVIOUS
<1>3. QED
  BY <1>1, <1>2 DEF Multiple

LEMMA ScanPlaces ==
  ASSUME JoinInv, Placement, NEW r \in Rels \ scanned, NEW req \in SUBSET (Rels \ {r}), Scan(r, req)
  PROVE  Placement'
<1> DEFINE new == get_baserel_parampathinfo(eq_classes, r, req)
           path == [rel |-> {r}, req |-> req, joininfo |-> BaseJoininfo(r), twice |-> {}, given |-> req,
                    named |-> {}, lost |-> FALSE, ppi |-> IF req = {} THEN {} ELSE new,
                    text |-> get_single_rel(baserestrictinfo(r)),
                    enforced |-> baserestrictinfo(r) \cup IF req = {} THEN {} ELSE new]
<1>1. /\ forest' = forest \cup {path}
      /\ eq_classes' = IF req = {} THEN eq_classes ELSE AfterJoin(eq_classes, {r} \cup req, req, {r})
      /\ MergeInv /\ eq_classes \subseteq ClassType
  BY DEF Scan, JoinInv, MergeInv, ClassesWellFormed
<1>2. /\ path.rel = {r} /\ path.req = req /\ path.joininfo = BaseJoininfo(r) /\ path.twice = {}
      /\ path.enforced = baserestrictinfo(r) \cup IF req = {} THEN {} ELSE new
  OBVIOUS
<1> HIDE DEF path
<1>3. Aged(eq_classes', eq_classes) /\ Aged(eq_classes, eq_classes)
  BY <1>1, AfterJoinAges, AgedSame
<1>4. ASSUME NEW c \in BaseJoininfo(r)
      PROVE  /\ Anchored(c) /\ (c \in OtherClauses \/ OfOneClass(c))
             /\ c.required \cap {r} # {} /\ ~(c.required \subseteq {r})
  <2>1. c \in AllQuals /\ r \in c.required /\ Multiple(c.required)
    BY DEF BaseJoininfo
  <2>2. QED
    BY <1>1, <2>1, QualsAnchored, MultipleNotWithin
<1>5. Carries(path)
  BY <1>2, <1>4 DEF Carries
<1>6. ASSUME NEW c \in path.enforced
      PROVE  /\ clause_relids(c) \subseteq {r} \cup req
             /\ (clause_relids(c) = {} /\ {r} = Rels) \/ clause_relids(c) \cap {r} # {}
             /\ c \in OtherClauses \/ OfOneClass(c)
  <2>1. CASE c \in baserestrictinfo(r)
    <3>1. c \in AllQuals /\ c.required = {r}
      BY <2>1 DEF baserestrictinfo
    <3>2. QED
      BY <1>1, <3>1, QualsAnchored DEF Anchored
  <2>2. CASE c \in BaseJoininfo(r) /\ join_clause_is_movable_into(c, {r}, {r} \cup req)
    BY <1>4, <2>2 DEF join_clause_is_movable_into
  <2>3. CASE c \in generate_join_implied_equalities(eq_classes, {r} \cup req, req, {r})
    <3>1. {r} \cup req = req \cup {r} /\ req \cap {r} = {}
      OBVIOUS
    <3>2. OfOneClass(c) /\ clause_relids(c) \subseteq req \cup {r} /\ clause_relids(c) \cap {r} # {}
      BY <1>1, <1>3, <2>3, <3>1, GeneratedClauses
    <3>3. QED
      BY <3>2
  <2>4. QED
    BY <1>2, <1>6, <2>1, <2>2, <2>3 DEF get_baserel_parampathinfo
<1>7. PlacedPath(path)
  BY <1>2, <1>5, <1>6 DEF PlacedPath, Tests
<1>8. \A p \in forest' : PlacedPath(p)
  BY <1>1, <1>7 DEF Placement
<1>9. \A p \in forest' : PlacedPath(p)'
  BY <1>1, <1>3, <1>8, PlacedLater
<1>10. QED
  BY <1>9 DEF Placement

\* A path with parameters tests what could be moved into it.
LEMMA InSideOf ==
  ASSUME NEW p, NEW c, clause_relids(c) \subseteq p.rel \cup p.req, clause_relids(c) \cap p.rel # {},
         ~(clause_relids(c) \subseteq p.rel)
  PROVE  InSide(c, p)
<1>1. p.req # {}
  OBVIOUS
<1>2. QED
  BY <1>1 DEF InSide, and_req, join_clause_is_movable_into

LEMMA JoinRequires ==
  ASSUME NEW outer, NEW inner, NEW nestloop \in BOOLEAN,
         outer.rel \subseteq Rels, inner.rel \subseteq Rels,
         outer.req \subseteq Rels \ outer.rel, inner.req \subseteq Rels \ inner.rel,
         IF nestloop THEN NestloopAllowed(outer, inner) ELSE NonNestloopAllowed(outer, inner)
  PROVE  LET joinrel == outer.rel \cup inner.rel
             req == IF nestloop THEN calc_nestloop_required_outer(outer, inner) ELSE outer.req \cup inner.req
         IN /\ req \subseteq Rels \ joinrel /\ outer.req \subseteq req /\ inner.req \subseteq outer.rel \cup req
            /\ outer.req \cap inner.rel = {} /\ (~nestloop => inner.req \cap outer.rel = {})
BY DEF NestloopAllowed, NonNestloopAllowed, calc_nestloop_required_outer

LEMMA JoinPlaces ==
  ASSUME JoinInv, Placement, NEW outer \in forest, NEW inner \in forest, NEW nestloop \in BOOLEAN,
         NEW material \in BOOLEAN, Join(outer, inner, nestloop, material)
  PROVE  Placement'
<1> DEFINE joinrel == outer.rel \cup inner.rel
           req == IF nestloop THEN calc_nestloop_required_outer(outer, inner) ELSE outer.req \cup inner.req
           ecs == AfterJoin(eq_classes, joinrel, outer.rel, inner.rel)
           restrictlist == build_joinrel_restrictlist(eq_classes, outer, inner)
           clauses == IF nestloop THEN KeptByNestloop(restrictlist, outer, inner) ELSE restrictlist
           joinlist == build_joinrel_joinlist(joinrel, outer, inner)
           extra == get_joinrel_parampathinfo(ecs, joinlist, outer, inner, req)
           Own(c) == c \in OtherClauses \/ OfOneClass(c)
<1>1. /\ outer # inner /\ eq_classes' = AfterParam(ecs, outer, inner, req)
      /\ IF nestloop THEN NestloopAllowed(outer, inner) ELSE NonNestloopAllowed(outer, inner)
  BY DEF Join
<1>2. PICK text : forest' = (forest \ {outer, inner}) \cup {Built(outer, inner, clauses, req, extra, material, text)}
  BY DEF Join
<1> DEFINE path == Built(outer, inner, clauses, req, extra, material, text)
<1>3. /\ path.rel = joinrel /\ path.req = req /\ path.joininfo = joinlist
      /\ path.enforced = outer.enforced \cup inner.enforced \cup clauses \cup extra
      /\ path.twice = outer.twice \cup inner.twice \cup (outer.enforced \cap inner.enforced)
               \cup ((clauses \cup extra) \cap (outer.enforced \cup inner.enforced))
               \cup (clauses \cap extra)
  BY DEF Built
<1>4. forest' = (forest \ {outer, inner}) \cup {path}
  BY <1>2
<1>5. /\ MergeInv /\ eq_classes \subseteq ClassType /\ PlacedPath(outer) /\ PlacedPath(inner)
      /\ outer.rel \subseteq Rels /\ inner.rel \subseteq Rels
      /\ outer.req \subseteq Rels \ outer.rel /\ inner.req \subseteq Rels \ inner.rel
      /\ outer.rel \cap inner.rel = {}
  BY <1>1 DEF JoinInv, Forest, RightPath, Placement, MergeInv, ClassesWellFormed
<1>6. /\ req \subseteq Rels \ joinrel /\ outer.req \subseteq req /\ inner.req \subseteq outer.rel \cup req
      /\ outer.req \cap inner.rel = {} /\ (~nestloop => inner.req \cap outer.rel = {})
  BY <1>1, <1>5, JoinRequires
<1>7. Aged(eq_classes, eq_classes) /\ Aged(ecs, eq_classes)
  BY <1>5, AfterJoinAges, AgedSame
<1>8. Aged(eq_classes', eq_classes)
  BY <1>1, <1>5, <1>7, AgedClasses, AfterParamAges, AgedOn
<1> HIDE DEF path, ecs, req
\* The clauses of the join are of both sides, or of two constants at the top.
<1>9. ASSUME NEW c \in restrictlist
      PROVE  /\ Own(c) /\ clause_relids(c) \subseteq joinrel
             /\ \/ clause_relids(c) = {} /\ joinrel = Rels
                \/ clause_relids(c) \cap outer.rel # {} /\ clause_relids(c) \cap inner.rel # {}
  <2>1. CASE c \in subbuild_joinrel_restrictlist(joinrel, outer.joininfo \cup inner.joininfo)
    <3>1. c.required \subseteq joinrel /\ c \in outer.joininfo \cup inner.joininfo
      BY <2>1 DEF subbuild_joinrel_restrictlist
    <3>2. Anchored(c) /\ Own(c) /\ c.required \cap outer.rel # {} /\ c.required \cap inner.rel # {}
      BY <1>5, <3>1 DEF PlacedPath, Carries
    <3>3. QED
      BY <1>5, <3>1, <3>2 DEF Anchored
  <2>2. CASE c \in generate_join_implied_equalities(eq_classes, joinrel, outer.rel, inner.rel)
    BY <1>5, <1>7, <2>2, GeneratedClauses
  <2>3. QED
    BY <1>9, <2>1, <2>2 DEF build_joinrel_restrictlist
<1>10. clauses \subseteq restrictlist
  BY DEF KeptByNestloop
\* Those taken over from the joins above are of the join and of its parameters.
<1>11. ASSUME NEW c \in extra
       PROVE  /\ Own(c) /\ clause_relids(c) \subseteq joinrel \cup req /\ ~InSide(c, outer)
              /\ clause_relids(c) \cap joinrel # {} /\ ~(clause_relids(c) \subseteq joinrel)
              /\ \/ ~InSide(c, inner)
                 \/ clause_relids(c) \cap inner.rel = {}
  <2>1. req # {}
    BY <1>11 DEF extra, get_joinrel_parampathinfo
  <2>2. CASE c \in joinlist /\ join_clause_is_movable_into(c, joinrel, joinrel \cup req)
               /\ ~InSide(c, outer) /\ ~InSide(c, inner)
    <3>1. c \in outer.joininfo \cup inner.joininfo /\ ~(c.required \subseteq joinrel)
      BY <2>2 DEF build_joinrel_joinlist
    <3>2. Anchored(c) /\ Own(c)
      BY <1>5, <3>1 DEF PlacedPath, Carries
    <3>3. clause_relids(c) \subseteq joinrel \cup req /\ clause_relids(c) \cap joinrel # {}
      BY <2>2 DEF join_clause_is_movable_into
    <3>4. QED
      BY <2>2, <3>1, <3>2, <3>3 DEF Anchored
  <2>3. CASE c \in ParamClauses(ecs, joinrel, outer, req) /\ ~InSide(c, inner)
    <3>1. /\ c \in generate_join_implied_equalities(ecs, joinrel \cup req, req, joinrel) /\ ~InSide(c, outer)
          /\ joinrel \cup req = req \cup joinrel /\ req \cap joinrel = {}
      BY <1>6, <2>3 DEF ParamClauses
    <3>2. /\ OfOneClass(c) /\ clause_relids(c) \subseteq req \cup joinrel
          /\ clause_relids(c) \cap req # {} /\ clause_relids(c) \cap joinrel # {}
      BY <1>5, <1>7, <3>1, GeneratedClauses
    <3>3. QED
      BY <1>6, <2>3, <3>1, <3>2
  <2>4. CASE c \in Retied(ecs, outer, inner, req)
    <3>1. PICK ec \in ecs : /\ ~ec.has_const /\ c \in JoinClauses(ec, outer.rel \cup req, req, outer.rel)
                            /\ ~InSide(c, outer)
      BY <2>4 DEF Retied, dropped_ecs
    <3>2. SoundClass(ec) /\ \E o \in eq_classes : Members(o) = Members(ec)
      BY <1>5, <1>7, SoundClassesNow
    <3>3. outer.rel \cup req = req \cup outer.rel /\ req \cap outer.rel = {} /\ req \cap inner.rel = {}
      BY <1>6
    <3>4. /\ {c.left, c.right} \subseteq Members(ec) /\ clause_relids(c) \subseteq req \cup outer.rel
          /\ clause_relids(c) \cap req # {} /\ clause_relids(c) \cap outer.rel # {}
      BY <3>1, <3>2, <3>3, ClausesOfJoin
    <3>5. Own(c)
      BY <3>2, <3>4 DEF OfOneClass
    <3>6. QED
      BY <1>5, <1>6, <3>1, <3>3, <3>4, <3>5
  <2>5. QED
    BY <1>11, <2>1, <2>2, <2>3, <2>4 DEF extra, get_joinrel_parampathinfo
<1> HIDE DEF restrictlist, clauses, joinlist, extra
<1>12. Carries(path)
  <2>1. ASSUME NEW c \in joinlist
        PROVE  /\ Anchored(c) /\ Own(c) /\ c.required \cap joinrel # {} /\ ~(c.required \subseteq joinrel)
    <3>1. c \in outer.joininfo \cup inner.joininfo /\ ~(c.required \subseteq joinrel)
      BY <2>1 DEF joinlist, build_joinrel_joinlist
    <3>2. QED
      BY <1>5, <3>1 DEF PlacedPath, Carries
  <2>2. QED
    BY <1>3, <2>1 DEF Carries
<1>13. Tests(path)
  <2>1. ASSUME NEW c \in path.enforced
        PROVE  /\ clause_relids(c) \subseteq joinrel \cup req
               /\ (clause_relids(c) = {} /\ joinrel = Rels) \/ clause_relids(c) \cap joinrel # {}
               /\ Own(c)
    <3>1. CASE c \in outer.enforced \/ c \in inner.enforced
      BY <1>5, <1>6, <3>1 DEF PlacedPath, Tests
    <3>2. CASE c \in clauses
      BY <1>9, <1>10, <3>2
    <3>3. CASE c \in extra
      BY <1>11, <3>3
    <3>4. QED
      BY <1>3, <2>1, <3>1, <3>2, <3>3
  <2>2. QED
    BY <1>3, <2>1 DEF Tests
\* No clause has been tested by both sides, none of the join by one of them.
<1>14. ASSUME NEW c \in outer.enforced PROVE c \notin inner.enforced /\ c \notin clauses /\ c \notin extra
  <2>1. /\ clause_relids(c) \subseteq outer.rel \cup outer.req
        /\ (clause_relids(c) = {} /\ outer.rel = Rels) \/ clause_relids(c) \cap outer.rel # {}
    BY <1>5 DEF PlacedPath, Tests
  <2>2. outer.rel # Rels /\ inner.rel # Rels
    BY <1>5 DEF PlacedPath
  <2>3. clause_relids(c) \cap inner.rel = {} /\ clause_relids(c) # {}
    BY <1>5, <1>6, <2>1, <2>2
  <2>4. c \notin inner.enforced
    BY <1>5, <2>2, <2>3 DEF PlacedPath, Tests
  <2>5. c \notin clauses
    BY <1>9, <1>10, <2>3
  <2>6. ASSUME c \in extra PROVE FALSE
    <3>1. ~(clause_relids(c) \subseteq outer.rel) /\ ~InSide(c, outer)
      BY <1>11, <2>6
    <3>2. QED
      BY <2>1, <2>2, <3>1, InSideOf
  <2>7. QED
    BY <2>4, <2>5, <2>6
<1>15. ASSUME NEW c \in inner.enforced PROVE c \notin clauses /\ c \notin extra
  <2>1. /\ clause_relids(c) \subseteq inner.rel \cup inner.req /\ clause_relids(c) \cap inner.rel # {}
    BY <1>5 DEF PlacedPath, Tests
  <2>2. ASSUME c \in clauses PROVE FALSE
    <3>1. c \in restrictlist /\ clause_relids(c) \cap outer.rel # {}
      BY <1>9, <1>10, <2>1, <2>2
    <3>2. inner.req \cap outer.rel # {} /\ ~(clause_relids(c) \subseteq inner.rel)
      BY <1>5, <2>1, <3>1
    <3>3. nestloop /\ InSide(c, inner)
      BY <1>6, <2>1, <3>2, InSideOf
    <3>4. QED
      BY <2>2, <3>2, <3>3 DEF clauses, KeptByNestloop
  <2>3. ASSUME c \in extra PROVE FALSE
    <3>1. ~(clause_relids(c) \subseteq inner.rel) /\ ~InSide(c, inner)
      BY <1>11, <2>1, <2>3
    <3>2. QED
      BY <2>1, <3>1, InSideOf
  <2>4. QED
    BY <2>2, <2>3
<1>16. clauses \cap extra = {}
  BY <1>9, <1>10, <1>11
<1>17. PlacedPath(path)
  <2>1. outer.twice = {} /\ inner.twice = {} /\ outer.rel # {}
    BY <1>5 DEF PlacedPath
  <2>2. path.twice = {}
    BY <1>3, <1>14, <1>15, <1>16, <2>1
  <2>3. QED
    BY <1>3, <1>12, <1>13, <2>1, <2>2 DEF PlacedPath
<1>18. \A p \in forest' : PlacedPath(p)'
  BY <1>4, <1>5, <1>8, <1>17, PlacedLater DEF Placement
<1>19. QED
  BY <1>18 DEF Placement

------------------------------------------------------------------------------
(* What is made equal *)

LEMMA EquatedByMore ==
  ASSUME NEW pairs, NEW more, pairs \subseteq more, NEW ec, NEW S, NEW R, R \subseteq S, Equated(pairs, ec, S)
  PROVE  Equated(more, ec, R)
<1>1. SUFFICES ASSUME NEW T \in SUBSET ToSet(ec.members),
                      \A p \in more : {p[1], p[2]} \subseteq ToSet(ec.members) => (p[1] \in T <=> p[2] \in T)
               PROVE  R \subseteq T \/ R \cap T = {}
  BY DEF Equated
<1>2. S \subseteq T \/ S \cap T = {}
  BY <1>1 DEF Equated
<1>3. QED
  BY <1>2

LEMMA EquatedByPair ==
  ASSUME NEW pairs, NEW ec, NEW p \in pairs, {p[1], p[2]} \subseteq ToSet(ec.members)
  PROVE  Equated(pairs, ec, {p[1], p[2]})
BY DEF Equated

\* A chain through some positions keeps them on one side.
LEMMA ChainHolds ==
  ASSUME NEW n \in Nat, NEW S \in SUBSET (1..n), NEW P, \A p \in Chain(S) : p[1] \in P <=> p[2] \in P
  PROVE  \A i, j \in S : i \in P <=> j \in P
<1>1. SUFFICES ASSUME S # {} PROVE \A i, j \in S : i \in P <=> j \in P
  OBVIOUS
<1>2. PICK first \in S : \A k \in S : first <= k
  <2>1. S \in SUBSET Nat
    OBVIOUS
  <2>2. QED
    BY <1>1, <2>1, LeastPosition DEF Firsts
<1> DEFINE D == {k \in S : ~(k \in P <=> first \in P)}
<1>3. ASSUME D # {} PROVE FALSE
  <2>1. D \in SUBSET Nat
    <3>1. D \subseteq S /\ S \subseteq Nat
      OBVIOUS
    <3>2. QED
      BY <3>1, Zenon
  <2>2. PICK k \in D : \A l \in D : k <= l
    BY <1>3, <2>1, LeastPosition DEF Firsts
  <2> DEFINE B == {l \in S : l < k}
  <2>3. first \in B
    BY <1>2, <2>2
  <2>4. PICK m \in B : \A l \in B : l <= m
    <3>1. B \in SUBSET (1..n) /\ B # {}
      BY <2>3
    <3>2. QED
      BY <3>1, GreatestPosition DEF Lasts
  <2>5. m \in S /\ k \in S /\ m < k /\ m \notin D
    BY <2>2, <2>4
  <2>6. \A l \in S : l <= m \/ k <= l
    BY <2>4, <2>5
  <2>7. <<m, k>> \in Chain(S)
    BY <2>5, <2>6 DEF Chain
  <2>8. m \in P <=> k \in P
    BY <2>7
  <2>9. QED
    BY <2>2, <2>5, <2>8
<1>4. QED
  BY <1>3

------------------------------------------------------------------------------
(* What the relations are given *)

Given(rel) == {c \in quals : c.required \subseteq rel}
Here(ec, rel) == Members(ec) \cap Within(rel)

\* At the relations a class makes equal its expressions of one relation, one with constants
\* all it can; or it is broken and has given its clauses back.
GivenEqual(ec) ==
  \A rel \in SUBSET Rels :
    /\ rel # {} /\ (ec.has_const \/ \E r \in Rels : rel = {r})
    /\ Comparable(ec, rel)
    => Equated(Sides(Given(rel)), ec, Here(ec, rel))
GivenBack(ec) == ec.broken /\ Regurgitated(ec) \subseteq quals
QualsGiven == ec_merging_done => todo = {} /\ \A ec \in eq_classes : GivenEqual(ec) \/ GivenBack(ec)

LEMMA ImpliedHolds ==
  ASSUME NEW clauses, NEW ec, NEW a \in Members(ec), NEW b \in Members(ec), Implied(a, b) \in clauses,
         NEW T, \A p \in Sides(clauses) : {p[1], p[2]} \subseteq Members(ec) => (p[1] \in T <=> p[2] \in T)
  PROVE  a \in T <=> b \in T
<1>1. Implied(a, b).left = a /\ Implied(a, b).right = b
  BY DEF Implied, Clause
<1>2. <<a, b>> \in Sides(clauses)
  BY <1>1 DEF Sides
<1>3. QED
  BY <1>2

LEMMA ImpliedRequires ==
  ASSUME NEW a, NEW b, NEW rel, IF IsConst(a) /\ IsConst(b) THEN Rels \subseteq rel
                                ELSE relids[a] \cup relids[b] \subseteq rel
  PROVE  Implied(a, b).required \subseteq rel
BY DEF Implied, Clause

\* Set equal to its first constant, or chained through each relation, by clauses all given.
LEMMA WholeGives ==
  ASSUME NEW ec \in ClassType, IsInjective(ec.members),
         ec.has_const <=> \E e \in Members(ec) : IsConst(e),
         NEW given,
         LET pairs == IF ec.has_const THEN ConstPairs(ec) ELSE NoConstPairs(ec)
         IN \A i \in DOMAIN pairs : Implied(pairs[i][1], pairs[i][2]) \in given,
         NEW rel \in SUBSET Rels, ec.has_const \/ \E r \in Rels : rel = {r}, Comparable(ec, rel)
  PROVE  Equated(Sides({c \in given : c.required \subseteq rel}), ec, Here(ec, rel))
<1> DEFINE clauses == {c \in given : c.required \subseteq rel}
           pairs == IF ec.has_const THEN ConstPairs(ec) ELSE NoConstPairs(ec)
<1>1. SUFFICES ASSUME NEW T \in SUBSET Members(ec),
                      \A p \in Sides(clauses) : {p[1], p[2]} \subseteq Members(ec) => (p[1] \in T <=> p[2] \in T)
               PROVE  Here(ec, rel) \subseteq T \/ Here(ec, rel) \cap T = {}
  BY DEF Equated, Members
<1>2. \A e \in Here(ec, rel) : e \in Members(ec) /\ relids[e] \subseteq rel
  BY DEF Here, Within
<1>6. ASSUME NEW a \in Members(ec), NEW b \in Members(ec), Implied(a, b) \in given,
             IF IsConst(a) /\ IsConst(b) THEN Rels \subseteq rel ELSE relids[a] \cup relids[b] \subseteq rel
      PROVE  a \in T <=> b \in T
  <2>1. Implied(a, b) \in clauses
    BY <1>6, ImpliedRequires
  <2> HIDE DEF clauses
  <2>2. QED
    BY <1>1, <2>1, ImpliedHolds
<1>3. CASE ec.has_const
  <2>1. PICK const \in DOMAIN ec.members :
          /\ IsConst(ec.members[const]) /\ DOMAIN ConstPairs(ec) = DOMAIN ec.members \ {const}
          /\ \A i \in DOMAIN ec.members \ {const} : ConstPairs(ec)[i] = <<ec.members[i], ec.members[const]>>
    BY <1>3, ConstPairsAre
  <2>2. ASSUME NEW e \in Here(ec, rel) PROVE e \in T <=> ec.members[const] \in T
    <3>1. PICK i \in DOMAIN ec.members : ec.members[i] = e
      BY <1>2, MemberPositions
    <3>2. CASE i = const
      BY <3>1, <3>2
    <3>3. CASE i # const
      <4>1. Implied(e, ec.members[const]) \in given
        BY <1>3, <2>1, <3>1, <3>3
      <4>2. ec.members[const] \in Members(ec) /\ e \in Members(ec) /\ e # ec.members[const]
        BY <1>2, <3>1, <3>3, MemberPositions DEF IsInjective
      <4>3. IF IsConst(e) /\ IsConst(ec.members[const]) THEN Rels \subseteq rel
            ELSE relids[e] \cup relids[ec.members[const]] \subseteq rel
        BY <1>2, <2>1, <4>2 DEF Comparable, Members, IsConst
      <4>4. QED
        BY <1>6, <4>1, <4>2, <4>3
    <3>4. QED
      BY <3>2, <3>3
  <2>3. QED
    BY <2>2
<1>4. CASE ~ec.has_const
  <2>1. PICK r \in Rels : rel = {r}
    BY <1>4
  <2> DEFINE S == {i \in DOMAIN ec.members : relids[ec.members[i]] = {r}}
             P == {i \in S : ec.members[i] \in T}
  <2>2. S \in SUBSET (1..Len(ec.members)) /\ Len(ec.members) \in Nat
    BY MemberPositions
  <2>3. ASSUME NEW p \in Chain(S) PROVE p[1] \in P <=> p[2] \in P
    <3>1. p[1] \in S /\ p[2] \in S /\ p[1] < p[2] /\ \A k \in S : k <= p[1] \/ p[2] <= k
      BY <2>3 DEF Chain
    <3>2. Before(ec, p[2]) = {k \in S : k < p[2]}
      BY <3>1 DEF Before
    <3>3. p[1] \in Before(ec, p[2]) /\ \A k \in Lasts(Before(ec, p[2])) : k = p[1]
      <4>1. p[1] \in Before(ec, p[2])
        BY <3>1, <3>2
      <4>2. ASSUME NEW k \in Lasts(Before(ec, p[2])) PROVE k = p[1]
        <5>1. k \in S /\ k < p[2] /\ p[1] <= k
          BY <3>2, <4>1, <4>2 DEF Lasts
        <5>2. k <= p[1] \/ p[2] <= k
          BY <3>1, <5>1
        <5>3. k \in Nat /\ p[1] \in Nat /\ p[2] \in Nat
          BY <2>2, <3>1, <5>1
        <5>4. QED
          BY <5>1, <5>2, <5>3
      <4>3. QED
        BY <4>1, <4>2
    <3>4. Cardinality(relids[ec.members[p[2]]]) = 1
      BY <3>1, FS_Singleton
    <3>5. p[2] \in DOMAIN NoConstPairs(ec) /\ NoConstPairs(ec)[p[2]] = <<ec.members[p[1]], ec.members[p[2]]>>
      BY <3>1, <3>3, <3>4, NoConstPairsAre
    <3>6. Implied(ec.members[p[1]], ec.members[p[2]]) \in given
      BY <1>4, <3>5
    <3>7. ec.members[p[1]] \in Members(ec) /\ ec.members[p[2]] \in Members(ec)
      BY <3>1, MemberPositions
    <3>8. ~IsConst(ec.members[p[1]]) /\ relids[ec.members[p[1]]] \cup relids[ec.members[p[2]]] \subseteq rel
      BY <2>1, <3>1 DEF IsConst
    <3>9. ec.members[p[1]] \in T <=> ec.members[p[2]] \in T
      BY <1>6, <3>6, <3>7, <3>8
    <3>10. QED
      BY <3>1, <3>9
  <2> HIDE DEF S, P
  <2>4. \A i, j \in S : i \in P <=> j \in P
    BY <2>2, <2>3, ChainHolds
  <2> USE DEF S, P
  <2>5. ASSUME NEW e \in Here(ec, rel) PROVE \E i \in S : ec.members[i] = e
    <3>1. PICK i \in DOMAIN ec.members : ec.members[i] = e
      BY <1>2, MemberPositions
    <3>2. relids[e] = {r}
      BY <1>2, <1>4, <2>1 DEF IsConst
    <3>3. QED
      BY <3>1, <3>2
  <2>6. \A d, e \in Here(ec, rel) : d \in T <=> e \in T
    <3>1. ASSUME NEW d \in Here(ec, rel), NEW e \in Here(ec, rel) PROVE d \in T <=> e \in T
      <4>1. PICK i \in S : ec.members[i] = d
        BY <2>5
      <4>2. PICK j \in S : ec.members[j] = e
        BY <2>5
      <4>3. QED
        BY <2>4, <4>1, <4>2
    <3>2. QED
      BY <3>1
  <2>7. QED
    BY <2>6
<1>5. QED
  BY <1>3, <1>4

\* A class of one clause with a constant gives that clause.
LEMMA AloneGives ==
  ASSUME MergeInv, NEW ec \in eq_classes, ec.has_const, Len(ec.members) = 2, Cardinality(ec.sources) = 1,
         NEW rel \in SUBSET Rels, rel # {}
  PROVE  Equated(Sides({c \in ec.sources : c.required \subseteq rel}), ec, Here(ec, rel))
<1> DEFINE clauses == {c \in ec.sources : c.required \subseteq rel}
<1>1. ec \in ClassType /\ RightClass(ec) /\ query \in Queries
  BY DEF MergeInv, ClassesWellFormed, Merging
<1>2. PICK s \in ec.sources : TRUE
  <2>1. ec.sources # {}
    BY FS_EmptySet
  <2>2. QED
    BY <2>1
<1>3. /\ <<s.left, s.right>> \in Done /\ {s.left, s.right} \subseteq Members(ec)
      /\ s.required = clause_relids(s)
  BY SourceOfQuery
<1>4. s.left # s.right
  <2>1. <<s.left, s.right>> \in query
    BY <1>3 DEF Done
  <2>2. QED
    BY <1>1, <2>1, QueriesAssumption
<1>5. Members(ec) = {s.left, s.right}
  <2>1. DOMAIN ec.members = {1, 2}
    BY <1>1, MemberPositions
  <2>2. Members(ec) = {ec.members[1], ec.members[2]}
    BY <2>1 DEF Members, ToSet
  <2>3. QED
    BY <1>3, <1>4, <2>2
<1>6. SUFFICES ASSUME NEW T \in SUBSET Members(ec),
                      \A p \in Sides(clauses) : {p[1], p[2]} \subseteq Members(ec) => (p[1] \in T <=> p[2] \in T)
               PROVE  Here(ec, rel) \subseteq T \/ Here(ec, rel) \cap T = {}
  BY DEF Equated, Members
<1>7. CASE {s.left, s.right} \subseteq Here(ec, rel)
  <2>1. s \in clauses
    BY <1>3, <1>7 DEF Here, Within, clause_relids
  <2> HIDE DEF clauses
  <2>2. <<s.left, s.right>> \in Sides(clauses)
    BY <2>1 DEF Sides
  <2>3. s.left \in T <=> s.right \in T
    BY <1>3, <1>6, <2>2
  <2>4. QED
    BY <1>5, <2>3 DEF Here
<1>8. CASE ~({s.left, s.right} \subseteq Here(ec, rel))
  BY <1>5, <1>8 DEF Here
<1>9. QED
  BY <1>7, <1>8

LEMMA BaseGives ==
  ASSUME MergeInv, generate_base_implied_equalities
  PROVE  QualsGiven'
<1>1. /\ eq_classes' = {[ec EXCEPT !.broken = BaseClauses(ec).broken] : ec \in eq_classes}
      /\ quals' = quals \cup UNION {BaseQuals(ec) : ec \in eq_classes}
      /\ todo' = {}
  BY DEF generate_base_implied_equalities
<1>2. ASSUME NEW ec \in eq_classes, NEW n, n = [ec EXCEPT !.broken = BaseClauses(ec).broken]
      PROVE  GivenEqual(n)' \/ GivenBack(n)'
  <2> DEFINE pairs == IF ec.has_const THEN ConstPairs(ec) ELSE NoConstPairs(ec)
             done == Links(pairs)
             alone == ec.has_const /\ Len(ec.members) = 2 /\ Cardinality(ec.sources) = 1
                        /\ \A s \in ec.sources : ~Multiple(s.required)
             implied == {Implied(pairs[i][1], pairs[i][2]) : i \in done}
             short == done # DOMAIN pairs
  <2>1. BaseClauses(ec) = IF alone THEN [broken |-> FALSE, clauses |-> ec.sources]
                          ELSE [broken |-> short, clauses |-> implied]
    BY DEF BaseClauses
  <2>2. BaseQuals(ec) \subseteq quals' /\ BaseClauses(ec).clauses \subseteq BaseQuals(ec)
    BY <1>1 DEF BaseQuals
  <2>3. ec \in ClassType /\ RightClass(ec)
    BY DEF MergeInv, ClassesWellFormed, Merging
  <2>4. /\ n.members = ec.members /\ n.sources = ec.sources /\ n.has_const = ec.has_const
        /\ n.broken = BaseClauses(ec).broken /\ Members(n) = Members(ec)
    BY <1>2, <2>3 DEF ClassType, Members
  <2> HIDE DEF pairs, done, alone, implied, short
  <2>5. CASE BaseClauses(ec).broken
    <3>1. Regurgitated(ec) \subseteq quals'
      BY <2>2, <2>5 DEF BaseQuals
    <3>2. Regurgitated(n) = Regurgitated(ec)
      BY <2>4 DEF Regurgitated
    <3>3. QED
      BY <2>4, <2>5, <3>1, <3>2 DEF GivenBack, Regurgitated
  <2>6. CASE ~BaseClauses(ec).broken
    <3>1. ASSUME NEW rel \in SUBSET Rels, rel # {}, ec.has_const \/ \E r \in Rels : rel = {r}, Comparable(ec, rel)
          PROVE  Equated(Sides({c \in quals' : c.required \subseteq rel}), ec, Here(ec, rel))
      <4>1. CASE alone
        <5>1. ec.sources \subseteq quals'
          BY <2>1, <2>2, <4>1
        <5>2. Equated(Sides({c \in ec.sources : c.required \subseteq rel}), ec, Here(ec, rel))
          BY <3>1, <4>1, AloneGives DEF alone
        <5>3. Sides({c \in ec.sources : c.required \subseteq rel}) \subseteq Sides({c \in quals' : c.required \subseteq rel})
          BY <5>1 DEF Sides
        <5>4. QED
          BY <5>2, <5>3, EquatedByMore
      <4>2. CASE ~alone
        <5>1. done = DOMAIN pairs /\ implied \subseteq quals'
          <6>1. ~short /\ implied \subseteq quals'
            BY <2>1, <2>2, <2>6, <4>2
          <6>2. QED
            BY <6>1 DEF short
        <5>2. \A i \in DOMAIN pairs : Implied(pairs[i][1], pairs[i][2]) \in quals'
          BY <5>1 DEF implied
        <5>3. IsInjective(ec.members) /\ (ec.has_const <=> \E e \in Members(ec) : IsConst(e))
          BY <2>3 DEF RightClass
        <5>4. QED
          BY <2>3, <3>1, <5>2, <5>3, WholeGives DEF pairs
      <4>3. QED
        BY <4>1, <4>2
    <3>2. ASSUME NEW rel \in SUBSET Rels, rel # {}, n.has_const \/ \E r \in Rels : rel = {r}, Comparable(n, rel)
          PROVE  Equated(Sides({c \in quals' : c.required \subseteq rel}), n, Here(n, rel))
      <4>1. Comparable(ec, rel) /\ Here(n, rel) = Here(ec, rel)
        BY <2>4, <3>2 DEF Comparable, Here
      <4>2. Equated(Sides({c \in quals' : c.required \subseteq rel}), ec, Here(n, rel))
        BY <2>4, <3>1, <3>2, <4>1
      <4>3. QED
        BY <2>4, <4>2 DEF Equated
    <3>3. GivenEqual(n)'
      BY <3>2 DEF GivenEqual, Given, Here, Comparable, Members, Within, IsConst, Equated, Sides
    <3>4. QED
      BY <3>3
  <2>7. QED
    BY <2>5, <2>6
<1>3. \A n \in eq_classes' : GivenEqual(n)' \/ GivenBack(n)'
  BY <1>1, <1>2
<1>4. QED
  BY <1>1, <1>3 DEF QualsGiven

LEMMA GivenLater ==
  ASSUME MergeInv, QualsGiven, ec_merging_done, Aged(eq_classes', eq_classes), UNCHANGED <<todo, quals, ec_merging_done>>
  PROVE  QualsGiven'
<1>1. ASSUME NEW n \in eq_classes' PROVE GivenEqual(n)' \/ GivenBack(n)'
  <2>1. PICK o \in eq_classes : Alike(n, o)
    BY AgedClasses DEF MergeInv, ClassesWellFormed
  <2>2. CASE GivenEqual(o)
    <3>1. GivenEqual(n)
      BY <2>1, <2>2 DEF GivenEqual, Alike, Comparable, Here, Members, Equated
    <3>2. QED
      BY <3>1 DEF GivenEqual, Given, Here, Comparable, Members, Within, IsConst, Equated, Sides
  <2>3. CASE GivenBack(o)
    BY <2>1, <2>3 DEF GivenBack, Alike, Regurgitated, Multiple
  <2>4. QED
    BY <2>2, <2>3 DEF QualsGiven
<1>2. QED
  BY <1>1 DEF QualsGiven

\* Clauses that are all a relation has, or all a class with a constant can have.
LEMMA EqualFromQuals ==
  ASSUME MergeInv, QualsGiven, ec_merging_done, NEW ec \in eq_classes, NEW rel \in SUBSET Rels, rel # {},
         ec.has_const \/ \E r \in Rels : rel = {r}, NEW clauses, Given(rel) \subseteq clauses
  PROVE  MakesEqual(clauses, ec, rel)
<1>1. /\ Sides(Given(rel)) \subseteq Sides(clauses) /\ Done = query
      /\ Here(ec, rel) = ToSet(ec.members) \cap Within(rel)
  BY DEF Sides, QualsGiven, Done, Here, Members
<1>2. CASE GivenEqual(ec)
  <2>1. SUFFICES ASSUME Comparable(ec, rel)
                 PROVE  /\ \A c \in query : {c[1], c[2]} \subseteq Here(ec, rel) => Equated(Sides(clauses), ec, {c[1], c[2]})
                        /\ Equated(Sides(clauses), ec, Here(ec, rel))
    BY <1>1 DEF MakesEqual
  <2>2. Equated(Sides(Given(rel)), ec, Here(ec, rel))
    BY <1>2, <2>1 DEF GivenEqual
  <2>3. QED
    BY <1>1, <2>2, EquatedByMore
<1>3. CASE GivenBack(ec)
  <2>1. ASSUME NEW c \in query, {c[1], c[2]} \subseteq Here(ec, rel)
        PROVE  Equated(Sides(clauses), ec, {c[1], c[2]})
    <3>1. RightClass(ec) /\ c \in Done /\ c[1] \in Members(ec)
      BY <1>1, <2>1 DEF MergeInv, Merging, Here
    <3>2. c \in Sides(ec.sources)
      BY <3>1 DEF RightClass
    <3>3. PICK s \in ec.sources : c = <<s.left, s.right>>
      BY <3>2 DEF Sides
    <3>4. s.required = clause_relids(s) /\ s.required # {} /\ s.required \subseteq rel
      BY <2>1, <3>3, SourceOfQuery DEF clause_relids, Here, Within
    <3>5. ec.has_const \/ ~Multiple(s.required)
      <4>1. ASSUME NEW r \in Rels, rel = {r} PROVE ~Multiple(s.required)
        <5>1. s.required = {r}
          BY <3>4, <4>1
        <5>2. Cardinality({r}) = 1
          BY FS_Singleton
        <5>3. ~Multiple({r})
          BY <5>2 DEF Multiple
        <5>4. QED
          BY <5>1, <5>3
      <4>2. QED
        BY <4>1
    <3>6. s \in clauses
      BY <1>3, <3>4, <3>5 DEF GivenBack, Regurgitated, Given
    <3>7. c \in Sides(clauses)
      BY <3>3, <3>6 DEF Sides
    <3>8. {c[1], c[2]} \subseteq ToSet(ec.members)
      BY <2>1 DEF Here, Members
    <3>9. QED
      BY <3>7, <3>8, EquatedByPair
  <2>2. QED
    BY <1>1, <1>3, <2>1 DEF MakesEqual, GivenBack
<1>4. QED
  BY <1>2, <1>3 DEF QualsGiven

------------------------------------------------------------------------------
(* What a join ties together *)

\* The clauses a class gives to a join equate what its two sides have equated each, and what
\* the join has for the first time.
LEMMA JoinTies ==
  ASSUME NEW ec \in ClassType, NEW outer, NEW inner, NEW clauses,
         LET normal == JoinNormal(ec, outer \cup inner, outer, inner)
         IN ~normal.broken /\ normal.clauses \subseteq clauses,
         Equated(Sides(clauses), ec, Here(ec, outer)), Equated(Sides(clauses), ec, Here(ec, inner))
  PROVE  Equated(Sides(clauses), ec, Here(ec, outer \cup inner))
<1> DEFINE join == outer \cup inner
           Computable(rel) == {i \in DOMAIN ec.members : relids[ec.members[i]] \subseteq rel}
           outer_members == Computable(join) \cap Computable(outer)
           inner_members == (Computable(join) \cap Computable(inner)) \ outer_members
           new_members   == Computable(join) \ (outer_members \cup inner_members)
           cross == CrossPairs(ec.members, outer_members, inner_members)
           old == Firsts(IF outer_members # {} THEN outer_members ELSE inner_members)
           pairs == NewPairs(new_members, old)
           Made(p, derived) == Clause(ec.members[p[1]], ec.members[p[2]], derived)
<1>1. SUFFICES ASSUME NEW T \in SUBSET Members(ec),
                      \A p \in Sides(clauses) : {p[1], p[2]} \subseteq Members(ec) => (p[1] \in T <=> p[2] \in T)
               PROVE  Here(ec, join) \subseteq T \/ Here(ec, join) \cap T = {}
  BY DEF Equated, Members
<1> DEFINE In(i) == ec.members[i] \in T
           P == {i \in DOMAIN ec.members : In(i)}
<1>2. /\ Len(ec.members) \in Nat /\ DOMAIN ec.members = 1..Len(ec.members)
      /\ \A i \in DOMAIN ec.members : ec.members[i] \in Exprs /\ ec.members[i] \in Members(ec)
      /\ \A e \in Members(ec) : \E i \in DOMAIN ec.members : ec.members[i] = e
  BY MemberPositions
<1>3. /\ ~(outer_members # {} /\ inner_members # {} /\ cross = {})
      /\ {Made(p, TRUE) : p \in cross} \cup {Made(p, FALSE) : p \in pairs} \subseteq clauses
  BY DEF JoinNormal
<1>4. ASSUME NEW p, NEW derived, Made(p, derived) \in clauses, p[1] \in DOMAIN ec.members, p[2] \in DOMAIN ec.members
      PROVE  In(p[1]) <=> In(p[2])
  <2>1. Made(p, derived).left = ec.members[p[1]] /\ Made(p, derived).right = ec.members[p[2]]
    BY DEF Clause
  <2>2. <<ec.members[p[1]], ec.members[p[2]]>> \in Sides(clauses)
    BY <1>4, <2>1 DEF Sides
  <2>3. QED
    BY <1>1, <1>2, <1>4, <2>2
<1>5. /\ outer_members \subseteq DOMAIN ec.members /\ inner_members \subseteq DOMAIN ec.members
      /\ new_members \subseteq DOMAIN ec.members
      /\ Computable(join) = outer_members \cup inner_members \cup new_members
  OBVIOUS
<1>6. \A i, j \in outer_members : In(i) <=> In(j)
  <2>1. Here(ec, outer) \subseteq T \/ Here(ec, outer) \cap T = {}
    BY <1>1 DEF Equated, Members
  <2>2. \A i \in outer_members : ec.members[i] \in Here(ec, outer)
    BY <1>2 DEF Here, Within
  <2>3. QED
    BY <2>1, <2>2
<1>7. \A i, j \in inner_members : In(i) <=> In(j)
  <2>1. Here(ec, inner) \subseteq T \/ Here(ec, inner) \cap T = {}
    BY <1>1 DEF Equated, Members
  <2>2. \A i \in inner_members : ec.members[i] \in Here(ec, inner)
    BY <1>2 DEF Here, Within
  <2>3. QED
    BY <2>1, <2>2
<1> HIDE DEF Computable, outer_members, inner_members, new_members, cross, Made
<1>8. \A i, j \in new_members : In(i) <=> In(j)
  <2>1. ASSUME NEW p \in Chain(new_members) PROVE p[1] \in P <=> p[2] \in P
    <3>1. p \in pairs /\ p[1] \in new_members /\ p[2] \in new_members
      BY <2>1 DEF NewPairs, Chain
    <3>2. In(p[1]) <=> In(p[2])
      BY <1>3, <1>4, <1>5, <3>1
    <3>3. QED
      BY <1>5, <3>1, <3>2
  <2>2. new_members \in SUBSET (1..Len(ec.members))
    BY <1>2, <1>5
  <2> HIDE DEF P
  <2>3. \A i, j \in new_members : i \in P <=> j \in P
    BY <1>2, <2>1, <2>2, ChainHolds
  <2>4. QED
    BY <1>5, <2>3 DEF P
<1>9. ASSUME NEW i \in outer_members, NEW j \in inner_members PROVE In(i) <=> In(j)
  <2>1. PICK p \in cross : TRUE
    BY <1>3, <1>9
  <2>2. p[1] \in outer_members /\ p[2] \in inner_members
    <3>1. p \in outer_members \X inner_members
      BY <2>1, CrossWithin DEF cross
    <3>2. QED
      BY <3>1
  <2>3. In(p[1]) <=> In(p[2])
    BY <1>3, <1>4, <1>5, <2>1, <2>2
  <2>4. QED
    BY <1>6, <1>7, <1>9, <2>2, <2>3
<1>10. ASSUME NEW i \in new_members, NEW O, O \subseteq DOMAIN ec.members, O # {}, old = Firsts(O),
              \A j, k \in O : In(j) <=> In(k), NEW j \in O
       PROVE  In(i) <=> In(j)
  <2>1. PICK last \in Lasts(new_members) : TRUE
    <3>1. new_members \in SUBSET (1..Len(ec.members)) /\ new_members # {}
      BY <1>2, <1>5, <1>10
    <3>2. QED
      BY <1>2, <3>1, GreatestPosition
  <2>2. PICK first \in Firsts(O) : TRUE
    <3>1. O \in SUBSET Nat
      BY <1>2, <1>10
    <3>2. QED
      BY <1>10, <3>1, LeastPosition
  <2> DEFINE p == <<last, first>>
  <2>3. p \in pairs /\ p[1] = last /\ p[2] = first /\ last \in new_members /\ first \in O
    BY <1>10, <2>1, <2>2 DEF NewPairs, Lasts, Firsts
  <2>4. In(last) <=> In(first)
    BY <1>3, <1>4, <1>5, <1>10, <2>3
  <2>5. QED
    BY <1>8, <1>10, <2>3, <2>4
<1>11. ASSUME NEW i \in new_members, NEW j \in outer_members PROVE In(i) <=> In(j)
  <2>1. old = Firsts(outer_members) /\ outer_members # {}
    BY <1>11
  <2> HIDE DEF old, In
  <2>2. QED
    BY <1>5, <1>6, <1>10, <1>11, <2>1
<1>12. ASSUME NEW i \in new_members, NEW j \in inner_members PROVE In(i) <=> In(j)
  <2>1. CASE outer_members = {}
    <3>1. old = Firsts(inner_members) /\ inner_members # {}
      BY <1>12, <2>1
    <3> HIDE DEF old, In
    <3>2. QED
      BY <1>5, <1>7, <1>10, <1>12, <3>1
  <2>2. CASE outer_members # {}
    <3>1. PICK k \in outer_members : TRUE
      BY <2>2
    <3>2. (In(i) <=> In(k)) /\ (In(k) <=> In(j))
      BY <1>9, <1>11
    <3>3. QED
      BY <3>2
  <2>3. QED
    BY <2>1, <2>2
<1>13. \A i, j \in Computable(join) : In(i) <=> In(j)
  BY <1>5, <1>6, <1>7, <1>8, <1>9, <1>11, <1>12
<1>14. \A e \in Here(ec, join) : \E i \in Computable(join) : ec.members[i] = e
  BY <1>2 DEF Here, Within, Computable
<1>15. QED
  BY <1>13, <1>14

------------------------------------------------------------------------------
(* Trees that pass no parameters *)

\* Such a tree tests every clause whose relations it has all, carries those of which it has
\* some, and makes equal what it has of every class.
TestsAll(p) ==
  \A c \in AllQuals :
    /\ c.required # {} /\ c.required \subseteq p.rel => c \in p.enforced
    /\ c.required \cap p.rel # {} /\ ~(c.required \subseteq p.rel) => c \in p.joininfo
PlainPath(p) ==
  p.given = {} =>
    /\ p.req = {} /\ TestsAll(p)
    /\ \A ec \in eq_classes : ~ec.has_const => MakesEqual(p.enforced, ec, p.rel)
Plain == \A p \in forest : PlainPath(p)

LEMMA EqualLater ==
  ASSUME NEW n, NEW o, Alike(n, o), NEW clauses, NEW rel, MakesEqual(clauses, o, rel)
  PROVE  MakesEqual(clauses, n, rel)
BY DEF Alike, MakesEqual, Comparable, Equated

LEMMA PlainLater ==
  ASSUME MergeInv, Aged(eq_classes', eq_classes), UNCHANGED <<query, quals>>, NEW p, PlainPath(p)
  PROVE  PlainPath(p)'
<1>1. ASSUME NEW n \in eq_classes', p.given = {}, ~n.has_const PROVE MakesEqual(p.enforced, n, p.rel)
  <2>1. PICK o \in eq_classes : Alike(n, o)
    BY AgedClasses DEF MergeInv, ClassesWellFormed
  <2>2. MakesEqual(p.enforced, o, p.rel)
    BY <1>1, <2>1 DEF PlainPath, Alike
  <2>3. QED
    BY <2>1, <2>2, EqualLater
<1>2. ASSUME NEW n \in eq_classes', p.given = {}, ~n.has_const PROVE MakesEqual(p.enforced, n, p.rel)'
  BY <1>1, <1>2 DEF MakesEqual, Comparable, Equated, Within, Sides, IsConst
<1>3. TestsAll(p) => TestsAll(p)'
  BY DEF TestsAll, AllQuals
<1>4. QED
  BY <1>2, <1>3 DEF PlainPath

LEMMA QualsFinite ==
  ASSUME MergeInv, NEW c \in AllQuals
  PROVE  c.required \subseteq Rels /\ IsFiniteSet(c.required)
<1>1. c.required \subseteq Rels
  <2>1. CASE c \in OtherClauses
    BY <2>1, OtherTyped
  <2>2. CASE c \in quals
    <3>1. Anchored(c) /\ OfOneClass(c)
      BY <2>2 DEF MergeInv, QualsPlaced
    <3>2. c.left \in Exprs /\ c.right \in Exprs
      BY <3>1, MemberPositions DEF OfOneClass, MergeInv, ClassesWellFormed
    <3>3. clause_relids(c) \subseteq Rels
      BY <3>2, ExprsAssumption DEF clause_relids
    <3>4. QED
      BY <3>1, <3>3 DEF Anchored
  <2>3. QED
    BY <2>1, <2>2 DEF AllQuals
<1>2. QED
  BY <1>1, ExprsAssumption, FS_Subset

LEMMA ScanPlain ==
  ASSUME JoinInv, QualsGiven, Plain, NEW r \in Rels \ scanned, NEW req \in SUBSET (Rels \ {r}), Scan(r, req)
  PROVE  Plain'
<1> DEFINE new == get_baserel_parampathinfo(eq_classes, r, req)
           path == [rel |-> {r}, req |-> req, joininfo |-> BaseJoininfo(r), twice |-> {}, given |-> req,
                    named |-> {}, lost |-> FALSE, ppi |-> IF req = {} THEN {} ELSE new,
                    text |-> get_single_rel(baserestrictinfo(r)),
                    enforced |-> baserestrictinfo(r) \cup IF req = {} THEN {} ELSE new]
<1>1. /\ forest' = forest \cup {path} /\ UNCHANGED <<query, quals>>
      /\ eq_classes' = IF req = {} THEN eq_classes ELSE AfterJoin(eq_classes, {r} \cup req, req, {r})
      /\ MergeInv /\ eq_classes \subseteq ClassType /\ ec_merging_done
  BY DEF Scan, JoinInv, MergeInv, ClassesWellFormed
<1>2. /\ path.rel = {r} /\ path.req = req /\ path.joininfo = BaseJoininfo(r) /\ path.given = req
      /\ baserestrictinfo(r) \subseteq path.enforced
  OBVIOUS
<1> HIDE DEF path
<1>3. Aged(eq_classes', eq_classes)
  BY <1>1, AfterJoinAges, AgedSame
<1>4. TestsAll(path)
  <2>1. ASSUME NEW c \in AllQuals, c.required # {}, c.required \subseteq {r} PROVE c \in baserestrictinfo(r)
    BY <2>1 DEF baserestrictinfo
  <2>2. ASSUME NEW c \in AllQuals, c.required \cap {r} # {}, ~(c.required \subseteq {r}) PROVE c \in BaseJoininfo(r)
    <3>1. PICK q \in c.required : q # r
      BY <2>2
    <3>2. Multiple(c.required)
      BY <1>1, <2>2, <3>1, QualsFinite, TwoAreMultiple
    <3>3. QED
      BY <2>2, <3>2 DEF BaseJoininfo
  <2>3. QED
    BY <1>2, <2>1, <2>2 DEF TestsAll
<1>5. ASSUME NEW ec \in eq_classes PROVE MakesEqual(path.enforced, ec, path.rel)
  <2>1. Given({r}) \subseteq baserestrictinfo(r)
    <3>1. ASSUME NEW c \in quals, c.required \subseteq {r} PROVE c.required = {r}
      <4>1. Anchored(c)
        BY <1>1 DEF MergeInv, QualsPlaced
      <4>2. c.required # {}
        BY <4>1 DEF Anchored
      <4>3. QED
        BY <3>1, <4>2
    <3>2. QED
      BY <3>1 DEF Given, baserestrictinfo, AllQuals
  <2>2. Given({r}) \subseteq path.enforced
    BY <1>2, <2>1
  <2>3. {r} \in SUBSET Rels /\ {r} # {} /\ \E q \in Rels : {r} = {q}
    OBVIOUS
  <2>4. QED
    BY <1>1, <1>2, <2>2, <2>3, EqualFromQuals
<1>6. PlainPath(path)
  BY <1>2, <1>4, <1>5 DEF PlainPath
<1>7. \A p \in forest' : PlainPath(p)
  BY <1>1, <1>6 DEF Plain
<1>8. \A p \in forest' : PlainPath(p)'
  BY <1>1, <1>3, <1>7, PlainLater
<1>9. QED
  BY <1>8 DEF Plain

\* A class that is whole ties its members at the join; one that is broken gives its clauses.
LEMMA JoinEquates ==
  ASSUME MergeInv, QualsGiven, ec_merging_done, NEW ec \in eq_classes, ~ec.has_const,
         NEW outer, NEW inner, outer \cap inner = {}, NEW clauses,
         MakesEqual(clauses, ec, outer), MakesEqual(clauses, ec, inner),
         Concerned(ec, outer, inner) => JoinClauses(ec, outer \cup inner, outer, inner) \subseteq clauses,
         NEW n, n = IF Concerned(ec, outer, inner) THEN Tried(ec, outer \cup inner, outer, inner) ELSE ec
  PROVE  MakesEqual(clauses, n, outer \cup inner)
<1> DEFINE join == outer \cup inner
           normal == JoinNormal(ec, join, outer, inner)
<1>1. /\ ec \in ClassType /\ RightClass(ec) /\ SoundClass(ec) /\ Done = query
      /\ ec.broken \in BOOLEAN /\ normal.broken \in BOOLEAN
  <2>1. Aged(eq_classes, eq_classes)
    BY AgedSame DEF MergeInv, ClassesWellFormed
  <2>2. QED
    BY <2>1, NormalBroken, SoundClassesNow DEF MergeInv, ClassesWellFormed, Merging, QualsGiven, Done, ClassType
<1>2. \A rel : Comparable(ec, rel) /\ Here(ec, rel) = ToSet(ec.members) \cap Within(rel)
  BY <1>1 DEF SoundClass, Comparable, Here, Members
<1>3. n.members = ec.members /\ n.broken = (ec.broken \/ (Concerned(ec, outer, inner) /\ normal.broken))
  <2>1. Concerned(ec, outer, inner) \in BOOLEAN
    BY DEF Concerned
  <2> HIDE DEF normal
  <2>2. [ec EXCEPT !.broken = ec.broken \/ normal.broken].members = ec.members
    BY <1>1 DEF ClassType
  <2>3. [ec EXCEPT !.broken = ec.broken \/ normal.broken].broken = (ec.broken \/ normal.broken)
    BY <1>1 DEF ClassType
  <2>4. CASE Concerned(ec, outer, inner)
    BY <2>2, <2>3, <2>4 DEF Tried, normal
  <2>5. CASE ~Concerned(ec, outer, inner)
    BY <1>1, <2>5
  <2>6. QED
    BY <2>4, <2>5
<1> HIDE DEF normal
\* Two sides that the clauses equate on one side of the join, or that a source ties here.
<1>4. /\ \A c \in query : {c[1], c[2]} \subseteq Here(ec, outer) => Equated(Sides(clauses), ec, {c[1], c[2]})
      /\ \A c \in query : {c[1], c[2]} \subseteq Here(ec, inner) => Equated(Sides(clauses), ec, {c[1], c[2]})
      /\ ~ec.broken => Equated(Sides(clauses), ec, Here(ec, outer)) /\ Equated(Sides(clauses), ec, Here(ec, inner))
  BY <1>2 DEF MakesEqual
<1>5. ASSUME /\ \A c \in query : {c[1], c[2]} \subseteq Here(ec, join) => Equated(Sides(clauses), ec, {c[1], c[2]})
             /\ ~n.broken => Equated(Sides(clauses), ec, Here(ec, join))
      PROVE  MakesEqual(clauses, n, join)
  <2>1. ToSet(n.members) = ToSet(ec.members)
    BY <1>3
  <2>2. \A S : Equated(Sides(clauses), ec, S) => Equated(Sides(clauses), n, S)
    BY <2>1 DEF Equated
  <2>3. \A c \in query : {c[1], c[2]} \subseteq ToSet(n.members) \cap Within(join) => Equated(Sides(clauses), n, {c[1], c[2]})
    BY <1>2, <1>5, <2>1, <2>2
  <2>4. ~n.broken => Equated(Sides(clauses), n, ToSet(n.members) \cap Within(join))
    BY <1>2, <1>5, <2>1, <2>2
  <2>5. QED
    BY <2>3, <2>4 DEF MakesEqual
<1>6. CASE ~Concerned(ec, outer, inner)
  <2>1. ec_relids(ec) \cap outer = {} \/ ec_relids(ec) \cap inner = {}
    BY <1>6 DEF Concerned
  <2>2. \A e \in Members(ec) : relids[e] \subseteq ec_relids(ec)
    BY DEF ec_relids, Members
  <2>3. Here(ec, join) = Here(ec, outer) \/ Here(ec, join) = Here(ec, inner)
    <3>1. CASE ec_relids(ec) \cap outer = {}
      <4>1. Here(ec, join) = Here(ec, inner)
        BY <2>2, <3>1 DEF Here, Within
      <4>2. QED
        BY <4>1
    <3>2. CASE ec_relids(ec) \cap inner = {}
      <4>1. Here(ec, join) = Here(ec, outer)
        BY <2>2, <3>2 DEF Here, Within
      <4>2. QED
        BY <4>1
    <3>3. QED
      BY <2>1, <3>1, <3>2
  <2>4. QED
    BY <1>3, <1>4, <1>5, <1>6, <2>3
<1>7. CASE Concerned(ec, outer, inner) /\ ~ec.broken /\ ~normal.broken
  <2>1. normal.clauses \subseteq clauses
    BY <1>7 DEF JoinClauses, normal
  <2>2. Equated(Sides(clauses), ec, Here(ec, join))
    BY <1>1, <1>4, <1>7, <2>1, JoinTies DEF normal
  <2>3. \A c \in query : {c[1], c[2]} \subseteq Here(ec, join) => Equated(Sides(clauses), ec, {c[1], c[2]})
    BY <2>2, EquatedByMore
  <2>4. QED
    BY <1>5, <2>2, <2>3
<1>8. CASE Concerned(ec, outer, inner) /\ (ec.broken \/ normal.broken)
  <2>1. JoinBroken(ec, join, outer, inner) \subseteq clauses
    BY <1>8 DEF JoinClauses, normal
  <2>2. ASSUME NEW c \in query, {c[1], c[2]} \subseteq Here(ec, join)
        PROVE  Equated(Sides(clauses), ec, {c[1], c[2]})
    <3>1. PICK s \in ec.sources : c = <<s.left, s.right>>
      <4>1. c \in Sides(ec.sources)
        BY <1>1, <2>2 DEF RightClass, Here
      <4>2. QED
        BY <4>1 DEF Sides
    <3>2. s.required = clause_relids(s) /\ {c[1], c[2]} \subseteq Members(ec)
      BY <1>1, <3>1 DEF SoundClass
    <3>3. clause_relids(s) = relids[c[1]] \cup relids[c[2]] /\ c[1] \in Exprs /\ c[2] \in Exprs
      BY <1>1, <3>1, <3>2, MemberPositions DEF clause_relids
    <3>4. CASE s.required \subseteq outer
      <4>1. {c[1], c[2]} \subseteq Here(ec, outer)
        BY <3>2, <3>3, <3>4 DEF Here, Within
      <4>2. QED
        BY <1>4, <4>1
    <3>5. CASE s.required \subseteq inner
      <4>1. {c[1], c[2]} \subseteq Here(ec, inner)
        BY <3>2, <3>3, <3>5 DEF Here, Within
      <4>2. QED
        BY <1>4, <4>1
    <3>6. CASE ~(s.required \subseteq outer) /\ ~(s.required \subseteq inner)
      <4>1. s.required \subseteq join
        BY <2>2, <3>2, <3>3 DEF Here, Within
      <4>2. s \in clauses
        BY <2>1, <3>6, <4>1 DEF JoinBroken
      <4>3. c \in Sides(clauses)
        BY <3>1, <4>2 DEF Sides
      <4>4. QED
        BY <3>2, <4>3, EquatedByPair DEF Members
    <3>7. QED
      BY <3>4, <3>5, <3>6
  <2>3. QED
    BY <1>3, <1>5, <1>8, <2>2
<1>9. QED
  BY <1>1, <1>6, <1>7, <1>8

LEMMA EqualByMore ==
  ASSUME NEW few, NEW clauses, few \subseteq clauses, NEW ec, NEW rel, MakesEqual(few, ec, rel)
  PROVE  MakesEqual(clauses, ec, rel)
<1>1. Sides(few) \subseteq Sides(clauses)
  BY DEF Sides
<1>2. \A S : Equated(Sides(few), ec, S) => Equated(Sides(clauses), ec, S)
  BY <1>1, EquatedByMore
<1>3. QED
  BY <1>2 DEF MakesEqual

LEMMA JoinPlain ==
  ASSUME JoinInv, Placement, QualsGiven, Plain, NEW outer \in forest, NEW inner \in forest,
         NEW nestloop \in BOOLEAN, NEW material \in BOOLEAN, Join(outer, inner, nestloop, material)
  PROVE  Plain'
<1> DEFINE joinrel == outer.rel \cup inner.rel
           req == IF nestloop THEN calc_nestloop_required_outer(outer, inner) ELSE outer.req \cup inner.req
           ecs == AfterJoin(eq_classes, joinrel, outer.rel, inner.rel)
           restrictlist == build_joinrel_restrictlist(eq_classes, outer, inner)
           clauses == IF nestloop THEN KeptByNestloop(restrictlist, outer, inner) ELSE restrictlist
           joinlist == build_joinrel_joinlist(joinrel, outer, inner)
           extra == get_joinrel_parampathinfo(ecs, joinlist, outer, inner, req)
<1>1. /\ outer # inner /\ eq_classes' = AfterParam(ecs, outer, inner, req) /\ UNCHANGED <<query, quals>>
  BY DEF Join
<1>2. PICK text : forest' = (forest \ {outer, inner}) \cup {Built(outer, inner, clauses, req, extra, material, text)}
  BY DEF Join
<1> DEFINE path == Built(outer, inner, clauses, req, extra, material, text)
<1>3. /\ path.rel = joinrel /\ path.req = req /\ path.joininfo = joinlist
      /\ path.enforced = outer.enforced \cup inner.enforced \cup clauses \cup extra
      /\ path.given = outer.given \cup inner.given
  BY DEF Built
<1>4. forest' = (forest \ {outer, inner}) \cup {path}
  BY <1>2
<1>5. /\ MergeInv /\ eq_classes \subseteq ClassType /\ ec_merging_done /\ outer.rel \cap inner.rel = {}
      /\ PlainPath(outer) /\ PlainPath(inner)
  BY <1>1 DEF JoinInv, Forest, Plain, MergeInv, ClassesWellFormed
<1>6. Aged(ecs, eq_classes)
  BY <1>5, AfterJoinAges
<1>7. Aged(eq_classes', eq_classes)
  BY <1>1, <1>5, <1>6, AgedClasses, AfterParamAges, AgedOn
<1> HIDE DEF path, req
<1>8. ASSUME NEW q, q = path, q.given = {} PROVE PlainPath(q)'
  <2>1. /\ outer.given = {} /\ inner.given = {} /\ outer.req = {} /\ inner.req = {}
        /\ TestsAll(outer) /\ TestsAll(inner)
    BY <1>3, <1>5, <1>8 DEF PlainPath
  <2>2. req = {}
    BY <2>1 DEF req, calc_nestloop_required_outer
  <2>3. clauses = restrictlist /\ eq_classes' = ecs
    BY <1>1, <2>1, <2>2 DEF KeptByNestloop, AfterParam
  <2>4. TestsAll(path)
    <3>1. ASSUME NEW c \in AllQuals, c.required # {}, c.required \subseteq joinrel PROVE c \in path.enforced
      <4>1. CASE c.required \subseteq outer.rel \/ c.required \subseteq inner.rel
        BY <1>3, <2>1, <3>1, <4>1 DEF TestsAll
      <4>2. CASE ~(c.required \subseteq outer.rel) /\ ~(c.required \subseteq inner.rel)
        <5>1. c \in outer.joininfo
          BY <2>1, <3>1, <4>2 DEF TestsAll
        <5>2. c \in restrictlist
          BY <3>1, <5>1 DEF build_joinrel_restrictlist, subbuild_joinrel_restrictlist
        <5>3. QED
          BY <1>3, <2>3, <5>2
      <4>3. QED
        BY <4>1, <4>2
    <3>2. ASSUME NEW c \in AllQuals, c.required \cap joinrel # {}, ~(c.required \subseteq joinrel) PROVE c \in joinlist
      <4>1. c \in outer.joininfo \cup inner.joininfo
        BY <2>1, <3>2 DEF TestsAll
      <4>2. QED
        BY <3>2, <4>1 DEF build_joinrel_joinlist
    <3>3. QED
      BY <1>3, <3>1, <3>2 DEF TestsAll
  <2>5. ASSUME NEW n \in eq_classes', ~n.has_const PROVE MakesEqual(path.enforced, n, joinrel)
    <3>1. PICK ec \in eq_classes : n = IF Concerned(ec, outer.rel, inner.rel)
                                       THEN Tried(ec, joinrel, outer.rel, inner.rel) ELSE ec
      BY <2>3 DEF AfterJoin
    <3>2. ~ec.has_const
      <4>1. Alike(Tried(ec, joinrel, outer.rel, inner.rel), ec)
        BY <1>5, TriedAlike
      <4>2. QED
        BY <2>5, <3>1, <4>1 DEF Alike
    <3>3. MakesEqual(outer.enforced, ec, outer.rel) /\ MakesEqual(inner.enforced, ec, inner.rel)
      BY <1>5, <2>1, <3>2 DEF PlainPath
    <3>4. outer.enforced \subseteq path.enforced /\ inner.enforced \subseteq path.enforced /\ restrictlist \subseteq path.enforced
      BY <1>3, <2>3
    <3>5. MakesEqual(path.enforced, ec, outer.rel) /\ MakesEqual(path.enforced, ec, inner.rel)
      BY <3>3, <3>4, EqualByMore
    <3>6. Concerned(ec, outer.rel, inner.rel) => JoinClauses(ec, joinrel, outer.rel, inner.rel) \subseteq path.enforced
      <4>1. generate_join_implied_equalities(eq_classes, joinrel, outer.rel, inner.rel) \subseteq restrictlist
        BY DEF build_joinrel_restrictlist
      <4>2. Concerned(ec, outer.rel, inner.rel) =>
              JoinClauses(ec, joinrel, outer.rel, inner.rel)
                \subseteq generate_join_implied_equalities(eq_classes, joinrel, outer.rel, inner.rel)
        BY DEF generate_join_implied_equalities
      <4>3. QED
        BY <3>4, <4>1, <4>2
    <3>7. QED
      BY <1>5, <3>1, <3>2, <3>5, <3>6, JoinEquates
  <2>6. ASSUME NEW n \in eq_classes', ~n.has_const PROVE MakesEqual(q.enforced, n, q.rel)'
    <3>1. MakesEqual(q.enforced, n, q.rel)
      BY <1>3, <1>8, <2>5, <2>6
    <3>2. QED
      BY <1>1, <3>1 DEF MakesEqual, Comparable, Equated, Within, Sides, IsConst
  <2>7. TestsAll(q)'
    BY <1>1, <1>8, <2>4 DEF TestsAll, AllQuals
  <2>8. QED
    BY <1>3, <1>8, <2>2, <2>6, <2>7 DEF PlainPath
<1>9. ASSUME NEW q, q = path PROVE PlainPath(q)'
  BY <1>8, <1>9 DEF PlainPath
<1>10. \A p \in forest' : PlainPath(p)'
  BY <1>1, <1>4, <1>5, <1>7, <1>9, PlainLater DEF Plain
<1>11. QED
  BY <1>10 DEF Plain

------------------------------------------------------------------------------
(* The invariant is inductive *)

LEMMA InitInv == Init => JoinInv
<1>1. SUFFICES ASSUME Init PROVE JoinInv
  OBVIOUS
<1>2. /\ query \in Queries /\ todo = query /\ eq_classes = {} /\ quals = {} /\ ec_merging_done = FALSE
      /\ forest = {} /\ scanned = {}
  BY <1>1 DEF Init, EcInit
<1>3. MergeInv
  BY <1>2 DEF MergeInv, ClassesWellFormed, Merging, Apart, Covered, Done, QualsPlaced, Unmerged
<1>4. Forest
  BY <1>2 DEF Forest
<1>5. QED
  BY <1>3, <1>4 DEF JoinInv

LEMMA NextInv == JoinInv /\ [Next]_vars => JoinInv'
<1>1. SUFFICES ASSUME JoinInv, [Next]_vars PROVE JoinInv'
  OBVIOUS
<1>2. MergeInv /\ eq_classes \subseteq ClassType
  BY <1>1 DEF JoinInv, MergeInv, ClassesWellFormed
<1>3. CASE EcNext /\ UNCHANGED <<forest, scanned>>
  <2>1. MergeInv' /\ (ec_merging_done => ec_merging_done')
    <3>1. ASSUME NEW p \in query, process_equivalence(p) PROVE MergeInv' /\ ec_merging_done' = ec_merging_done
      BY <1>2, <3>1, ProcessKeepsMerging DEF process_equivalence
    <3>2. CASE generate_base_implied_equalities
      BY <1>2, <3>2, BaseKeepsMerging DEF generate_base_implied_equalities
    <3>3. QED
      BY <1>3, <3>1, <3>2 DEF EcNext
  <2>2. Forest'
    BY <1>1, <1>3, <2>1 DEF JoinInv, Forest
  <2>3. QED
    BY <2>1, <2>2 DEF JoinInv
<1>4. ASSUME NEW r \in Rels \ scanned, NEW req \in SUBSET (Rels \ {r}), Scan(r, req) PROVE JoinInv'
  <2>1. /\ ec_merging_done /\ UNCHANGED <<query, todo, quals, ec_merging_done>>
        /\ eq_classes' = IF req = {} THEN eq_classes ELSE AfterJoin(eq_classes, {r} \cup req, req, {r})
    BY <1>4 DEF Scan
  <2>2. Aged(eq_classes', eq_classes)
    BY <1>2, <2>1, AfterJoinAges, AgedSame
  <2>3. MergeInv'
    BY <1>2, <2>1, <2>2, LaterKeepsMerging
  <2>4. Forest'
    BY <1>1, <1>4, ScanKeepsForest
  <2>5. QED
    BY <2>3, <2>4 DEF JoinInv
<1>5. ASSUME NEW outer \in forest, NEW inner \in forest, NEW nestloop \in BOOLEAN, NEW material \in BOOLEAN,
             Join(outer, inner, nestloop, material)
      PROVE  JoinInv'
  <2> DEFINE req == IF nestloop THEN calc_nestloop_required_outer(outer, inner) ELSE outer.req \cup inner.req
             ecs == AfterJoin(eq_classes, outer.rel \cup inner.rel, outer.rel, inner.rel)
  <2>1. UNCHANGED <<query, todo, quals, ec_merging_done>> /\ eq_classes' = AfterParam(ecs, outer, inner, req)
    BY <1>5 DEF Join
  <2>2. Aged(ecs, eq_classes)
    BY <1>2, AfterJoinAges
  <2> HIDE DEF req, ecs
  <2>3. Aged(eq_classes', eq_classes)
    BY <1>2, <2>1, <2>2, AgedClasses, AfterParamAges, AgedOn
  <2>4. ec_merging_done
    BY <1>1 DEF JoinInv, Forest
  <2>5. MergeInv'
    BY <1>2, <2>1, <2>3, <2>4, LaterKeepsMerging
  <2>6. Forest'
    BY <1>1, <1>5, JoinKeepsForest
  <2>7. QED
    BY <2>5, <2>6 DEF JoinInv
<1>6. ASSUME NEW outer, NEW inner, Explore(outer, inner) PROVE JoinInv'
  <2>1. /\ ec_merging_done /\ UNCHANGED <<query, todo, quals, ec_merging_done, forest, scanned>>
        /\ eq_classes' = AfterJoin(eq_classes, outer \cup inner, outer, inner)
    BY <1>6 DEF Explore
  <2>2. Aged(eq_classes', eq_classes)
    BY <1>2, <2>1, AfterJoinAges
  <2>3. MergeInv'
    BY <1>2, <2>1, <2>2, LaterKeepsMerging
  <2>4. Forest'
    BY <1>1, <2>1 DEF JoinInv, Forest
  <2>5. QED
    BY <2>3, <2>4 DEF JoinInv
<1>7. CASE UNCHANGED vars
  <2>1. UNCHANGED <<query, todo, eq_classes, quals, ec_merging_done, forest, scanned>>
    BY <1>7 DEF vars, ecVars
  <2>2. MergeInv'
    BY <1>2, <2>1 DEF MergeInv, ClassesWellFormed, Merging, Apart, Covered, RightClass, Done, QualsPlaced,
                      Anchored, OfOneClass, Unmerged
  <2>3. Forest'
    BY <1>1, <2>1 DEF JoinInv, Forest
  <2>4. QED
    BY <2>2, <2>3 DEF JoinInv
<1>8. QED
  BY <1>1, <1>3, <1>4, <1>5, <1>6, <1>7 DEF Next

\* With where the clauses are tested, what the relations were given and what is equal.
WholeInv == JoinInv /\ Placement /\ QualsGiven /\ Plain

LEMMA InitWhole == Init => WholeInv
<1>1. Init => forest = {} /\ ec_merging_done = FALSE
  BY DEF Init, EcInit
<1>2. QED
  BY <1>1, InitInv DEF WholeInv, Placement, QualsGiven, Plain

LEMMA RestLater ==
  ASSUME WholeInv, JoinInv', Aged(eq_classes', eq_classes),
         UNCHANGED <<query, todo, quals, ec_merging_done, forest>>
  PROVE  WholeInv'
<1>1. MergeInv
  BY DEF WholeInv, JoinInv
<1>2. \A p \in forest' : PlacedPath(p)'
  BY <1>1, PlacedLater DEF WholeInv, Placement
<1>3. \A p \in forest' : PlainPath(p)'
  BY <1>1, PlainLater DEF WholeInv, Plain
<1>4. QualsGiven'
  <2>1. CASE ec_merging_done
    BY <1>1, <2>1, GivenLater DEF WholeInv
  <2>2. CASE ~ec_merging_done
    BY <2>2 DEF QualsGiven
  <2>3. QED
    BY <2>1, <2>2
<1>5. QED
  BY <1>2, <1>3, <1>4 DEF WholeInv, Placement, Plain

LEMMA NextWhole == WholeInv /\ [Next]_vars => WholeInv'
<1>1. SUFFICES ASSUME WholeInv, [Next]_vars PROVE WholeInv'
  OBVIOUS
<1>2. JoinInv /\ MergeInv /\ JoinInv' /\ Placement /\ QualsGiven /\ Plain /\ eq_classes \subseteq ClassType
  BY <1>1, NextInv DEF WholeInv, JoinInv, MergeInv, ClassesWellFormed
<1>3. CASE EcNext /\ UNCHANGED <<forest, scanned>>
  <2>1. ~ec_merging_done
    BY <1>3 DEF EcNext, process_equivalence, generate_base_implied_equalities
  <2>2. forest = {} /\ forest' = {}
    BY <1>2, <1>3, <2>1 DEF JoinInv, Forest
  <2>3. QualsGiven'
    <3>1. ASSUME NEW p \in query, process_equivalence(p) PROVE QualsGiven'
      BY <2>1, <3>1 DEF QualsGiven, process_equivalence
    <3>2. CASE generate_base_implied_equalities
      BY <1>2, <3>2, BaseGives
    <3>3. QED
      BY <1>3, <3>1, <3>2 DEF EcNext
  <2>4. QED
    BY <1>2, <2>2, <2>3 DEF WholeInv, Placement, Plain
<1>4. ASSUME NEW r \in Rels \ scanned, NEW req \in SUBSET (Rels \ {r}), Scan(r, req) PROVE WholeInv'
  <2>1. /\ ec_merging_done /\ UNCHANGED <<todo, quals, ec_merging_done>>
        /\ eq_classes' = IF req = {} THEN eq_classes ELSE AfterJoin(eq_classes, {r} \cup req, req, {r})
    BY <1>4 DEF Scan
  <2>2. Aged(eq_classes', eq_classes)
    BY <1>2, <2>1, AfterJoinAges, AgedSame
  <2>3. QualsGiven'
    BY <1>2, <2>1, <2>2, GivenLater
  <2>4. Placement' /\ Plain'
    BY <1>2, <1>4, ScanPlaces, ScanPlain
  <2>5. QED
    BY <1>2, <2>3, <2>4 DEF WholeInv
<1>5. ASSUME NEW outer \in forest, NEW inner \in forest, NEW nestloop \in BOOLEAN, NEW material \in BOOLEAN,
             Join(outer, inner, nestloop, material)
      PROVE  WholeInv'
  <2> DEFINE req == IF nestloop THEN calc_nestloop_required_outer(outer, inner) ELSE outer.req \cup inner.req
             ecs == AfterJoin(eq_classes, outer.rel \cup inner.rel, outer.rel, inner.rel)
  <2>1. UNCHANGED <<todo, quals, ec_merging_done>> /\ eq_classes' = AfterParam(ecs, outer, inner, req)
    BY <1>5 DEF Join
  <2>2. Aged(ecs, eq_classes) /\ ec_merging_done
    BY <1>2, AfterJoinAges DEF JoinInv, Forest
  <2> HIDE DEF req, ecs
  <2>3. Aged(eq_classes', eq_classes)
    BY <1>2, <2>1, <2>2, AgedClasses, AfterParamAges, AgedOn
  <2>4. QualsGiven'
    BY <1>2, <2>1, <2>2, <2>3, GivenLater
  <2>5. Placement' /\ Plain'
    BY <1>2, <1>5, JoinPlaces, JoinPlain
  <2>6. QED
    BY <1>2, <2>4, <2>5 DEF WholeInv
<1>6. ASSUME NEW outer, NEW inner, Explore(outer, inner) PROVE WholeInv'
  <2>1. /\ UNCHANGED <<query, todo, quals, ec_merging_done, forest>>
        /\ eq_classes' = AfterJoin(eq_classes, outer \cup inner, outer, inner)
    BY <1>6 DEF Explore
  <2>2. Aged(eq_classes', eq_classes)
    BY <1>2, <2>1, AfterJoinAges
  <2>3. QED
    BY <1>1, <1>2, <2>1, <2>2, RestLater
<1>7. CASE UNCHANGED vars
  <2>1. UNCHANGED <<query, todo, eq_classes, quals, ec_merging_done, forest>>
    BY <1>7 DEF vars, ecVars
  <2>2. Aged(eq_classes', eq_classes)
    BY <1>2, <2>1, AgedSame
  <2>3. QED
    BY <1>1, <1>2, <2>1, <2>2, RestLater
<1>8. QED
  BY <1>1, <1>3, <1>4, <1>5, <1>6, <1>7 DEF Next

------------------------------------------------------------------------------
(* Theorems *)

\* What the invariant says of classes, in the words of the property: two expressions are in
\* one class exactly if every set closed under the clauses done has both or none.
LEMMA ComponentsFromMerging ==
  ASSUME ClassesWellFormed, Merging
  PROVE  LET done == query \ todo
             in == {p[1] : p \in done} \cup {p[2] : p \in done}
         IN /\ \A a, b \in in : EcOf(a) = EcOf(b) <=> Connected(done, a, b)
            /\ \A e \in in : Cardinality(EcOf(e)) = 1
            /\ \A ec \in eq_classes :
                 /\ ToSet(ec.members) \subseteq in /\ IsInjective(ec.members)
                 /\ ec.has_const <=> \E e \in ToSet(ec.members) : IsConst(e)
                 /\ Sides(ec.sources) = {p \in done : p[1] \in ToSet(ec.members)}
<1> DEFINE done == Done
           in == {p[1] : p \in done} \cup {p[2] : p \in done}
<1>1. \A p \in done : p[1] \in Exprs /\ p[2] \in Exprs
  BY ClauseOfQuery DEF ClassesWellFormed, Done
<1>2. \A p \in done : \E ec \in eq_classes : {p[1], p[2]} \subseteq Members(ec)
  BY DEF Merging, Covered
<1>3. \A ec1, ec2 \in eq_classes : Members(ec1) \cap Members(ec2) # {} => ec1 = ec2
  BY DEF Merging, Apart
<1>4. \A ec \in eq_classes :
        /\ \A e \in Members(ec) : \E p \in done : e \in {p[1], p[2]}
        /\ \A a, b \in Members(ec) : Linked(done, a, b)
        /\ IsInjective(ec.members)
        /\ ec.has_const <=> \E e \in Members(ec) : IsConst(e)
        /\ Sides(ec.sources) = {p \in done : p[1] \in Members(ec)}
  BY DEF Merging, RightClass
<1>5. ASSUME NEW e \in in PROVE \E ec \in eq_classes : EcOf(e) = {ec} /\ e \in Members(ec)
  <2>1. PICK p \in done : e \in {p[1], p[2]}
    BY <1>5
  <2>2. PICK ec \in eq_classes : e \in Members(ec)
    BY <1>2, <2>1
  <2>3. EcOf(e) = {ec}
    BY <1>3, <2>2 DEF EcOf, Members
  <2>4. QED
    BY <2>2, <2>3
<1>6. \A ec \in eq_classes : Members(ec) \subseteq in
  BY <1>4
<1>7. ASSUME NEW a \in in, NEW b \in in, EcOf(a) = EcOf(b) PROVE Connected(done, a, b)
  <2>1. PICK ec \in eq_classes : EcOf(a) = {ec} /\ a \in Members(ec)
    BY <1>5
  <2>2. b \in Members(ec)
    BY <1>5, <1>7, <2>1
  <2>3. Linked(done, a, b)
    BY <1>4, <2>1, <2>2
  <2>4. SUFFICES ASSUME NEW S \in SUBSET UNION {{p[1], p[2]} : p \in done},
                        \A p \in done : p[1] \in S <=> p[2] \in S
                 PROVE  a \in S <=> b \in S
    BY DEF Connected
  <2>5. S \in SUBSET Exprs
    BY <1>1
  <2>6. QED
    BY <2>3, <2>4, <2>5 DEF Linked
<1>8. ASSUME NEW a \in in, NEW b \in in, Connected(done, a, b) PROVE EcOf(a) = EcOf(b)
  <2>1. PICK ec \in eq_classes : EcOf(a) = {ec} /\ a \in Members(ec)
    BY <1>5
  <2>2. Members(ec) \in SUBSET UNION {{p[1], p[2]} : p \in done}
    BY <1>4
  <2>3. \A p \in done : p[1] \in Members(ec) <=> p[2] \in Members(ec)
    BY <1>2, <1>3
  <2>4. b \in Members(ec)
    BY <1>8, <2>1, <2>2, <2>3 DEF Connected
  <2>5. QED
    BY <1>3, <1>5, <2>1, <2>4
<1>9. \A e \in in : Cardinality(EcOf(e)) = 1
  BY <1>5, FS_Singleton
<1>10. QED
  BY <1>4, <1>6, <1>7, <1>8, <1>9 DEF Done, Members

LEMMA InvImpliesSound == JoinInv => ClassesSound
<1>1. SUFFICES ASSUME JoinInv PROVE ClassesSound
  OBVIOUS
<1>2. ClassesAreComponents
  <2>1. ClassesWellFormed /\ Merging
    BY <1>1 DEF JoinInv, MergeInv
  <2>2. QED
    BY <2>1, ComponentsFromMerging DEF ClassesAreComponents
<1>3. TypeOK
  <2>1. query \in Queries /\ todo \subseteq query /\ ec_merging_done \in BOOLEAN
    BY <1>1 DEF JoinInv, MergeInv, ClassesWellFormed
  <2>2. \A ec \in eq_classes : ec.members \in Seq(Exprs) /\ ec.broken \in BOOLEAN
    BY <1>1 DEF JoinInv, MergeInv, ClassesWellFormed, ClassType
  <2>3. \A p \in forest : p.rel \subseteq Rels /\ p.req \subseteq Rels \ p.rel
    BY <1>1 DEF JoinInv, Forest, RightPath
  <2>4. \A p, q \in forest : p = q \/ p.rel \cap q.rel = {}
    BY <1>1 DEF JoinInv, Forest
  <2>5. QED
    BY <2>1, <2>2, <2>3, <2>4 DEF TypeOK
<1>4. QED
  BY <1>2, <1>3 DEF ClassesSound

\* Whatever the query and the order its clauses come in, process_equivalence leaves one class
\* for each set of expressions they connect, with each clause a source of the class of its
\* sides; and the trees built afterwards are of different relations and take no parameters
\* from themselves.
THEOREM SoundClasses == Spec => []ClassesSound
<1>1. JoinInv /\ [Next]_vars => JoinInv'
  BY NextInv
<1>2. QED
  BY InitInv, <1>1, InvImpliesSound, PTL DEF Spec

\* Whatever a nested loop drops and a parameterised path takes over, every tree tests all
\* clauses other than equalities that it can, no clause that mentions other relations than
\* its own and its parameters', none that equates what is not of one class, and none twice.
THEOREM EveryClausePlaced == Spec => []ClausesPlaced
<1>1. WholeInv /\ [Next]_vars => WholeInv'
  BY NextWhole
<1>2. WholeInv => ClausesPlaced
  BY DEF WholeInv, JoinInv, Forest, RightPath, Placement, PlacedPath, Tests, OfOneClass, Members, ClausesPlaced
<1>3. QED
  BY InitWhole, <1>1, <1>2, PTL DEF Spec

\* A tree that passes no parameters makes equal both sides of each clause of the query whose
\* relations it has joined, and all that is computable there of a class unless this is broken,
\* at whatever moment of the search an operator was found to be missing.
THEOREM EqualInPlainTrees ==
  Spec => [](\A p \in forest : p.given = {} => \A ec \in eq_classes : MakesEqual(p.enforced, ec, p.rel))
<1>1. WholeInv /\ [Next]_vars => WholeInv'
  BY NextWhole
<1>2. ASSUME WholeInv, NEW p \in forest, p.given = {}, NEW ec \in eq_classes
      PROVE  MakesEqual(p.enforced, ec, p.rel)
  <2>1. /\ MergeInv /\ QualsGiven /\ ec_merging_done /\ p.rel \in SUBSET Rels /\ p.rel # {} /\ PlainPath(p)
    BY <1>2 DEF WholeInv, JoinInv, Forest, Placement, PlacedPath, Plain
  <2>2. CASE ~ec.has_const
    BY <1>2, <2>1, <2>2 DEF PlainPath
  <2>3. CASE ec.has_const
    <3>1. Given(p.rel) \subseteq p.enforced
      <4>1. ASSUME NEW c \in quals, c.required \subseteq p.rel PROVE c \in p.enforced
        <5>1. Anchored(c)
          BY <2>1 DEF MergeInv, QualsPlaced
        <5>2. c.required # {}
          BY <2>1, <5>1 DEF Anchored
        <5>3. QED
          BY <1>2, <2>1, <4>1, <5>2 DEF PlainPath, TestsAll, AllQuals
      <4>2. QED
        BY <4>1 DEF Given
    <3>2. QED
      BY <2>1, <2>3, <3>1, EqualFromQuals
  <2>4. QED
    BY <2>2, <2>3
<1>3. WholeInv => \A p \in forest : p.given = {} => \A ec \in eq_classes : MakesEqual(p.enforced, ec, p.rel)
  BY <1>2
<1>4. QED
  BY InitWhole, <1>1, <1>3, PTL DEF Spec

------------------------------------------------------------------------------
(***************************************************************************)
(* What join trees make equal that pass parameters.  A parameterised path  *)
(* takes what the other relations have equal for granted, and its joins    *)
(* leave clauses to the sides that have been given the values.  The        *)
(* argument follows one division of a class in two: if no clause of the    *)
(* tree crosses it, and the parameters are all on one side, then so is all *)
(* the tree can compute.  And what the text of a join names, which is made *)
(* of the paths of its sides.                                              *)
(***************************************************************************)

OneSided(S, T) == S \subseteq T \/ S \cap T = {}
Respects(c, T) == c.left \in T <=> c.right \in T
Uncut(ec, T, join, outer, inner) ==
  LET normal == JoinNormal(ec, join, outer, inner)
  IN ~normal.broken /\ \A c \in normal.clauses : Respects(c, T)

------------------------------------------------------------------------------
(* The clauses a class gives to a join                                     *)

\* They keep what is new at the join, and not of its inner side alone, on one side, and link
\* it to the inner side if that has any.
LEMMA CutLinks ==
  ASSUME NEW ec \in ClassType, \A e \in Members(ec) : relids[e] # {},
         NEW outer, NEW inner, outer \cap inner = {}, NEW T \in SUBSET Members(ec),
         NEW join, join = outer \cup inner,
         Uncut(ec, T, join, outer, inner),
         OneSided(Here(ec, outer), T)
  PROVE  LET new == Here(ec, join) \ Here(ec, inner)
         IN /\ OneSided(new, T)
            /\ new # {} /\ Here(ec, inner) # {} =>
                 \E c \in JoinNormal(ec, join, outer, inner).clauses : c.left \in new /\ c.right \in Here(ec, inner)
<1> DEFINE Computable(rel) == {i \in DOMAIN ec.members : relids[ec.members[i]] \subseteq rel}
           outer_members == Computable(join) \cap Computable(outer)
           inner_members == (Computable(join) \cap Computable(inner)) \ outer_members
           new_members   == Computable(join) \ (outer_members \cup inner_members)
           cross == CrossPairs(ec.members, outer_members, inner_members)
           old == Firsts(IF outer_members # {} THEN outer_members ELSE inner_members)
           pairs == NewPairs(new_members, old)
           Made(p, derived) == Clause(ec.members[p[1]], ec.members[p[2]], derived)
           made == JoinNormal(ec, join, outer, inner).clauses
           In(i) == ec.members[i] \in T
           P == {i \in DOMAIN ec.members : In(i)}
<1>1. /\ Len(ec.members) \in Nat /\ DOMAIN ec.members = 1..Len(ec.members)
      /\ \A i \in DOMAIN ec.members : ec.members[i] \in Exprs /\ ec.members[i] \in Members(ec)
      /\ \A e \in Members(ec) : \E i \in DOMAIN ec.members : ec.members[i] = e
  BY MemberPositions
<1>2. /\ ~(outer_members # {} /\ inner_members # {} /\ cross = {})
      /\ {Made(p, TRUE) : p \in cross} \cup {Made(p, FALSE) : p \in pairs} \subseteq made
  BY DEF Uncut, JoinNormal
<1>3. \A p, derived : Made(p, derived).left = ec.members[p[1]] /\ Made(p, derived).right = ec.members[p[2]]
  BY DEF Clause
<1>4. ASSUME NEW p, NEW derived, Made(p, derived) \in made PROVE In(p[1]) <=> In(p[2])
  BY <1>3, <1>4 DEF Uncut, Respects
<1>5. /\ outer_members \subseteq DOMAIN ec.members /\ inner_members \subseteq DOMAIN ec.members
      /\ new_members \subseteq DOMAIN ec.members
      /\ Computable(join) = outer_members \cup inner_members \cup new_members
  OBVIOUS
\* The positions and the members at them.
<1>6. /\ \A i \in inner_members : ec.members[i] \in Here(ec, inner)
      /\ \A i \in outer_members \cup new_members : ec.members[i] \in Here(ec, join) \ Here(ec, inner)
      /\ \A e \in Here(ec, inner) : \E i \in inner_members : ec.members[i] = e
      /\ \A e \in Here(ec, join) \ Here(ec, inner) : \E i \in outer_members \cup new_members : ec.members[i] = e
  <2>1. \A i \in DOMAIN ec.members : relids[ec.members[i]] # {}
    BY <1>1
  <2>2. \A i \in inner_members : ec.members[i] \in Here(ec, inner)
    BY <1>1 DEF Here, Within
  <2>3. \A i \in outer_members \cup new_members : ec.members[i] \in Here(ec, join) \ Here(ec, inner)
    BY <1>1, <2>1 DEF Here, Within
  <2>4. \A e \in Here(ec, inner) : \E i \in inner_members : ec.members[i] = e
    BY <1>1 DEF Here, Within
  <2>5. \A e \in Here(ec, join) \ Here(ec, inner) : \E i \in outer_members \cup new_members : ec.members[i] = e
    BY <1>1 DEF Here, Within
  <2>6. QED
    BY <2>2, <2>3, <2>4, <2>5
<1>7. \A i, j \in outer_members : In(i) <=> In(j)
  <2>1. \A i \in outer_members : ec.members[i] \in Here(ec, outer)
    BY <1>1 DEF Here, Within
  <2>2. QED
    BY <2>1 DEF OneSided
<1> HIDE DEF Computable, outer_members, inner_members, new_members, cross, Made, made
<1>8. \A i, j \in new_members : In(i) <=> In(j)
  <2>1. ASSUME NEW p \in Chain(new_members) PROVE p[1] \in P <=> p[2] \in P
    <3>1. p \in pairs /\ p[1] \in new_members /\ p[2] \in new_members
      BY <2>1 DEF NewPairs, Chain
    <3>2. In(p[1]) <=> In(p[2])
      BY <1>2, <1>4, <3>1
    <3>3. QED
      BY <1>5, <3>1, <3>2
  <2>2. new_members \in SUBSET (1..Len(ec.members))
    BY <1>1, <1>5
  <2> HIDE DEF P
  <2>3. \A i, j \in new_members : i \in P <=> j \in P
    BY <1>1, <2>1, <2>2, ChainHolds
  <2>4. QED
    BY <1>5, <2>3 DEF P
\* The last new position is paired with the first of the older ones.
<1>9. ASSUME NEW O, O \subseteq DOMAIN ec.members, O # {}, old = Firsts(O), new_members # {}
      PROVE  \E n \in new_members, o \in O : Made(<<n, o>>, FALSE) \in made
  <2>1. PICK last \in Lasts(new_members) : TRUE
    <3>1. new_members \in SUBSET (1..Len(ec.members))
      BY <1>1, <1>5
    <3>2. QED
      BY <1>1, <1>9, <3>1, GreatestPosition
  <2>2. PICK first \in Firsts(O) : TRUE
    <3>1. O \in SUBSET Nat
      BY <1>1, <1>9
    <3>2. QED
      BY <1>9, <3>1, LeastPosition
  <2>3. <<last, first>> \in pairs /\ last \in new_members /\ first \in O
    BY <1>9, <2>1, <2>2 DEF NewPairs, Lasts, Firsts
  <2>4. Made(<<last, first>>, FALSE) \in made
    BY <1>2, <2>3
  <2>5. QED
    BY <2>3, <2>4
<1>10. \A i, j \in outer_members \cup new_members : In(i) <=> In(j)
  <2>1. ASSUME NEW i \in new_members, NEW j \in outer_members PROVE In(i) <=> In(j)
    <3>1. old = Firsts(outer_members)
      BY <2>1
    <3>2. PICK n \in new_members, o \in outer_members : Made(<<n, o>>, FALSE) \in made
      <4> HIDE DEF old
      <4>1. QED
        BY <1>5, <1>9, <2>1, <3>1
    <3>3. In(n) <=> In(o)
      <4>1. Made(<<n, o>>, FALSE) \in made => (In(<<n, o>>[1]) <=> In(<<n, o>>[2]))
        BY <1>4
      <4>2. QED
        BY <3>2, <4>1
    <3>4. QED
      BY <1>7, <1>8, <2>1, <3>3
  <2>2. QED
    BY <1>7, <1>8, <2>1
<1>11. ASSUME outer_members \cup new_members # {}, inner_members # {}
       PROVE  \E n \in outer_members \cup new_members, i \in inner_members, derived \in BOOLEAN :
                Made(<<n, i>>, derived) \in made
  <2>1. CASE outer_members # {}
    <3>1. PICK p \in cross : TRUE
      BY <1>2, <1>11, <2>1
    <3>2. p \in outer_members \X inner_members
      BY <3>1, CrossWithin DEF cross
    <3>3. PICK n \in outer_members, i \in inner_members : p = <<n, i>>
      BY <3>2
    <3>4. Made(<<n, i>>, TRUE) \in made
      BY <1>2, <3>1, <3>3
    <3>5. QED
      BY <3>4
  <2>2. CASE outer_members = {}
    <3>1. old = Firsts(inner_members) /\ new_members # {}
      BY <1>11, <2>2
    <3>2. PICK n \in new_members, i \in inner_members : Made(<<n, i>>, FALSE) \in made
      <4> HIDE DEF old
      <4>1. QED
        BY <1>5, <1>9, <1>11, <3>1
    <3>3. QED
      BY <3>2
  <2>3. QED
    BY <2>1, <2>2
<1> DEFINE new == Here(ec, join) \ Here(ec, inner)
<1>12. OneSided(new, T)
  <2>1. ASSUME NEW e \in new, NEW f \in new PROVE e \in T <=> f \in T
    <3>1. PICK i \in outer_members \cup new_members : ec.members[i] = e
      BY <1>6, <2>1
    <3>2. PICK j \in outer_members \cup new_members : ec.members[j] = f
      BY <1>6, <2>1
    <3>3. In(i) <=> In(j)
      BY <1>10
    <3>4. QED
      BY <3>1, <3>2, <3>3
  <2> HIDE DEF new
  <2>2. QED
    BY <2>1 DEF OneSided
<1>13. ASSUME new # {}, Here(ec, inner) # {}
       PROVE  \E c \in made : c.left \in new /\ c.right \in Here(ec, inner)
  <2>1. outer_members \cup new_members # {} /\ inner_members # {}
    BY <1>6, <1>13
  <2>2. PICK n \in outer_members \cup new_members, i \in inner_members, derived \in BOOLEAN :
          Made(<<n, i>>, derived) \in made
    BY <1>11, <2>1
  <2>3. /\ Made(<<n, i>>, derived).left = ec.members[n] /\ Made(<<n, i>>, derived).right = ec.members[i]
    BY <1>3
  <2>4. QED
    BY <1>6, <2>2, <2>3
<1>14. QED
  BY <1>12, <1>13 DEF made

\* So they keep the whole on one side if they do both sides of the join.
LEMMA CutTies ==
  ASSUME NEW ec \in ClassType, \A e \in Members(ec) : relids[e] # {},
         NEW outer, NEW inner, outer \cap inner = {}, NEW T \in SUBSET Members(ec),
         NEW join, join = outer \cup inner,
         Uncut(ec, T, join, outer, inner),
         OneSided(Here(ec, outer), T), OneSided(Here(ec, inner), T)
  PROVE  OneSided(Here(ec, join), T)
<1> DEFINE new == Here(ec, join) \ Here(ec, inner)
<1>1. /\ OneSided(new, T)
      /\ new # {} /\ Here(ec, inner) # {} =>
           \E c \in JoinNormal(ec, join, outer, inner).clauses : c.left \in new /\ c.right \in Here(ec, inner)
  BY CutLinks
<1>2. Here(ec, join) = new \cup Here(ec, inner)
  BY DEF Here, Within
<1> HIDE DEF new
<1>3. QED
  BY <1>1, <1>2 DEF OneSided, Uncut, Respects

\* A class that has no members on one side has no more at the join than on the other.
LEMMA ConcernedTies ==
  ASSUME NEW ec \in ClassType, ~ec.has_const, \A e \in Members(ec) : relids[e] # {},
         NEW outer, NEW inner, outer \cap inner = {}, NEW T \in SUBSET Members(ec),
         NEW join, join = outer \cup inner,
         Concerned(ec, outer, inner) => Uncut(ec, T, join, outer, inner),
         OneSided(Here(ec, outer), T), OneSided(Here(ec, inner), T)
  PROVE  OneSided(Here(ec, join), T)
<1>1. CASE Concerned(ec, outer, inner)
  BY <1>1, CutTies
<1>2. CASE ~Concerned(ec, outer, inner)
  <2>1. (\A e \in Members(ec) : relids[e] \cap outer = {}) \/ (\A e \in Members(ec) : relids[e] \cap inner = {})
    BY <1>2 DEF Concerned, ec_relids, Members
  <2>2. Here(ec, join) \subseteq Here(ec, inner) \/ Here(ec, join) \subseteq Here(ec, outer)
    BY <2>1 DEF Here, Within
  <2>3. QED
    BY <2>2 DEF OneSided
<1>3. QED
  BY <1>1, <1>2

------------------------------------------------------------------------------
(* A join whose sides take parameters *)

LEMMA InSideMeans ==
  ASSUME NEW p, NEW c, InSide(c, p)
  PROVE  clause_relids(c) \subseteq p.rel \cup p.req
BY DEF InSide, join_clause_is_movable_into, and_req

LEMMA ThreeMembers ==
  ASSUME NEW ec \in ClassType, ~(Len(ec.members) > 3), NEW h \in Members(ec), NEW j \in Members(ec),
         NEW k \in Members(ec), h # j, h # k, j # k, NEW e \in Members(ec)
  PROVE  e \in {h, j, k}
<1>1. Len(ec.members) \in Nat /\ DOMAIN ec.members = 1..Len(ec.members)
  BY MemberPositions
<1>2. PICK a \in DOMAIN ec.members : ec.members[a] = h
  BY MemberPositions
<1>3. PICK b \in DOMAIN ec.members : ec.members[b] = j
  BY MemberPositions
<1>4. PICK c \in DOMAIN ec.members : ec.members[c] = k
  BY MemberPositions
<1>5. PICK d \in DOMAIN ec.members : ec.members[d] = e
  BY MemberPositions
<1>6. a # b /\ a # c /\ b # c
  BY <1>2, <1>3, <1>4
<1>7. d \in {a, b, c}
  BY <1>1, <1>6
<1>8. QED
  BY <1>2, <1>3, <1>4, <1>5, <1>7

\* What a tree computes for a class is on one side if its parameters are: with the clauses
\* it enforces respected, and those left to a side, because this has been given the values.
LEMMA CutOfJoin ==
  ASSUME NEW ec, SoundClass(ec), ~ec.broken, ~ec.has_const, ~Tangled(ec),
         \A e \in Members(ec) : IsFiniteSet(relids[e]),
         NEW outer, NEW inner, outer.rel \cap inner.rel = {}, NEW joinrel, joinrel = outer.rel \cup inner.rel,
         NEW req, req \cap joinrel = {}, outer.req \subseteq req, inner.req \subseteq outer.rel \cup req,
         inner.req \cap inner.rel = {}, req \subseteq outer.req \cup inner.req,
         NEW T \in SUBSET Members(ec), OneSided(Here(ec, req), T),
         OneSided(Here(ec, outer.req), T) => OneSided(Here(ec, outer.rel \cup outer.req), T),
         OneSided(Here(ec, inner.req), T) => OneSided(Here(ec, inner.rel \cup inner.req), T),
         Concerned(ec, outer.rel, inner.rel) =>
           LET normal == JoinNormal(ec, joinrel, outer.rel, inner.rel)
           IN ~normal.broken /\ \A c \in normal.clauses : InSide(c, inner) \/ Respects(c, T),
         Concerned(ec, req, joinrel) =>
           LET normal == JoinNormal(ec, joinrel \cup req, req, joinrel)
               retied == JoinNormal(ec, outer.rel \cup req, req, outer.rel)
           IN /\ ~normal.broken
              /\ \A c \in normal.clauses : InSide(c, outer) \/ InSide(c, inner) \/ Respects(c, T)
              /\ (\E c \in normal.clauses : ~InSide(c, outer) /\ InSide(c, inner)) =>
                   ~retied.broken /\ \A c \in retied.clauses : InSide(c, outer) \/ Respects(c, T)
  PROVE  OneSided(Here(ec, joinrel \cup req), T)
<1> DEFINE whole == joinrel \cup req
           near == outer.rel \cup req
           joined == JoinNormal(ec, joinrel, outer.rel, inner.rel)
           normal == JoinNormal(ec, whole, req, joinrel)
           retied == JoinNormal(ec, near, req, outer.rel)
<1>1. /\ ec \in ClassType /\ \A e \in Members(ec) : relids[e] # {}
      /\ Members(ec) \subseteq Exprs
  BY MemberPositions DEF SoundClass, IsConst
<1>2. Concerned(ec, outer.rel, inner.rel) => \A c \in joined.clauses :
        {c.left, c.right} \subseteq Members(ec) /\ clause_relids(c) \subseteq joinrel
  <2>1. ASSUME Concerned(ec, outer.rel, inner.rel), NEW c \in joined.clauses
        PROVE  {c.left, c.right} \subseteq Members(ec) /\ clause_relids(c) \subseteq joinrel
    <3>1. c \in JoinClauses(ec, outer.rel \cup inner.rel, outer.rel, inner.rel)
      BY <2>1 DEF JoinClauses
    <3>2. QED
      BY <3>1, ClausesOfJoin
  <2>2. QED
    BY <2>1
<1>3. Concerned(ec, req, joinrel) => \A c \in normal.clauses :
        {c.left, c.right} \subseteq Members(ec) /\ clause_relids(c) \subseteq whole
  <2>1. ASSUME Concerned(ec, req, joinrel), NEW c \in normal.clauses
        PROVE  {c.left, c.right} \subseteq Members(ec) /\ clause_relids(c) \subseteq whole
    <3>1. c \in JoinClauses(ec, req \cup joinrel, req, joinrel)
      <4>1. whole = req \cup joinrel
        OBVIOUS
      <4>2. QED
        BY <2>1, <4>1 DEF JoinClauses
    <3>2. QED
      BY <3>1, ClausesOfJoin
  <2>2. QED
    BY <2>1
<1>4. Concerned(ec, req, joinrel) /\ ~retied.broken => \A c \in retied.clauses :
        {c.left, c.right} \subseteq Members(ec)
  <2>1. ASSUME ~retied.broken, NEW c \in retied.clauses
        PROVE  {c.left, c.right} \subseteq Members(ec)
    <3>1. c \in JoinClauses(ec, req \cup outer.rel, req, outer.rel)
      <4>1. near = req \cup outer.rel
        OBVIOUS
      <4>2. QED
        BY <2>1, <4>1 DEF JoinClauses
    <3>2. req \cap outer.rel = {}
      OBVIOUS
    <3>3. QED
      BY <3>1, <3>2, ClausesOfJoin
  <2>2. QED
    BY <2>1
<1>5. \A rel, more : rel \subseteq more => Here(ec, rel) \subseteq Here(ec, more)
  BY DEF Here, Within
<1>6. \A S, R : R \subseteq S /\ OneSided(S, T) => OneSided(R, T)
  BY DEF OneSided
<1>7. OneSided(Here(ec, outer.rel \cup outer.req), T) /\ OneSided(Here(ec, outer.rel), T)
  BY <1>5, <1>6
<1>8. \A p, c : /\ InSide(c, p) /\ {c.left, c.right} \subseteq Members(ec)
                /\ OneSided(Here(ec, p.rel \cup p.req), T)
                => Respects(c, T)
  <2>1. ASSUME NEW p, NEW c, InSide(c, p), {c.left, c.right} \subseteq Members(ec),
               OneSided(Here(ec, p.rel \cup p.req), T)
        PROVE  Respects(c, T)
    <3>1. clause_relids(c) \subseteq p.rel \cup p.req
      BY <2>1, InSideMeans
    <3>2. c.left \in Here(ec, p.rel \cup p.req) /\ c.right \in Here(ec, p.rel \cup p.req)
      BY <1>1, <2>1, <3>1 DEF Here, Within, clause_relids
    <3>3. QED
      BY <2>1, <3>2 DEF OneSided, Respects
  <2>2. QED
    BY <2>1
<1>9. \A o, i, join : /\ o \cap i = {} /\ join = o \cup i
                      /\ Concerned(ec, o, i) => Uncut(ec, T, join, o, i)
                      /\ OneSided(Here(ec, o), T) /\ OneSided(Here(ec, i), T)
                      => OneSided(Here(ec, join), T)
  BY <1>1, ConcernedTies
<1> HIDE DEF joined, normal, retied
\* The inner side may rely on its parameters.
<1>10. ASSUME OneSided(Here(ec, inner.req), T) PROVE OneSided(Here(ec, whole), T)
  <2>1. OneSided(Here(ec, inner.rel \cup inner.req), T) /\ OneSided(Here(ec, inner.rel), T)
    BY <1>5, <1>6, <1>10
  <2>2. Concerned(ec, outer.rel, inner.rel) => Uncut(ec, T, joinrel, outer.rel, inner.rel)
    BY <1>2, <1>8, <2>1 DEF joined, Uncut
  <2>3. OneSided(Here(ec, joinrel), T)
    BY <1>7, <1>9, <2>1, <2>2
  <2>4. Concerned(ec, req, joinrel) => Uncut(ec, T, whole, req, joinrel)
    BY <1>3, <1>7, <1>8, <2>1 DEF normal, Uncut
  <2>5. req \cap joinrel = {} /\ whole = req \cup joinrel
    OBVIOUS
  <2>6. QED
    BY <1>9, <2>3, <2>4, <2>5
<1>11. Here(ec, inner.req) \subseteq Here(ec, near)
  BY <1>5
<1>12. CASE ~Concerned(ec, req, joinrel)
  <2>1. (\A e \in Members(ec) : relids[e] \cap req = {}) \/ (\A e \in Members(ec) : relids[e] \cap joinrel = {})
    BY <1>12 DEF Concerned, ec_relids, Members
  <2>2. Here(ec, inner.req) \subseteq Here(ec, outer.rel) \/ Here(ec, inner.req) \subseteq Here(ec, req)
    BY <2>1 DEF Here, Within
  <2>3. QED
    BY <1>6, <1>7, <1>10, <2>2
\* A class with a clause left to the inner side is tied to the outer side again.
<1>13. CASE Concerned(ec, req, joinrel) /\ \E c \in normal.clauses : ~InSide(c, outer) /\ InSide(c, inner)
  <2>1. Uncut(ec, T, near, req, outer.rel)
    BY <1>4, <1>7, <1>8, <1>13 DEF normal, retied, Uncut
  <2>2. req \cap outer.rel = {} /\ near = req \cup outer.rel
    OBVIOUS
  <2>3. OneSided(Here(ec, near), T)
    BY <1>7, <1>9, <2>1, <2>2
  <2>4. QED
    BY <1>6, <1>10, <1>11, <2>3
\* All that is new with the parameters is tied to the join, by a clause no side is left.
<1>14. CASE Concerned(ec, req, joinrel) /\ ~\E c \in normal.clauses : ~InSide(c, outer) /\ InSide(c, inner)
  <2> DEFINE new == Here(ec, whole) \ Here(ec, joinrel)
  <2>1. Uncut(ec, T, whole, req, joinrel)
    BY <1>3, <1>7, <1>8, <1>14 DEF normal, Uncut
  <2>2. /\ OneSided(new, T)
        /\ new # {} /\ Here(ec, joinrel) # {} =>
             \E c \in normal.clauses : c.left \in new /\ c.right \in Here(ec, joinrel)
    <3> DEFINE Linking(o, i, join) ==
                 \E c \in JoinNormal(ec, join, o, i).clauses :
                   c.left \in Here(ec, join) \ Here(ec, i) /\ c.right \in Here(ec, i)
    <3>1. req \cap joinrel = {} /\ whole = req \cup joinrel
      OBVIOUS
    <3>2. \A o, i, join : /\ o \cap i = {} /\ join = o \cup i /\ Uncut(ec, T, join, o, i)
                          /\ OneSided(Here(ec, o), T)
                          => /\ OneSided(Here(ec, join) \ Here(ec, i), T)
                             /\ Here(ec, join) \ Here(ec, i) # {} /\ Here(ec, i) # {} => Linking(o, i, join)
      BY <1>1, CutLinks
    <3> HIDE DEF Linking
    <3>3. /\ OneSided(new, T)
          /\ new # {} /\ Here(ec, joinrel) # {} => Linking(req, joinrel, whole)
      BY <2>1, <3>1, <3>2
    <3>4. QED
      BY <3>3 DEF Linking, normal
  <2>3. SUFFICES ASSUME ~OneSided(Here(ec, inner.req), T) PROVE FALSE
    BY <1>10
  <2>4. Here(ec, inner.req) \subseteq new \cup Here(ec, outer.rel) /\ Here(ec, outer.rel) \subseteq Here(ec, joinrel)
    BY DEF Here, Within
  <2> HIDE DEF new
  <2>5. PICK h \in Here(ec, outer.rel), k \in new : /\ {h, k} \subseteq Here(ec, inner.req)
                                                    /\ ~(h \in T <=> k \in T)
    BY <1>7, <2>2, <2>3, <2>4 DEF OneSided
  <2>6. PICK c \in normal.clauses : c.left \in new /\ c.right \in Here(ec, joinrel)
    BY <2>2, <2>4, <2>5
  <2> DEFINE n == c.left
             j == c.right
  <2>7. (n \in T <=> k \in T) /\ (j \in T <=> k \in T) /\ ~(j \in T <=> h \in T)
    BY <2>1, <2>2, <2>5, <2>6 DEF OneSided, Respects, Uncut, normal
  <2>8. j \notin Here(ec, outer.rel)
    BY <1>7, <2>5, <2>7 DEF OneSided
  <2> HIDE DEF n, j
  <2>9. /\ n \in Members(ec) /\ relids[n] \subseteq whole /\ ~(relids[n] \subseteq joinrel)
        /\ j \in Members(ec) /\ relids[j] \subseteq joinrel /\ relids[j] \cap inner.rel # {}
        /\ h \in Members(ec) /\ relids[h] \subseteq outer.rel /\ relids[h] \subseteq inner.req /\ relids[h] # {}
        /\ k \in Members(ec) /\ ~(relids[k] \subseteq joinrel)
        /\ clause_relids(c) = relids[n] \cup relids[j]
    BY <1>1, <2>5, <2>6, <2>8 DEF new, n, j, Here, Within, clause_relids
  <2>10. ~(relids[n] \cup relids[j] \subseteq inner.rel \cup inner.req)
    <3>1. ~InSide(c, outer)
      <4>1. ~(relids[j] \subseteq outer.rel \cup outer.req)
        BY <2>9
      <4>2. QED
        BY <2>9, <4>1, InSideMeans
    <3>2. ~InSide(c, inner)
      BY <1>14, <3>1
    <3>3. QED
      BY <2>9, <3>2, InSideOf
  <2>11. CASE \A e \in Members(ec) : ~Multiple(relids[e])
    <3>1. \A e \in Members(ec) : \A x, y \in relids[e] : x = y
      BY <2>11, TwoAreMultiple
    <3>2. relids[j] \subseteq inner.rel
      BY <2>9, <3>1
    <3>3. relids[n] \subseteq outer.req
      BY <2>9, <2>10, <3>1, <3>2
    <3>4. n \in Here(ec, outer.rel \cup outer.req) /\ h \in Here(ec, outer.rel \cup outer.req)
      BY <1>1, <2>9, <3>3 DEF Here, Within
    <3>5. QED
      BY <1>7, <2>7, <3>4 DEF OneSided
  <2>12. CASE ~(Len(ec.members) > 3)
    <3>1. h # j /\ h # k /\ j # k
      BY <2>7, <2>9
    <3>2. \A e \in Members(ec) : e \in {h, j, k}
      BY <1>1, <2>9, <2>12, <3>1, ThreeMembers
    <3>3. n = k
      BY <2>7, <2>9, <3>2
    <3>4. ~(relids[j] \subseteq inner.rel \cup inner.req)
      BY <1>1, <2>5, <2>10, <3>3 DEF Here, Within
    <3>5. Concerned(ec, outer.rel, inner.rel) => Uncut(ec, T, joinrel, outer.rel, inner.rel)
      <4>1. ASSUME Concerned(ec, outer.rel, inner.rel), NEW d \in joined.clauses, InSide(d, inner)
            PROVE  Respects(d, T)
        <5>1. {d.left, d.right} \subseteq Members(ec) /\ relids[d.left] \cup relids[d.right] \subseteq joinrel
          BY <1>2, <4>1 DEF clause_relids
        <5>2. relids[d.left] \cup relids[d.right] \subseteq inner.rel \cup inner.req
          BY <4>1, InSideMeans DEF clause_relids
        <5>3. d.left \notin {j, k} /\ d.right \notin {j, k}
          BY <2>9, <3>4, <5>1, <5>2
        <5>4. d.left = h /\ d.right = h
          BY <3>2, <5>1, <5>3
        <5>5. QED
          BY <5>4 DEF Respects
      <4>2. QED
        BY <4>1 DEF joined, Uncut
    <3>6. Here(ec, inner.rel) = {}
      BY <2>9, <3>2, <3>4 DEF Here, Within
    <3>7. OneSided(Here(ec, joinrel), T)
      <4>1. OneSided(Here(ec, inner.rel), T)
        BY <3>6 DEF OneSided
      <4>2. QED
        BY <1>7, <1>9, <3>5, <4>1
    <3>8. h \in Here(ec, joinrel) /\ j \in Here(ec, joinrel)
      BY <2>4, <2>5, <2>6 DEF j
    <3>9. QED
      BY <2>7, <3>7, <3>8 DEF OneSided
  <2>13. QED
    BY <2>11, <2>12 DEF Tangled, Members
<1>15. QED
  BY <1>12, <1>13, <1>14

------------------------------------------------------------------------------
(* Classes that joins have not broken *)

LEMMA UnbrokenSame ==
  ASSUME NEW n, NEW o \in ClassType, Alike(n, o), ~n.broken
  PROVE  n = o
BY DEF Alike, ClassType

LEMMA UnbrokenTried ==
  ASSUME NEW ec \in ClassType, NEW join, NEW outer, NEW inner, ~Tried(ec, join, outer, inner).broken
  PROVE  Tried(ec, join, outer, inner) = ec /\ ~JoinNormal(ec, join, outer, inner).broken
<1>1. Tried(ec, join, outer, inner) = ec
  BY TriedAlike, UnbrokenSame
<1> DEFINE now == JoinNormal(ec, join, outer, inner).broken
<1>2. Tried(ec, join, outer, inner) = [ec EXCEPT !.broken = ec.broken \/ now]
  BY DEF Tried
<1> HIDE DEF now
<1>3. Tried(ec, join, outer, inner).broken = (ec.broken \/ now)
  BY <1>2 DEF ClassType
<1>4. ~now
  BY <1>3
<1>5. QED
  BY <1>1, <1>4 DEF now

LEMMA UnbrokenAfterJoin ==
  ASSUME NEW ecs \in SUBSET ClassType, NEW join, NEW outer, NEW inner,
         NEW n \in AfterJoin(ecs, join, outer, inner), ~n.broken
  PROVE  n \in ecs /\ (Concerned(n, outer, inner) => ~JoinNormal(n, join, outer, inner).broken)
<1>1. PICK ec \in ecs : n = IF Concerned(ec, outer, inner) THEN Tried(ec, join, outer, inner) ELSE ec
  BY DEF AfterJoin
<1>2. QED
  BY <1>1, UnbrokenTried

\* The class of a clause left to the inner side is tied again.
LEMMA TiedAgain ==
  ASSUME NEW ecs, NEW n \in ecs, ~n.broken, NEW outer, NEW inner, NEW req, NEW joinrel,
         joinrel = outer.rel \cup inner.rel, Concerned(n, req, joinrel),
         ~JoinNormal(n, joinrel \cup req, req, joinrel).broken,
         NEW c \in JoinNormal(n, joinrel \cup req, req, joinrel).clauses,
         c.left \in Members(n), ~InSide(c, outer), InSide(c, inner)
  PROVE  n \in dropped_ecs(ecs, outer, inner, req)
<1>1. c \in JoinClauses(n, joinrel \cup req, req, joinrel)
  BY DEF JoinClauses
<1>2. c \in generate_join_implied_equalities(ecs, joinrel \cup req, req, joinrel)
  BY <1>1 DEF generate_join_implied_equalities
<1>3. c \in ParamClauses(ecs, outer.rel \cup inner.rel, outer, req)
  BY <1>2 DEF ParamClauses
<1>4. ~n.has_const /\ ec_relids(n) \cap (outer.rel \cup req) # {}
  BY DEF Concerned
<1>5. QED
  BY <1>3, <1>4 DEF dropped_ecs, Members

LEMMA UnbrokenAfterParam ==
  ASSUME NEW ecs \in SUBSET ClassType, NEW outer, NEW inner, NEW req, NEW joinrel,
         joinrel = outer.rel \cup inner.rel,
         NEW n \in AfterParam(ecs, outer, inner, req), ~n.broken
  PROVE  /\ n \in ecs
         /\ Concerned(n, req, joinrel) =>
              /\ ~JoinNormal(n, joinrel \cup req, req, joinrel).broken
              /\ (\E c \in JoinNormal(n, joinrel \cup req, req, joinrel).clauses :
                    c.left \in Members(n) /\ ~InSide(c, outer) /\ InSide(c, inner)) =>
                   ~JoinNormal(n, outer.rel \cup req, req, outer.rel).broken
<1> DEFINE asked == AfterJoin(ecs, joinrel \cup req, req, joinrel)
<1>1. CASE req = {}
  <2>1. n \in ecs
    BY <1>1 DEF AfterParam
  <2>2. ~Concerned(n, req, joinrel)
    BY <1>1 DEF Concerned
  <2>3. QED
    BY <2>1, <2>2
<1>2. CASE req # {}
  <2>1. asked \subseteq ClassType
    BY AfterJoinAges, AgedClasses
  <2>2. PICK ec \in asked : n = IF ec \in dropped_ecs(asked, outer, inner, req)
                                THEN Tried(ec, outer.rel \cup req, req, outer.rel) ELSE ec
    BY <1>2 DEF AfterParam
  <2> HIDE DEF asked
  <2>3. /\ n \in asked
        /\ n \in dropped_ecs(asked, outer, inner, req) => ~JoinNormal(n, outer.rel \cup req, req, outer.rel).broken
    BY <2>1, <2>2, UnbrokenTried
  <2>4. n \in ecs /\ (Concerned(n, req, joinrel) => ~JoinNormal(n, joinrel \cup req, req, joinrel).broken)
    BY <2>3, UnbrokenAfterJoin DEF asked
  <2>5. QED
    BY <2>3, <2>4, TiedAgain
<1>3. QED
  BY <1>1, <1>2

------------------------------------------------------------------------------
(* The inductive invariant *)

\* A path enforces what it can of all clauses that its relations are tested by, and carries
\* the rest to the joins above.
TakesOver(p) ==
  \A c \in AllQuals : c.required \cap p.rel # {} =>
    /\ c.required \subseteq p.rel \cup p.req /\ (p.req = {} \/ clause_relids(c) # {}) => c \in p.enforced
    /\ ~(c.required \subseteq p.rel) => c \in p.joininfo

\* It makes equal all it can compute of a class, given that its parameters are.
Assumed(req) == Within(req) \X Within(req)
MakesAlike(clauses, ec, rel, req) == Equated(Sides(clauses) \cup Assumed(req), ec, Here(ec, rel \cup req))
Tied(p) ==
  \A ec \in eq_classes : ~ec.broken /\ ~ec.has_const /\ ~Tangled(ec) => MakesAlike(p.enforced, ec, p.rel, p.req)

Parameterised == \A p \in forest : TakesOver(p) /\ Tied(p)
FullInv == WholeInv /\ Parameterised

LEMMA ParameterisedLater ==
  ASSUME MergeInv, Aged(eq_classes', eq_classes), UNCHANGED quals, NEW p, TakesOver(p), Tied(p)
  PROVE  TakesOver(p)' /\ Tied(p)'
<1>1. ASSUME NEW n \in eq_classes', ~n.broken, ~n.has_const, ~Tangled(n)
      PROVE  MakesAlike(p.enforced, n, p.rel, p.req)
  <2>1. PICK o \in eq_classes : Alike(n, o)
    BY AgedClasses DEF MergeInv, ClassesWellFormed
  <2>2. n = o
    BY <1>1, <2>1, UnbrokenSame DEF MergeInv, ClassesWellFormed
  <2>3. QED
    BY <1>1, <2>2 DEF Tied
<1>2. Tied(p)'
  BY <1>1 DEF Tied, MakesAlike, Assumed, Equated, Sides, Here, Within, Members, Tangled, Multiple
<1>3. TakesOver(p)'
  BY DEF TakesOver, AllQuals, clause_relids
<1>4. QED
  BY <1>2, <1>3

\* The premise and the conclusion as divisions of the class.
LEMMA AlikeCuts ==
  ASSUME NEW few, NEW clauses, few \subseteq clauses, NEW ec, NEW rel, NEW req, MakesAlike(few, ec, rel, req),
         NEW T \in SUBSET Members(ec),
         \A c \in clauses : {c.left, c.right} \subseteq Members(ec) => Respects(c, T),
         OneSided(Here(ec, req), T)
  PROVE  OneSided(Here(ec, rel \cup req), T)
<1>1. ASSUME NEW p \in Sides(few) \cup Assumed(req), {p[1], p[2]} \subseteq ToSet(ec.members)
      PROVE  p[1] \in T <=> p[2] \in T
  <2>1. CASE p \in Sides(few)
    <3>1. PICK c \in few : p = <<c.left, c.right>>
      BY <2>1 DEF Sides
    <3>2. Respects(c, T)
      BY <1>1, <3>1 DEF Members
    <3>3. QED
      BY <3>1, <3>2 DEF Respects
  <2>2. CASE p \in Assumed(req)
    <3>1. p[1] \in Here(ec, req) /\ p[2] \in Here(ec, req)
      BY <1>1, <2>2 DEF Assumed, Here, Members
    <3>2. QED
      BY <3>1 DEF OneSided
  <2>3. QED
    BY <1>1, <2>1, <2>2
<1>2. T \in SUBSET ToSet(ec.members)
  BY DEF Members
<1>3. QED
  BY <1>1, <1>2 DEF MakesAlike, Equated, OneSided

LEMMA AlikeFromCuts ==
  ASSUME NEW clauses, NEW ec, NEW rel, NEW req,
         \A T \in SUBSET Members(ec) :
           /\ \A c \in clauses : {c.left, c.right} \subseteq Members(ec) => Respects(c, T)
           /\ OneSided(Here(ec, req), T)
           => OneSided(Here(ec, rel \cup req), T)
  PROVE  MakesAlike(clauses, ec, rel, req)
<1>1. SUFFICES ASSUME NEW T \in SUBSET ToSet(ec.members),
                      \A p \in Sides(clauses) \cup Assumed(req) :
                        {p[1], p[2]} \subseteq ToSet(ec.members) => (p[1] \in T <=> p[2] \in T)
               PROVE  OneSided(Here(ec, rel \cup req), T)
  BY DEF MakesAlike, Equated, OneSided
<1>2. ASSUME NEW c \in clauses, {c.left, c.right} \subseteq Members(ec) PROVE Respects(c, T)
  <2>1. <<c.left, c.right>> \in Sides(clauses)
    BY DEF Sides
  <2>2. {<<c.left, c.right>>[1], <<c.left, c.right>>[2]} \subseteq ToSet(ec.members)
    BY <1>2 DEF Members
  <2>3. QED
    BY <1>1, <2>1, <2>2 DEF Respects
<1>3. OneSided(Here(ec, req), T)
  <2>1. ASSUME NEW a \in Here(ec, req), NEW b \in Here(ec, req) PROVE a \in T <=> b \in T
    <3>1. <<a, b>> \in Assumed(req)
      BY <2>1 DEF Assumed, Here
    <3>2. {<<a, b>>[1], <<a, b>>[2]} \subseteq ToSet(ec.members)
      BY <2>1 DEF Here, Members
    <3>3. QED
      BY <1>1, <3>1, <3>2
  <2>2. QED
    BY <2>1 DEF OneSided
<1>4. QED
  BY <1>1, <1>2, <1>3 DEF Members

------------------------------------------------------------------------------
(* Every step keeps it *)

\* A sound class without constants has expressions of some relations, finitely many.
LEMMA MembersFinite ==
  ASSUME NEW ec, SoundClass(ec), ~ec.has_const
  PROVE  /\ ec \in ClassType /\ \A e \in Members(ec) : relids[e] # {} /\ IsFiniteSet(relids[e])
<1>1. ec \in ClassType /\ \A e \in Members(ec) : e \in Exprs /\ relids[e] # {}
  BY MemberPositions DEF SoundClass, IsConst
<1>2. \A e \in Exprs : IsFiniteSet(relids[e])
  BY ExprsAssumption, FS_Subset
<1>3. QED
  BY <1>1, <1>2

\* The clauses a parameterised scan has of a class tie its relation to the parameters.
LEMMA ScanTies ==
  ASSUME MergeInv, QualsGiven, ec_merging_done, NEW r \in Rels, NEW req \in SUBSET (Rels \ {r}),
         NEW clauses, Given({r}) \subseteq clauses,
         NEW ec \in eq_classes, ~ec.broken, ~ec.has_const,
         Concerned(ec, req, {r}) => /\ ~JoinNormal(ec, {r} \cup req, req, {r}).broken
                                    /\ JoinClauses(ec, {r} \cup req, req, {r}) \subseteq clauses
  PROVE  MakesAlike(clauses, ec, {r}, req)
<1>1. SoundClass(ec)
  BY AgedSame, SoundClassesNow DEF MergeInv, ClassesWellFormed
<1>2. /\ ec \in ClassType /\ \A e \in Members(ec) : relids[e] # {} /\ IsFiniteSet(relids[e])
  BY <1>1, MembersFinite
<1>3. Equated(Sides(clauses), ec, Here(ec, {r}))
  <2>1. {r} \in SUBSET Rels /\ {r} # {} /\ \E q \in Rels : {r} = {q}
    OBVIOUS
  <2>2. MakesEqual(clauses, ec, {r})
    BY <2>1, EqualFromQuals
  <2>3. Comparable(ec, {r})
    BY <1>2 DEF Comparable, IsConst, Members
  <2>4. QED
    BY <2>2, <2>3 DEF MakesEqual, Here, Members
<1>4. ASSUME NEW T \in SUBSET Members(ec),
             \A c \in clauses : {c.left, c.right} \subseteq Members(ec) => Respects(c, T),
             OneSided(Here(ec, req), T)
      PROVE  OneSided(Here(ec, {r} \cup req), T)
  <2>1. OneSided(Here(ec, {r}), T)
    <3>1. MakesAlike(clauses, ec, {r}, {})
      <4>1. {r} \cup {} = {r}
        OBVIOUS
      <4>2. Sides(clauses) \subseteq Sides(clauses) \cup Assumed({})
        OBVIOUS
      <4>3. QED
        BY <1>3, <4>1, <4>2, EquatedByMore DEF MakesAlike
    <3>2. Here(ec, {}) = {}
      BY <1>2 DEF Here, Within
    <3>3. OneSided(Here(ec, {}), T) /\ {r} \cup {} = {r}
      BY <3>2 DEF OneSided
    <3>4. QED
      BY <1>4, <3>1, <3>3, AlikeCuts
  <2>2. Concerned(ec, req, {r}) => Uncut(ec, T, {r} \cup req, req, {r})
    <3>1. ASSUME Concerned(ec, req, {r}), NEW c \in JoinNormal(ec, {r} \cup req, req, {r}).clauses
          PROVE  Respects(c, T)
      <4>1. c \in JoinClauses(ec, {r} \cup req, req, {r}) /\ {r} \cup req = req \cup {r} /\ req \cap {r} = {}
        BY <3>1 DEF JoinClauses
      <4>2. {c.left, c.right} \subseteq Members(ec)
        BY <1>1, <4>1, ClausesOfJoin
      <4>3. QED
        BY <1>4, <3>1, <4>1, <4>2
    <3>2. QED
      BY <3>1 DEF Uncut
  <2>3. req \cap {r} = {} /\ {r} \cup req = req \cup {r}
    OBVIOUS
  <2>4. QED
    BY <1>2, <1>4, <2>1, <2>2, <2>3, ConcernedTies
<1>5. QED
  BY <1>4, AlikeFromCuts

LEMMA ScanTakesOver ==
  ASSUME FullInv, NEW r \in Rels \ scanned, NEW req \in SUBSET (Rels \ {r}), Scan(r, req)
  PROVE  Parameterised'
<1> DEFINE new == get_baserel_parampathinfo(eq_classes, r, req)
           path == [rel |-> {r}, req |-> req, joininfo |-> BaseJoininfo(r), twice |-> {}, given |-> req,
                    named |-> {}, lost |-> FALSE, ppi |-> IF req = {} THEN {} ELSE new,
                    text |-> get_single_rel(baserestrictinfo(r)),
                    enforced |-> baserestrictinfo(r) \cup IF req = {} THEN {} ELSE new]
<1>1. /\ forest' = forest \cup {path} /\ UNCHANGED <<query, quals>>
      /\ eq_classes' = IF req = {} THEN eq_classes ELSE AfterJoin(eq_classes, {r} \cup req, req, {r})
      /\ MergeInv /\ QualsGiven /\ eq_classes \subseteq ClassType /\ ec_merging_done
      /\ \A p \in forest : TakesOver(p) /\ Tied(p)
  BY DEF Scan, FullInv, WholeInv, Parameterised, JoinInv, MergeInv, ClassesWellFormed
<1>2. /\ path.rel = {r} /\ path.req = req /\ path.joininfo = BaseJoininfo(r)
      /\ baserestrictinfo(r) \subseteq path.enforced /\ (req # {} => new \subseteq path.enforced)
  OBVIOUS
<1> HIDE DEF path, new
<1>3. Aged(eq_classes', eq_classes)
  BY <1>1, AfterJoinAges, AgedSame
<1>4. TakesOver(path)
  <2>1. ASSUME NEW c \in AllQuals, c.required \cap {r} # {}, ~(c.required \subseteq {r}) PROVE c \in BaseJoininfo(r)
    <3>1. PICK q \in c.required : q # r
      BY <2>1
    <3>2. Multiple(c.required)
      BY <1>1, <2>1, <3>1, QualsFinite, TwoAreMultiple
    <3>3. QED
      BY <2>1, <3>2 DEF BaseJoininfo
  <2>2. ASSUME NEW c \in AllQuals, c.required \cap {r} # {}, c.required \subseteq {r} \cup req,
               req = {} \/ clause_relids(c) # {}
        PROVE  c \in path.enforced
    <3>1. CASE c.required \subseteq {r}
      <4>1. c \in baserestrictinfo(r)
        BY <2>2, <3>1 DEF baserestrictinfo
      <4>2. QED
        BY <1>2, <4>1
    <3>2. CASE ~(c.required \subseteq {r})
      <4>1. req # {} /\ c \in BaseJoininfo(r) /\ c.required # {}
        BY <2>1, <2>2, <3>2
      <4>2. clause_relids(c) = c.required
        BY <1>1, <2>2, <4>1, QualsAnchored DEF Anchored
      <4>3. c \in new
        BY <2>2, <4>1, <4>2 DEF new, get_baserel_parampathinfo, join_clause_is_movable_into
      <4>4. QED
        BY <1>2, <4>1, <4>3
    <3>3. QED
      BY <3>1, <3>2
  <2>3. QED
    BY <1>2, <2>1, <2>2 DEF TakesOver
<1>5. ASSUME NEW n \in eq_classes', ~n.broken, ~n.has_const PROVE MakesAlike(path.enforced, n, {r}, req)
  <2>1. Given({r}) \subseteq path.enforced
    <3>1. ASSUME NEW c \in quals, c.required \subseteq {r} PROVE c.required = {r}
      <4>1. Anchored(c)
        BY <1>1 DEF MergeInv, QualsPlaced
      <4>2. c.required # {}
        BY <4>1 DEF Anchored
      <4>3. QED
        BY <3>1, <4>2
    <3>2. QED
      BY <1>2, <3>1 DEF Given, baserestrictinfo, AllQuals
  <2>2. /\ n \in eq_classes
        /\ Concerned(n, req, {r}) => ~JoinNormal(n, {r} \cup req, req, {r}).broken
    <3>1. CASE req = {}
      BY <1>1, <1>5, <3>1 DEF Concerned
    <3>2. CASE req # {}
      BY <1>1, <1>5, <3>2, UnbrokenAfterJoin
    <3>3. QED
      BY <3>1, <3>2
  <2>3. Concerned(n, req, {r}) => JoinClauses(n, {r} \cup req, req, {r}) \subseteq path.enforced
    <3>1. SUFFICES ASSUME Concerned(n, req, {r})
                   PROVE  JoinClauses(n, {r} \cup req, req, {r}) \subseteq path.enforced
      OBVIOUS
    <3>2. req # {}
      BY <3>1 DEF Concerned
    <3>3. JoinClauses(n, {r} \cup req, req, {r}) \subseteq generate_join_implied_equalities(eq_classes, {r} \cup req, req, {r})
      BY <2>2, <3>1 DEF generate_join_implied_equalities
    <3>4. JoinClauses(n, {r} \cup req, req, {r}) \subseteq new
      BY <3>3 DEF new, get_baserel_parampathinfo
    <3>5. QED
      BY <1>2, <3>2, <3>4
  <2>4. QED
    BY <1>1, <1>5, <2>1, <2>2, <2>3, ScanTies
<1>6. ASSUME NEW q, q = path PROVE TakesOver(q)' /\ Tied(q)'
  <2>1. TakesOver(q)'
    BY <1>1, <1>4, <1>6 DEF TakesOver, AllQuals, clause_relids
  <2>2. ASSUME NEW n \in eq_classes', ~n.broken, ~n.has_const PROVE MakesAlike(q.enforced, n, q.rel, q.req)
    BY <1>2, <1>5, <1>6, <2>2
  <2>3. Tied(q)'
    BY <2>2 DEF Tied, MakesAlike, Assumed, Equated, Sides, Here, Within, Members, Tangled, Multiple
  <2>4. QED
    BY <2>1, <2>3
<1>7. \A p \in forest' : TakesOver(p)' /\ Tied(p)'
  BY <1>1, <1>3, <1>6, ParameterisedLater
<1>8. QED
  BY <1>7 DEF Parameterised

\* A clause of the classes that a side can test is one this has taken over.
LEMMA SideTakesOver ==
  ASSUME MergeInv, NEW p, TakesOver(p), NEW c \in AllQuals, InSide(c, p)
  PROVE  c \in p.enforced
<1>1. clause_relids(c) # {} /\ clause_relids(c) \cap p.rel # {} /\ clause_relids(c) \subseteq p.rel \cup p.req
  BY InSideMeans DEF InSide, join_clause_is_movable_into
<1>2. c.required = clause_relids(c)
  <2>1. c \in OtherClauses => c.required = clause_relids(c)
    BY OtherTyped
  <2>2. c \in quals => c.required = clause_relids(c)
    BY <1>1 DEF MergeInv, QualsPlaced, Anchored
  <2>3. QED
    BY <2>1, <2>2 DEF AllQuals
<1>3. QED
  BY <1>1, <1>2 DEF TakesOver

LEMMA JoinTakesOver ==
  ASSUME FullInv, NEW outer \in forest, NEW inner \in forest, NEW nestloop \in BOOLEAN, NEW material \in BOOLEAN,
         Join(outer, inner, nestloop, material)
  PROVE  Parameterised'
<1> DEFINE joinrel == outer.rel \cup inner.rel
           req == IF nestloop THEN calc_nestloop_required_outer(outer, inner) ELSE outer.req \cup inner.req
           ecs == AfterJoin(eq_classes, joinrel, outer.rel, inner.rel)
           generated == generate_join_implied_equalities(eq_classes, joinrel, outer.rel, inner.rel)
           restrictlist == build_joinrel_restrictlist(eq_classes, outer, inner)
           clauses == IF nestloop THEN KeptByNestloop(restrictlist, outer, inner) ELSE restrictlist
           joinlist == build_joinrel_joinlist(joinrel, outer, inner)
           extra == get_joinrel_parampathinfo(ecs, joinlist, outer, inner, req)
<1>1. /\ outer # inner /\ eq_classes' = AfterParam(ecs, outer, inner, req) /\ UNCHANGED <<query, quals>>
      /\ IF nestloop THEN NestloopAllowed(outer, inner) ELSE NonNestloopAllowed(outer, inner)
  BY DEF Join
<1>2. PICK text : forest' = (forest \ {outer, inner}) \cup {Built(outer, inner, clauses, req, extra, material, text)}
  BY DEF Join
<1> DEFINE path == Built(outer, inner, clauses, req, extra, material, text)
<1>3. /\ path.rel = joinrel /\ path.req = req /\ path.joininfo = joinlist
      /\ path.enforced = outer.enforced \cup inner.enforced \cup clauses \cup extra
  BY DEF Built
<1>4. forest' = (forest \ {outer, inner}) \cup {path}
  BY <1>2
<1>5. /\ MergeInv /\ eq_classes \subseteq ClassType /\ ec_merging_done /\ outer.rel \cap inner.rel = {}
      /\ outer.rel \subseteq Rels /\ inner.rel \subseteq Rels /\ outer.rel # {} /\ inner.rel # {}
      /\ outer.req \subseteq Rels \ outer.rel /\ inner.req \subseteq Rels \ inner.rel
      /\ \A p \in forest : TakesOver(p) /\ Tied(p)
  BY <1>1 DEF FullInv, WholeInv, Placement, PlacedPath, JoinInv, Forest, RightPath, Parameterised, MergeInv,
              ClassesWellFormed
<1>6. /\ req \subseteq Rels \ joinrel /\ outer.req \subseteq req /\ inner.req \subseteq outer.rel \cup req
      /\ req \subseteq outer.req \cup inner.req
  <2>1. /\ req \subseteq Rels \ joinrel /\ outer.req \subseteq req /\ inner.req \subseteq outer.rel \cup req
    BY <1>1, <1>5, JoinRequires
  <2>2. req \subseteq outer.req \cup inner.req
    BY DEF calc_nestloop_required_outer
  <2>3. QED
    BY <2>1, <2>2
<1>7. Aged(ecs, eq_classes) /\ ecs \subseteq ClassType
  BY <1>5, AfterJoinAges, AgedClasses
<1>8. Aged(eq_classes', eq_classes)
  BY <1>1, <1>5, <1>7, AgedClasses, AfterParamAges, AgedOn
<1>9. \A c \in restrictlist : c \in clauses \/ InSide(c, inner)
  BY DEF KeptByNestloop
<1> HIDE DEF path, req, ecs, extra, clauses, restrictlist, joinlist, generated
<1>10. ASSUME NEW c \in AllQuals, c.required \cap joinrel # {}, ~(c.required \subseteq joinrel) PROVE c \in joinlist
  <2>1. c \in outer.joininfo \cup inner.joininfo
    BY <1>5, <1>10 DEF TakesOver
  <2>2. QED
    BY <1>10, <2>1 DEF build_joinrel_joinlist, joinlist
<1>11. ASSUME NEW c \in AllQuals, c.required \cap joinrel # {}, c.required \subseteq joinrel \cup req,
              req = {} \/ clause_relids(c) # {}
       PROVE  c \in path.enforced
  <2>1. CASE InSide(c, outer) \/ InSide(c, inner)
    BY <1>3, <1>5, <2>1, SideTakesOver
  <2>2. CASE c.required \subseteq outer.rel \/ c.required \subseteq inner.rel
    <3>1. ASSUME NEW p \in {outer, inner}, c.required \subseteq p.rel PROVE c \in p.enforced
      <4>1. p.req = {} \/ clause_relids(c) # {}
        <5>1. CASE clause_relids(c) = {}
          <6>1. c.required = Rels
            BY <1>5, <1>11, <5>1, QualsAnchored DEF Anchored
          <6>2. QED
            BY <1>5, <3>1, <6>1
        <5>2. QED
          BY <5>1
      <4>2. c.required \cap p.rel # {}
        BY <1>11, <3>1
      <4>3. QED
        BY <1>5, <3>1, <4>1, <4>2 DEF TakesOver
    <3>2. QED
      BY <1>3, <2>2, <3>1
  <2>3. CASE /\ ~InSide(c, outer) /\ ~InSide(c, inner)
             /\ c.required \subseteq joinrel /\ ~(c.required \subseteq outer.rel) /\ ~(c.required \subseteq inner.rel)
    <3>1. c \in outer.joininfo
      BY <1>5, <2>3 DEF TakesOver
    <3>2. c \in restrictlist
      BY <2>3, <3>1 DEF restrictlist, build_joinrel_restrictlist, subbuild_joinrel_restrictlist
    <3>3. QED
      BY <1>3, <1>9, <2>3, <3>2
  <2>4. CASE ~InSide(c, outer) /\ ~InSide(c, inner) /\ ~(c.required \subseteq joinrel)
    <3>1. c \in joinlist /\ req # {}
      BY <1>10, <1>11, <2>4
    <3>2. c.required = clause_relids(c)
      BY <1>5, <1>11, <3>1, QualsAnchored DEF Anchored
    <3>3. join_clause_is_movable_into(c, joinrel, joinrel \cup req)
      BY <1>11, <3>2 DEF join_clause_is_movable_into
    <3>4. c \in extra
      BY <2>4, <3>1, <3>3 DEF extra, get_joinrel_parampathinfo
    <3>5. QED
      BY <1>3, <3>4
  <2>5. QED
    BY <2>1, <2>2, <2>3, <2>4
<1>12. TakesOver(path)
  BY <1>3, <1>10, <1>11 DEF TakesOver
<1>13. ASSUME NEW n \in eq_classes', ~n.broken, ~n.has_const, ~Tangled(n)
       PROVE  MakesAlike(path.enforced, n, joinrel, req)
  <2> DEFINE joined == JoinNormal(n, joinrel, outer.rel, inner.rel)
             normal == JoinNormal(n, joinrel \cup req, req, joinrel)
             retied == JoinNormal(n, outer.rel \cup req, req, outer.rel)
  <2>1. /\ n \in ecs
        /\ Concerned(n, req, joinrel) =>
             /\ ~normal.broken
             /\ (\E c \in normal.clauses : c.left \in Members(n) /\ ~InSide(c, outer) /\ InSide(c, inner)) =>
                  ~retied.broken
    BY <1>1, <1>7, <1>13, UnbrokenAfterParam
  <2>2. n \in eq_classes /\ (Concerned(n, outer.rel, inner.rel) => ~joined.broken)
    BY <1>5, <1>13, <2>1, UnbrokenAfterJoin DEF ecs
  <2>3. SoundClass(n) /\ \A e \in Members(n) : IsFiniteSet(relids[e])
    <3>1. SoundClass(n)
      BY <1>5, <2>2, AgedSame, SoundClassesNow
    <3>2. QED
      BY <1>13, <3>1, MembersFinite
  <2>4. SUFFICES ASSUME NEW T \in SUBSET Members(n),
                        \A c \in path.enforced : {c.left, c.right} \subseteq Members(n) => Respects(c, T),
                        OneSided(Here(n, req), T)
                 PROVE  OneSided(Here(n, joinrel \cup req), T)
    BY AlikeFromCuts
  <2> HIDE DEF joined, normal, retied
  <2>5. ASSUME NEW p \in {outer, inner}, OneSided(Here(n, p.req), T)
        PROVE  OneSided(Here(n, p.rel \cup p.req), T)
    <3>1. MakesAlike(p.enforced, n, p.rel, p.req)
      BY <1>5, <1>13, <2>2 DEF Tied
    <3>2. p.enforced \subseteq path.enforced
      BY <1>3
    <3>3. QED
      BY <2>4, <2>5, <3>1, <3>2, AlikeCuts
  <2>6. ASSUME Concerned(n, outer.rel, inner.rel), NEW c \in joined.clauses
        PROVE  InSide(c, inner) \/ Respects(c, T)
    <3>1. c \in JoinClauses(n, joinrel, outer.rel, inner.rel)
      BY <1>13, <2>2, <2>6 DEF JoinClauses, joined
    <3>2. {c.left, c.right} \subseteq Members(n)
      BY <1>5, <1>13, <2>3, <3>1, ClausesOfJoin
    <3>3. c \in restrictlist
      BY <2>2, <2>6, <3>1 DEF restrictlist, build_joinrel_restrictlist, generate_join_implied_equalities
    <3>4. QED
      BY <1>3, <1>9, <2>4, <3>2, <3>3
  <2>7. ASSUME Concerned(n, req, joinrel), NEW c \in normal.clauses
        PROVE  {c.left, c.right} \subseteq Members(n) /\ (InSide(c, outer) \/ InSide(c, inner) \/ Respects(c, T))
    <3>1. c \in JoinClauses(n, joinrel \cup req, req, joinrel)
      BY <1>13, <2>1, <2>7 DEF JoinClauses, normal
    <3>2. {c.left, c.right} \subseteq Members(n)
      <4>1. joinrel \cup req = req \cup joinrel /\ req \cap joinrel = {}
        BY <1>6
      <4>2. QED
        BY <1>13, <2>3, <3>1, <4>1, ClausesOfJoin
    <3>3. c \in generate_join_implied_equalities(ecs, joinrel \cup req, req, joinrel) /\ req # {}
      BY <2>1, <2>7, <3>1 DEF generate_join_implied_equalities, Concerned
    <3>4. ~InSide(c, outer) /\ ~InSide(c, inner) => c \in extra
      BY <3>3 DEF extra, get_joinrel_parampathinfo, ParamClauses
    <3>5. QED
      BY <1>3, <2>4, <3>2, <3>4
  <2>8. ASSUME Concerned(n, req, joinrel), \E c \in normal.clauses : ~InSide(c, outer) /\ InSide(c, inner)
        PROVE  ~retied.broken /\ \A c \in retied.clauses : InSide(c, outer) \/ Respects(c, T)
    <3>1. PICK c \in normal.clauses : ~InSide(c, outer) /\ InSide(c, inner)
      BY <2>8
    <3>2. c.left \in Members(n) /\ ~normal.broken /\ ~retied.broken
      BY <2>1, <2>7, <2>8, <3>1
    <3>3. n \in dropped_ecs(ecs, outer, inner, req) /\ req # {}
      <4>1. n \in dropped_ecs(ecs, outer, inner, req)
        BY <1>13, <2>1, <2>8, <3>1, <3>2, TiedAgain DEF normal
      <4>2. QED
        BY <2>8, <4>1 DEF Concerned
    <3>4. ASSUME NEW d \in retied.clauses, ~InSide(d, outer) PROVE Respects(d, T)
      <4>1. d \in JoinClauses(n, outer.rel \cup req, req, outer.rel)
        BY <1>13, <3>2, <3>4 DEF JoinClauses, retied
      <4>2. {d.left, d.right} \subseteq Members(n)
        <5>1. outer.rel \cup req = req \cup outer.rel /\ req \cap outer.rel = {}
          BY <1>6
        <5>2. QED
          BY <1>13, <2>3, <4>1, <5>1, ClausesOfJoin
      <4>3. d \in Retied(ecs, outer, inner, req)
        BY <3>3, <3>4, <4>1 DEF Retied
      <4>4. d \in extra
        BY <3>3, <4>3 DEF extra, get_joinrel_parampathinfo
      <4>5. QED
        BY <1>3, <2>4, <4>2, <4>4
    <3>5. QED
      BY <3>2, <3>4
  <2>9. Concerned(n, outer.rel, inner.rel) => ~joined.broken /\ \A c \in joined.clauses : InSide(c, inner) \/ Respects(c, T)
    BY <2>2, <2>6
  <2>10. Concerned(n, req, joinrel) =>
           /\ ~normal.broken
           /\ \A c \in normal.clauses : InSide(c, outer) \/ InSide(c, inner) \/ Respects(c, T)
           /\ (\E c \in normal.clauses : ~InSide(c, outer) /\ InSide(c, inner)) =>
                ~retied.broken /\ \A c \in retied.clauses : InSide(c, outer) \/ Respects(c, T)
    BY <2>1, <2>7, <2>8
  <2>11. req \cap joinrel = {} /\ inner.req \cap inner.rel = {}
    BY <1>5, <1>6
  <2>12. QED
    BY <1>5, <1>6, <1>13, <2>3, <2>4, <2>5, <2>9, <2>10, <2>11, CutOfJoin DEF joined, normal, retied
<1>14. ASSUME NEW q, q = path PROVE TakesOver(q)' /\ Tied(q)'
  <2>1. TakesOver(q)'
    BY <1>1, <1>12, <1>14 DEF TakesOver, AllQuals, clause_relids
  <2>2. ASSUME NEW n \in eq_classes', ~n.broken, ~n.has_const, ~Tangled(n)
        PROVE  MakesAlike(q.enforced, n, q.rel, q.req)
    BY <1>3, <1>13, <1>14, <2>2
  <2>3. Tied(q)'
    BY <2>2 DEF Tied, MakesAlike, Assumed, Equated, Sides, Here, Within, Members, Tangled, Multiple
  <2>4. QED
    BY <2>1, <2>3
<1>15. \A p \in forest' : TakesOver(p)' /\ Tied(p)'
  BY <1>1, <1>4, <1>5, <1>8, <1>14, ParameterisedLater
<1>16. QED
  BY <1>15 DEF Parameterised

LEMMA InitFull == Init => FullInv
<1>1. Init => forest = {}
  BY DEF Init
<1>2. QED
  BY <1>1, InitWhole DEF FullInv, Parameterised

LEMMA NextFull == FullInv /\ [Next]_vars => FullInv'
<1>1. SUFFICES ASSUME FullInv, [Next]_vars PROVE Parameterised'
  BY NextWhole DEF FullInv
<1>2. /\ MergeInv /\ eq_classes \subseteq ClassType /\ (forest # {} => ec_merging_done)
      /\ \A p \in forest : TakesOver(p) /\ Tied(p)
  BY <1>1 DEF FullInv, WholeInv, JoinInv, Forest, MergeInv, ClassesWellFormed, Parameterised
<1>3. CASE EcNext /\ UNCHANGED <<forest, scanned>>
  <2>1. ~ec_merging_done
    BY <1>3 DEF EcNext, process_equivalence, generate_base_implied_equalities
  <2>2. forest' = {}
    BY <1>2, <1>3, <2>1
  <2>3. QED
    BY <2>2 DEF Parameterised
<1>4. ASSUME NEW r \in Rels \ scanned, NEW req \in SUBSET (Rels \ {r}), Scan(r, req) PROVE Parameterised'
  BY <1>1, <1>4, ScanTakesOver
<1>5. ASSUME NEW outer \in forest, NEW inner \in forest, NEW nestloop \in BOOLEAN, NEW material \in BOOLEAN,
             Join(outer, inner, nestloop, material)
      PROVE  Parameterised'
  BY <1>1, <1>5, JoinTakesOver
<1>6. ASSUME NEW outer, NEW inner, Explore(outer, inner) PROVE Parameterised'
  <2>1. /\ UNCHANGED <<quals, forest>>
        /\ eq_classes' = AfterJoin(eq_classes, outer \cup inner, outer, inner)
    BY <1>6 DEF Explore
  <2>2. Aged(eq_classes', eq_classes)
    BY <1>2, <2>1, AfterJoinAges
  <2>3. \A p \in forest' : TakesOver(p)' /\ Tied(p)'
    BY <1>2, <2>1, <2>2, ParameterisedLater
  <2>4. QED
    BY <2>3 DEF Parameterised
<1>7. CASE UNCHANGED vars
  <2>1. UNCHANGED <<eq_classes, quals, forest>>
    BY <1>7 DEF vars, ecVars
  <2>2. Aged(eq_classes', eq_classes)
    BY <1>2, <2>1, AgedSame
  <2>3. \A p \in forest' : TakesOver(p)' /\ Tied(p)'
    BY <1>2, <2>1, <2>2, ParameterisedLater
  <2>4. QED
    BY <2>3 DEF Parameterised
<1>8. QED
  BY <1>1, <1>3, <1>4, <1>5, <1>6, <1>7 DEF Next

------------------------------------------------------------------------------
(* Theorems *)

\* Without parameters nothing is taken for granted.
LEMMA EqualWithoutParameters ==
  ASSUME NEW ec, SoundClass(ec), ~ec.has_const, NEW clauses, NEW rel, MakesAlike(clauses, ec, rel, {})
  PROVE  MakesEqual(clauses, ec, rel)
<1>1. \A e \in Members(ec) : relids[e] # {}
  BY MembersFinite
<1>2. Equated(Sides(clauses), ec, Here(ec, rel))
  <2>1. SUFFICES ASSUME NEW T \in SUBSET ToSet(ec.members),
                        \A q \in Sides(clauses) : {q[1], q[2]} \subseteq ToSet(ec.members) => (q[1] \in T <=> q[2] \in T)
                 PROVE  OneSided(Here(ec, rel), T)
    BY DEF Equated, OneSided
  <2>2. \A q \in Assumed({}) : ~({q[1], q[2]} \subseteq ToSet(ec.members))
    BY <1>1 DEF Assumed, Within, Members
  <2>3. \A q \in Sides(clauses) \cup Assumed({}) :
           {q[1], q[2]} \subseteq ToSet(ec.members) => (q[1] \in T <=> q[2] \in T)
    BY <2>1, <2>2
  <2>4. rel \cup {} = rel
    OBVIOUS
  <2>5. QED
    BY <2>3, <2>4 DEF MakesAlike, Equated, OneSided
<1>3. QED
  BY <1>2, EquatedByMore DEF MakesEqual, Here, Members

\* A tree that takes no parameters from outside has nothing to take for granted.
LEMMA FullInvEqual == FullInv => EqualityEnforced
<1>1. SUFFICES ASSUME FullInv, NEW p \in forest, p.req = {}, NEW ec \in eq_classes,
                      p.given = {} \/ \A e \in eq_classes : ~e.broken,
                      p.given = {} \/ ~Tangled(ec)
               PROVE  MakesEqual(p.enforced, ec, p.rel)
  BY DEF EqualityEnforced
<1>2. /\ MergeInv /\ QualsGiven /\ ec_merging_done /\ p.rel \in SUBSET Rels /\ p.rel # {}
      /\ PlainPath(p) /\ TakesOver(p) /\ Tied(p)
  BY <1>1 DEF FullInv, WholeInv, JoinInv, Forest, Placement, PlacedPath, Plain, Parameterised
<1>3. CASE ec.has_const
  <2>1. ASSUME NEW c \in quals, c.required \subseteq p.rel PROVE c \in p.enforced
    <3>1. Anchored(c)
      BY <1>2 DEF MergeInv, QualsPlaced
    <3>2. c.required # {} /\ c \in AllQuals
      BY <1>2, <3>1 DEF Anchored, AllQuals
    <3>3. QED
      BY <1>1, <1>2, <2>1, <3>2 DEF TakesOver
  <2>2. Given(p.rel) \subseteq p.enforced
    BY <2>1 DEF Given
  <2>3. QED
    BY <1>2, <1>3, <2>2, EqualFromQuals
<1>4. CASE ~ec.has_const /\ p.given = {}
  BY <1>2, <1>4 DEF PlainPath
<1>5. CASE ~ec.has_const /\ p.given # {}
  <2>1. MakesAlike(p.enforced, ec, p.rel, {})
    BY <1>1, <1>2, <1>5 DEF Tied
  <2>2. SoundClass(ec)
    BY <1>2, AgedSame, SoundClassesNow DEF MergeInv, ClassesWellFormed
  <2>3. QED
    BY <1>5, <2>1, <2>2, EqualWithoutParameters
<1>6. QED
  BY <1>3, <1>4, <1>5

\* A tree that needs nothing from outside makes equal all that a class does at its relations,
\* and both sides of each clause of the query there, wherever the clauses were moved: left to
\* a side that was given the values, taken over from the joins above or tied again.
THEOREM EqualWithParameters == Spec => []EqualityEnforced
<1>1. FullInv /\ [Next]_vars => FullInv'
  BY NextFull
<1>2. QED
  BY InitFull, <1>1, FullInvEqual, PTL DEF Spec

\* Two trees of the same relations and parameters enforce the same: each makes equal, given
\* that its parameters are, all that it can compute of a class, whichever joins it is made of.
THEOREM AlikeHoweverBuilt == Spec => []ParameterisedAlike
<1>1. FullInv /\ [Next]_vars => FullInv'
  BY NextFull
<1>2. ASSUME FullInv PROVE ParameterisedAlike
  <2>1. \A p \in forest : EnforcesOthers(p) /\ Tied(p)
    BY <1>2 DEF FullInv, WholeInv, JoinInv, Forest, RightPath, Parameterised
  <2>2. QED
    BY <2>1 DEF ParameterisedAlike, Tied, MakesAlike, Assumed, Here, Members
<1>3. FullInv => ParameterisedAlike
  BY <1>2
<1>4. QED
  BY InitFull, <1>1, <1>3, PTL DEF Spec

------------------------------------------------------------------------------
(* What foreign keys leave of a list of clauses *)

LEMMA Induction ==
  ASSUME NEW N \in Nat, NEW Good, 0 \in Good, \A n \in 1..N : n - 1 \in Good => n \in Good
  PROVE  \A n \in 0..N : n \in Good
<1> DEFINE Bad == (0..N) \ Good
<1>1. SUFFICES ASSUME Bad # {} PROVE FALSE
  OBVIOUS
<1>2. PICK m \in Bad : \A i \in Bad : m <= i
  <2>1. Bad \in SUBSET Nat
    OBVIOUS
  <2> HIDE DEF Bad
  <2>2. QED
    BY <1>1, <2>1, LeastPosition DEF Firsts
<1>3. m \in 1..N /\ m - 1 \in 0..N
  OBVIOUS
<1>4. m - 1 \notin Bad
  BY <1>2, <1>3
<1>5. QED
  BY <1>3, <1>4

Recurses(N, S, start, step) ==
  \E g \in [0..N -> S] : g[0] = start /\ \A n \in 1..N : g[n] = step[n][g[n - 1]]

\* A function that takes a step at each place exists, however the steps depend on the places.
LEMMA Recursion ==
  ASSUME NEW N \in Nat, NEW S, NEW start \in S, NEW step \in [1..N -> [S -> S]]
  PROVE  Recurses(N, S, start, step)
<1> DEFINE Begun(n) == {g \in [0..n -> S] : g[0] = start /\ \A k \in 1..n : g[k] = step[k][g[k - 1]]}
           Good == {n \in 0..N : Begun(n) # {}}
<1>1. 0 \in Good
  <2>1. [k \in 0..0 |-> start] \in Begun(0)
    OBVIOUS
  <2>2. QED
    BY <2>1
<1>2. ASSUME NEW n \in 1..N, n - 1 \in Good PROVE n \in Good
  <2>1. PICK g \in [0..n - 1 -> S] : g[0] = start /\ \A k \in 1..n - 1 : g[k] = step[k][g[k - 1]]
    BY <1>2
  <2> DEFINE h == [k \in 0..n |-> IF k = n THEN step[n][g[n - 1]] ELSE g[k]]
  <2>2. /\ n - 1 \in 0..n - 1 /\ 0 \in 0..n - 1 /\ n \in Nat
        /\ \A k \in 0..n : k = n \/ k \in 0..n - 1
        /\ \A k \in 1..n : k - 1 \in 0..n - 1 /\ k - 1 # n /\ k \in 0..n
        /\ \A k \in 1..n : k = n \/ k \in 1..n - 1
    OBVIOUS
  <2>3. step[n][g[n - 1]] \in S
    BY <2>2
  <2>4. h \in [0..n -> S]
    BY <2>2, <2>3
  <2>5. h[n] = step[n][g[n - 1]] /\ (\A k \in 0..n - 1 : h[k] = g[k])
    BY <2>2
  <2>6. h[0] = start /\ \A k \in 1..n : h[k] = step[k][h[k - 1]]
    <3> HIDE DEF h
    <3>1. h[n] = step[n][h[n - 1]]
      BY <2>2, <2>5
    <3>2. \A k \in 1..n - 1 : h[k] = step[k][h[k - 1]]
      <4>1. \A k \in 1..n - 1 : k \in 0..n - 1 /\ k - 1 \in 0..n - 1
        OBVIOUS
      <4>2. QED
        BY <2>1, <2>5, <4>1
    <3>3. QED
      BY <2>1, <2>2, <2>5, <3>1, <3>2
  <2>7. h \in Begun(n)
    BY <2>4, <2>6
  <2> HIDE DEF Begun
  <2>8. QED
    BY <2>2, <2>7
<1>3. N \in Good
  <2>1. \A n \in 1..N : n - 1 \in Good => n \in Good
    BY <1>2
  <2> HIDE DEF Good
  <2>2. \A n \in 0..N : n \in Good
    BY <1>1, <2>1, Induction
  <2>3. QED
    BY <2>2
<1>4. PICK g : g \in Begun(N)
  <2> HIDE DEF Begun
  <2>1. QED
    BY <1>3
<1>5. QED
  BY <1>4 DEF Recurses

\* They only take clauses out.
LEMMA PrintedOfList ==
  ASSUME NEW ecs, NEW restrictlist, NEW outer, NEW inner
  PROVE  get_foreign_key_join_selectivity(ecs, restrictlist, outer, inner) \subseteq restrictlist
<1> DEFINE N == Len(ForeignKeys)
           S == SUBSET restrictlist
           Connects(fk) == (fk.con \in outer /\ fk.ref \in inner) \/ (fk.ref \in outer /\ fk.con \in inner)
           Removed(fk, work) ==
             {c \in work : \E n \in DOMAIN fk.keys : OfClass(c, match_eclasses_to_foreign_key_col(ecs, fk.keys[n]))}
           Applies(i, work) ==
             /\ i \in match_foreign_keys_to_quals(ecs) /\ Connects(ForeignKeys[i])
             /\ Cardinality(Removed(ForeignKeys[i], work)) = Len(ForeignKeys[i].keys)
           Apply(work, i) == IF Applies(i, work) THEN work \ Removed(ForeignKeys[i], work) ELSE work
           Working(f) == [i \in 0..N |-> IF i = 0 THEN restrictlist ELSE Apply(f[i - 1], i)]
           worklist == CHOOSE f : f = Working(f)
           step == [i \in 1..N |-> [work \in S |-> Apply(work, i)]]
           Good == {i \in 0..N : worklist[i] \in S}
<1>1. get_foreign_key_join_selectivity(ecs, restrictlist, outer, inner) = worklist[N]
  BY DEF get_foreign_key_join_selectivity
<1>2. N \in Nat
  BY ForeignKeysAssumption, LenProperties
<1>3. \A work \in S, i \in 1..N : Apply(work, i) \in S
  OBVIOUS
<1>4. restrictlist \in S
  OBVIOUS
<1> HIDE DEF N, S, Apply
<1>5. \E f : f = Working(f)
  <2>1. step \in [1..N -> [S -> S]] /\ \A i \in 1..N, work \in S : step[i][work] = Apply(work, i)
    <3> DEFINE At(i) == [work \in S |-> Apply(work, i)]
    <3>1. \A i \in 1..N : At(i) \in [S -> S] /\ \A work \in S : At(i)[work] = Apply(work, i)
      BY <1>3
    <3> HIDE DEF At
    <3>2. step = [i \in 1..N |-> At(i)]
      BY DEF At
    <3> HIDE DEF step
    <3>3. QED
      BY <3>1, <3>2
  <2> HIDE DEF step
  <2>2. PICK g \in [0..N -> S] : g[0] = restrictlist /\ \A i \in 1..N : g[i] = step[i][g[i - 1]]
    <3>1. Recurses(N, S, restrictlist, step)
      BY <1>2, <1>4, <2>1, Recursion
    <3>2. QED
      BY <3>1 DEF Recurses
  <2>3. \A i \in 0..N : i # 0 => i \in 1..N /\ i - 1 \in 0..N
    BY <1>2
  <2>4. \A i \in 0..N : g[i] = IF i = 0 THEN restrictlist ELSE Apply(g[i - 1], i)
    BY <2>1, <2>2, <2>3
  <2>5. g = Working(g)
    BY <2>4
  <2>6. QED
    BY <2>5
<1>6. worklist = Working(worklist)
  BY <1>5
<1> HIDE DEF worklist
<1>7. worklist[0] = restrictlist /\ \A i \in 1..N : worklist[i] = Apply(worklist[i - 1], i)
  <2>1. 0 \in 0..N /\ \A i \in 1..N : i \in 0..N /\ i # 0
    BY <1>2
  <2>2. \A i \in 0..N : Working(worklist)[i] = IF i = 0 THEN restrictlist ELSE Apply(worklist[i - 1], i)
    OBVIOUS
  <2> HIDE DEF Working
  <2>3. QED
    BY <1>6, <2>1, <2>2
<1>8. \A i \in 0..N : i \in Good
  <2>1. 0 \in Good
    BY <1>2, <1>4, <1>7
  <2>2. \A i \in 1..N : i - 1 \in Good => i \in Good
    BY <1>3, <1>7
  <2> HIDE DEF Good
  <2>3. QED
    BY <1>2, <2>1, <2>2, Induction
<1>9. QED
  BY <1>1, <1>2, <1>8 DEF S

------------------------------------------------------------------------------
(* What the texts tell *)

\* What the base relations of a join print.
OwnQuals(rel) == {c \in quals : ~Multiple(c.required) /\ c.required \subseteq rel}

\* A path prints only clauses it enforces, and unless it has lost some all of them but those
\* of its base relations.
Prints(p) ==
  /\ p.named \cup p.ppi \subseteq p.enforced
  /\ p.req = {} => p.ppi = {}
  /\ Cardinality(p.rel) = 1 => p.named = {}
  /\ ~p.lost => p.enforced \subseteq p.named \cup p.ppi \cup OwnQuals(p.rel)

\* The text of a join may name other clauses than a tree that passes parameters enforces, but
\* then it names all those of the query and ties the classes with others.
NamesQuals(clauses, rel) == \A c \in AllQuals : c.required # {} /\ c.required \subseteq rel => c \in clauses
TiesClasses(ecs, clauses, rel) ==
  \A ec \in ecs : ~ec.broken /\ ~ec.has_const /\ ~Tangled(ec) => MakesAlike(clauses, ec, rel, {})
Tells(p) ==
  p.text.known /\ p.req = {} /\ Cardinality(p.rel) > 1 =>
    /\ \A c \in p.text.clauses : clause_relids(c) \subseteq p.rel
    /\ ~p.text.lost => \/ p.enforced \subseteq p.text.clauses
                       \/ /\ p.given # {} /\ NamesQuals(p.text.clauses, p.rel)
                          /\ TiesClasses(eq_classes, p.text.clauses, p.rel)

Texts == \A p \in forest : Prints(p) /\ Tells(p)
TextInv == FullInv /\ Texts

LEMMA TextsLater ==
  ASSUME MergeInv, Aged(eq_classes', eq_classes), UNCHANGED quals, NEW p, Prints(p), Tells(p)
  PROVE  Prints(p)' /\ Tells(p)'
<1>1. ASSUME TiesClasses(eq_classes, p.text.clauses, p.rel) PROVE TiesClasses(eq_classes, p.text.clauses, p.rel)'
  <2>1. ASSUME NEW n \in eq_classes', ~n.broken, ~n.has_const, ~Tangled(n)
        PROVE  MakesAlike(p.text.clauses, n, p.rel, {})
    <3>1. PICK o \in eq_classes : Alike(n, o)
      BY AgedClasses DEF MergeInv, ClassesWellFormed
    <3>2. n = o
      BY <2>1, <3>1, UnbrokenSame DEF MergeInv, ClassesWellFormed
    <3>3. QED
      BY <1>1, <2>1, <3>2 DEF TiesClasses
  <2>2. QED
    BY <2>1 DEF TiesClasses, MakesAlike, Assumed, Equated, Sides, Here, Within, Members, Tangled, Multiple
<1>2. NamesQuals(p.text.clauses, p.rel) => NamesQuals(p.text.clauses, p.rel)'
  BY DEF NamesQuals, AllQuals
<1>3. Prints(p)'
  BY DEF Prints, OwnQuals, Multiple
<1>4. QED
  BY <1>1, <1>2, <1>3 DEF Tells, clause_relids

\* Clauses that need one relation at most are quals.
LEMMA OwnQualsAre ==
  ASSUME MergeInv, NEW rel, NEW c \in OwnQuals(rel)
  PROVE  clause_relids(c) \subseteq rel /\ c \in AllQuals
<1>1. Anchored(c) /\ c.required \subseteq rel
  BY DEF OwnQuals, MergeInv, QualsPlaced
<1>2. QED
  BY <1>1 DEF Anchored, AllQuals, OwnQuals

LEMMA OneRelation ==
  ASSUME NEW rel \in SUBSET Rels, Cardinality(rel) = 1
  PROVE  \E r \in Rels : rel = {r}
<1>1. IsFiniteSet(rel)
  BY ExprsAssumption, FS_Subset
<1>2. QED
  BY <1>1, FS_Singleton

LEMMA JoinIsMultiple ==
  ASSUME NEW outer \in SUBSET Rels, NEW inner \in SUBSET Rels, outer # {}, inner # {}, outer \cap inner = {}
  PROVE  Cardinality(outer \cup inner) > 1
<1>1. PICK q \in outer, r \in inner : q # r
  OBVIOUS
<1>2. IsFiniteSet(outer \cup inner)
  <2>1. outer \cup inner \subseteq Rels
    OBVIOUS
  <2>2. QED
    BY <2>1, ExprsAssumption, FS_Subset
<1>3. QED
  BY <1>1, <1>2, TwoAreMultiple DEF Multiple

LEMMA ScanTells ==
  ASSUME TextInv, NEW r \in Rels \ scanned, NEW req \in SUBSET (Rels \ {r}), Scan(r, req)
  PROVE  Texts'
<1> DEFINE new == get_baserel_parampathinfo(eq_classes, r, req)
           path == [rel |-> {r}, req |-> req, joininfo |-> BaseJoininfo(r), twice |-> {}, given |-> req,
                    named |-> {}, lost |-> FALSE, ppi |-> IF req = {} THEN {} ELSE new,
                    text |-> get_single_rel(baserestrictinfo(r)),
                    enforced |-> baserestrictinfo(r) \cup IF req = {} THEN {} ELSE new]
<1>1. /\ forest' = forest \cup {path} /\ UNCHANGED <<query, quals>>
      /\ eq_classes' = IF req = {} THEN eq_classes ELSE AfterJoin(eq_classes, {r} \cup req, req, {r})
      /\ MergeInv /\ eq_classes \subseteq ClassType
      /\ \A p \in forest : Prints(p) /\ Tells(p)
  BY DEF Scan, TextInv, Texts, FullInv, WholeInv, JoinInv, MergeInv, ClassesWellFormed
<1>2. /\ path.rel = {r} /\ path.req = req /\ path.named = {} /\ path.ppi = IF req = {} THEN {} ELSE new
      /\ path.enforced = baserestrictinfo(r) \cup path.ppi
  OBVIOUS
<1> HIDE DEF path, new
<1>3. Aged(eq_classes', eq_classes)
  BY <1>1, AfterJoinAges, AgedSame
<1>4. Cardinality({r}) = 1
  BY FS_Singleton
<1>5. baserestrictinfo(r) \subseteq OwnQuals({r})
  <2>1. ASSUME NEW c \in AllQuals, c.required = {r} PROVE c \in OwnQuals({r})
    <3>1. ~Multiple(c.required)
      BY <1>4, <2>1 DEF Multiple
    <3>2. c \notin OtherClauses
      BY <3>1, OtherClausesAssumption
    <3>3. QED
      BY <2>1, <3>1, <3>2 DEF AllQuals, OwnQuals
  <2>2. QED
    BY <2>1 DEF baserestrictinfo
<1>6. Prints(path) /\ Tells(path)
  BY <1>2, <1>4, <1>5 DEF Prints, Tells
<1>7. \A p \in forest' : Prints(p)' /\ Tells(p)'
  <2>1. \A p \in forest' : Prints(p) /\ Tells(p)
    BY <1>1, <1>6
  <2>2. QED
    BY <1>1, <1>3, <2>1, TextsLater
<1>8. QED
  BY <1>7 DEF Texts

\* What a side prints is part of what it enforces, and so of its relations.
LEMMA NamedWithin ==
  ASSUME NEW p, Prints(p), PlacedPath(p), p.req = {}
  PROVE  \A c \in p.named : clause_relids(c) \subseteq p.rel
BY DEF Prints, PlacedPath, Tests

LEMMA RestrictWithin ==
  ASSUME MergeInv, NEW outer, NEW inner, PlacedPath(outer), PlacedPath(inner), outer.rel \cap inner.rel = {},
         NEW c \in build_joinrel_restrictlist(eq_classes, outer, inner)
  PROVE  clause_relids(c) \subseteq outer.rel \cup inner.rel
<1> DEFINE joinrel == outer.rel \cup inner.rel
<1>1. CASE c \in subbuild_joinrel_restrictlist(joinrel, outer.joininfo \cup inner.joininfo)
  <2>1. c.required \subseteq joinrel /\ Anchored(c)
    BY <1>1 DEF subbuild_joinrel_restrictlist, PlacedPath, Carries
  <2>2. QED
    BY <2>1 DEF Anchored
<1>2. CASE c \in generate_join_implied_equalities(eq_classes, joinrel, outer.rel, inner.rel)
  <2>1. Aged(eq_classes, eq_classes)
    BY AgedSame DEF MergeInv, ClassesWellFormed
  <2>2. QED
    BY <1>2, <2>1, GeneratedClauses
<1>3. QED
  BY <1>1, <1>2 DEF build_joinrel_restrictlist

\* A scan that takes its parameters from the other side of the join prints none of the clauses
\* it enforces for them, but the clauses of the join, the outer side's and the scan's own are
\* all there are.
LEMMA ScanJoinTells ==
  ASSUME FullInv, NEW outer \in forest, NEW inner \in forest, outer # inner, outer.req = {},
         NEW r \in Rels, inner.rel = {r}, NEW joinrel, joinrel = outer.rel \cup {r},
         NEW clauses, outer.enforced \cup OwnQuals(joinrel) \subseteq clauses,
         build_joinrel_restrictlist(eq_classes, outer, inner) \subseteq clauses
  PROVE  NamesQuals(clauses, joinrel) /\ TiesClasses(AfterJoin(eq_classes, joinrel, outer.rel, {r}), clauses, joinrel)
<1>1. /\ MergeInv /\ QualsGiven /\ ec_merging_done /\ eq_classes \in SUBSET ClassType
      /\ outer.rel \subseteq Rels /\ outer.rel \cap {r} = {}
      /\ TakesOver(outer) /\ Tied(outer)
  BY DEF FullInv, WholeInv, JoinInv, Forest, Parameterised, MergeInv, ClassesWellFormed
<1>2. \A c \in quals : c.required \subseteq joinrel /\ ~Multiple(c.required) => c \in clauses
  BY DEF OwnQuals
<1>3. ASSUME NEW c \in AllQuals, c.required # {}, c.required \subseteq joinrel PROVE c \in clauses
  <2>1. CASE ~Multiple(c.required)
    <3>1. c \in quals
      BY <1>3, <2>1, OtherClausesAssumption DEF AllQuals
    <3>2. QED
      BY <1>2, <1>3, <2>1, <3>1
  <2>2. CASE Multiple(c.required) /\ c.required \subseteq outer.rel
    BY <1>1, <1>3, <2>2 DEF TakesOver
  <2>3. CASE Multiple(c.required) /\ ~(c.required \subseteq outer.rel)
    <3>1. ~(c.required \subseteq {r})
      BY <2>3, MultipleNotWithin
    <3>2. c.required \cap outer.rel # {}
      BY <1>3, <3>1
    <3>3. c \in outer.joininfo
      BY <1>1, <1>3, <2>3, <3>2 DEF TakesOver
    <3>4. c \in build_joinrel_restrictlist(eq_classes, outer, inner)
      BY <1>3, <3>3 DEF build_joinrel_restrictlist, subbuild_joinrel_restrictlist
    <3>5. QED
      BY <3>4
  <2>4. QED
    BY <2>1, <2>2, <2>3
<1>4. ASSUME NEW n \in AfterJoin(eq_classes, joinrel, outer.rel, {r}), ~n.broken, ~n.has_const, ~Tangled(n)
      PROVE  MakesAlike(clauses, n, joinrel, {})
  <2>1. /\ n \in eq_classes
        /\ Concerned(n, outer.rel, {r}) => ~JoinNormal(n, joinrel, outer.rel, {r}).broken
    BY <1>1, <1>4, UnbrokenAfterJoin
  <2>2. SoundClass(n) /\ n \in ClassType /\ \A e \in Members(n) : relids[e] # {}
    <3>1. SoundClass(n)
      BY <1>1, <2>1, AgedSame, SoundClassesNow
    <3>2. QED
      BY <1>4, <3>1, MembersFinite
  <2>3. SUFFICES ASSUME NEW T \in SUBSET Members(n),
                        \A c \in clauses : {c.left, c.right} \subseteq Members(n) => Respects(c, T),
                        OneSided(Here(n, {}), T)
                 PROVE  OneSided(Here(n, joinrel \cup {}), T)
    BY AlikeFromCuts
  <2>4. OneSided(Here(n, outer.rel), T)
    <3>1. MakesAlike(outer.enforced, n, outer.rel, {})
      BY <1>1, <1>4, <2>1 DEF Tied
    <3>2. OneSided(Here(n, outer.rel \cup {}), T)
      BY <2>3, <3>1, AlikeCuts
    <3>3. outer.rel \cup {} = outer.rel
      OBVIOUS
    <3>4. QED
      BY <3>2, <3>3
  <2>5. OneSided(Here(n, {r}), T)
    <3>1. Given({r}) \subseteq clauses
      BY <1>2, MultipleNotWithin DEF Given
    <3>2. ~Concerned(n, {}, {r}) /\ {} \in SUBSET (Rels \ {r})
      BY DEF Concerned
    <3>3. MakesAlike(clauses, n, {r}, {})
      BY <1>1, <1>4, <2>1, <3>1, <3>2, ScanTies
    <3>4. OneSided(Here(n, {r} \cup {}), T)
      BY <2>3, <3>3, AlikeCuts
    <3>5. {r} \cup {} = {r}
      OBVIOUS
    <3>6. QED
      BY <3>4, <3>5
  <2>6. Concerned(n, outer.rel, {r}) => Uncut(n, T, joinrel, outer.rel, {r})
    <3>1. ASSUME Concerned(n, outer.rel, {r}), NEW c \in JoinNormal(n, joinrel, outer.rel, {r}).clauses
          PROVE  Respects(c, T)
      <4>1. c \in JoinClauses(n, joinrel, outer.rel, {r})
        BY <1>4, <2>1, <3>1 DEF JoinClauses
      <4>2. {c.left, c.right} \subseteq Members(n)
        BY <1>1, <1>4, <2>2, <4>1, ClausesOfJoin
      <4>3. c \in generate_join_implied_equalities(eq_classes, joinrel, outer.rel, {r})
        BY <2>1, <3>1, <4>1 DEF generate_join_implied_equalities
      <4>4. c \in clauses
        BY <4>3 DEF build_joinrel_restrictlist
      <4>5. QED
        BY <2>3, <4>2, <4>4
    <3>2. QED
      BY <2>1, <3>1 DEF Uncut
  <2>7. OneSided(Here(n, joinrel), T)
    BY <1>1, <1>4, <2>2, <2>4, <2>5, <2>6, ConcernedTies
  <2>8. joinrel \cup {} = joinrel
    OBVIOUS
  <2>9. QED
    BY <2>7, <2>8
<1>5. QED
  BY <1>3, <1>4 DEF NamesQuals, TiesClasses

LEMMA JoinTells ==
  ASSUME TextInv, NEW outer \in forest, NEW inner \in forest, NEW nestloop \in BOOLEAN, NEW material \in BOOLEAN,
         Join(outer, inner, nestloop, material)
  PROVE  Texts'
<1> DEFINE joinrel == outer.rel \cup inner.rel
           req == IF nestloop THEN calc_nestloop_required_outer(outer, inner) ELSE outer.req \cup inner.req
           ecs == AfterJoin(eq_classes, joinrel, outer.rel, inner.rel)
           restrictlist == build_joinrel_restrictlist(eq_classes, outer, inner)
           clauses == IF nestloop THEN KeptByNestloop(restrictlist, outer, inner) ELSE restrictlist
           joinlist == build_joinrel_joinlist(joinrel, outer, inner)
           extra == get_joinrel_parampathinfo(ecs, joinlist, outer, inner, req)
           text == get_join_rel(ecs, IF req = {} THEN restrictlist ELSE clauses \cup extra, outer, inner, quals)
           path == Built(outer, inner, clauses, req, extra, material, text)
           printed == get_foreign_key_join_selectivity(ecs, restrictlist, outer.rel, inner.rel)
<1>1. /\ outer # inner /\ eq_classes' = AfterParam(ecs, outer, inner, req) /\ UNCHANGED <<query, quals>>
      /\ IF nestloop THEN NestloopAllowed(outer, inner) ELSE NonNestloopAllowed(outer, inner)
      /\ material => inner.named # {}
      /\ forest' = (forest \ {outer, inner}) \cup {path}
  BY DEF Join
<1>2. /\ path.rel = joinrel /\ path.req = req /\ path.ppi = {} /\ path.text = text
      /\ path.given = outer.given \cup inner.given
      /\ path.enforced = outer.enforced \cup inner.enforced \cup clauses \cup extra
      /\ path.named = get_path(clauses \cup extra, outer, inner, material)
      /\ path.lost = Loses(clauses \cup extra, outer, inner, material)
  BY DEF Built
<1>3. /\ MergeInv /\ eq_classes \subseteq ClassType /\ ec_merging_done /\ outer.rel \cap inner.rel = {}
      /\ outer.rel \subseteq Rels /\ inner.rel \subseteq Rels /\ outer.rel # {} /\ inner.rel # {}
      /\ outer.req \subseteq Rels \ outer.rel /\ inner.req \subseteq Rels \ inner.rel
      /\ PlacedPath(outer) /\ PlacedPath(inner)
      /\ Prints(outer) /\ Prints(inner) /\ PlainPath(inner)
      /\ FullInv /\ \A p \in forest : Prints(p) /\ Tells(p)
  BY <1>1 DEF TextInv, Texts, FullInv, WholeInv, Placement, PlacedPath, JoinInv, Forest, RightPath, Plain, MergeInv,
              ClassesWellFormed
<1>4. /\ outer.req \subseteq req /\ inner.req \subseteq outer.rel \cup req
  BY <1>1, <1>3, JoinRequires
<1>5. Aged(ecs, eq_classes) /\ ecs \subseteq ClassType
  BY <1>3, AfterJoinAges, AgedClasses
<1>6. Aged(eq_classes', eq_classes)
  BY <1>1, <1>3, <1>5, AgedClasses, AfterParamAges, AgedOn
<1>7. req = {} => extra = {} /\ eq_classes' = ecs
  BY <1>1 DEF get_joinrel_parampathinfo, AfterParam
<1>8. /\ text.known /\ req = {} => /\ Cheapest(outer) /\ Cheapest(inner)
                                   /\ text.clauses = printed \cup outer.named \cup inner.named \cup OwnQuals(joinrel)
                                   /\ ~text.lost => ~outer.lost /\ ~inner.lost /\ printed = restrictlist
  BY DEF get_join_rel, get_base_restrictclauses, OwnQuals
<1>9. clauses \subseteq restrictlist /\ (inner.req = {} => clauses = restrictlist)
  BY DEF KeptByNestloop
<1>10. printed \subseteq restrictlist
  BY PrintedOfList
<1>11. \A c \in restrictlist : clause_relids(c) \subseteq joinrel
  BY <1>3, RestrictWithin
<1>12. OwnQuals(outer.rel) \subseteq OwnQuals(joinrel) /\ OwnQuals(inner.rel) \subseteq OwnQuals(joinrel)
  BY DEF OwnQuals
<1> HIDE DEF path, req, ecs, extra, clauses, restrictlist, joinlist, printed, text
<1>13. Prints(path)
  <2>1. path.named \cup path.ppi \subseteq path.enforced
    BY <1>2, <1>3 DEF get_path, Prints
  <2>2. Cardinality(path.rel) > 1
    BY <1>2, <1>3, JoinIsMultiple
  <2>3. Cardinality(path.rel) # 1
    BY <2>2
  <2>4. ASSUME ~path.lost PROVE path.enforced \subseteq path.named \cup path.ppi \cup OwnQuals(path.rel)
    <3>1. /\ ~outer.lost /\ ~inner.lost /\ ~material /\ outer.ppi = {}
          /\ clauses \cup extra = {} \/ inner.ppi = {}
      BY <1>1, <1>2, <2>4 DEF Loses
    <3>2. path.named = (IF clauses \cup extra # {} THEN clauses \cup extra ELSE inner.ppi) \cup outer.named \cup inner.named
      BY <1>2, <3>1 DEF get_path
    <3>3. /\ outer.enforced \subseteq outer.named \cup OwnQuals(joinrel)
          /\ inner.enforced \subseteq inner.named \cup inner.ppi \cup OwnQuals(joinrel)
      BY <1>3, <1>12, <3>1 DEF Prints
    <3>4. QED
      BY <1>2, <3>1, <3>2, <3>3
  <2>5. QED
    BY <1>2, <2>1, <2>3, <2>4 DEF Prints
<1>14. ASSUME text.known, req = {}
       PROVE  /\ \A c \in text.clauses : clause_relids(c) \subseteq joinrel
              /\ ~text.lost =>
                   \/ path.enforced \subseteq text.clauses
                   \/ /\ path.given # {}
                      /\ NamesQuals(text.clauses, joinrel) /\ TiesClasses(eq_classes', text.clauses, joinrel)
  <2>1. outer.req = {} /\ extra = {} /\ eq_classes' = ecs
    BY <1>4, <1>7, <1>14
  <2>2. \A c \in outer.named : clause_relids(c) \subseteq joinrel
    BY <1>3, <2>1, NamedWithin
  <2>3. \A c \in inner.named : clause_relids(c) \subseteq joinrel
    <3>1. CASE inner.req = {}
      BY <1>3, <3>1, NamedWithin
    <3>2. CASE Cardinality(inner.rel) = 1
      BY <1>3, <3>2 DEF Prints
    <3>3. QED
      BY <1>8, <1>14, <3>1, <3>2 DEF Cheapest
  <2>4. \A c \in OwnQuals(joinrel) : clause_relids(c) \subseteq joinrel
    BY <1>3, OwnQualsAre
  <2>5. \A c \in text.clauses : clause_relids(c) \subseteq joinrel
    BY <1>8, <1>10, <1>11, <1>14, <2>2, <2>3, <2>4
  <2>6. SUFFICES ASSUME ~text.lost
                 PROVE  \/ path.enforced \subseteq text.clauses
                        \/ /\ path.given # {}
                           /\ NamesQuals(text.clauses, joinrel) /\ TiesClasses(eq_classes', text.clauses, joinrel)
    BY <2>5
  <2>7. /\ ~outer.lost /\ ~inner.lost
        /\ text.clauses = restrictlist \cup outer.named \cup inner.named \cup OwnQuals(joinrel)
    BY <1>8, <1>14, <2>6
  <2>8. outer.enforced \subseteq text.clauses
    BY <1>3, <1>12, <2>1, <2>7 DEF Prints
  <2>9. CASE inner.req = {}
    <3>1. inner.enforced \subseteq text.clauses
      BY <1>3, <1>12, <2>7, <2>9 DEF Prints
    <3>2. QED
      BY <1>2, <1>9, <2>1, <2>7, <2>8, <2>9, <3>1
  <2>10. CASE inner.req # {}
    <3>1. PICK r \in Rels : inner.rel = {r}
      BY <1>3, <1>8, <1>14, <2>10, OneRelation DEF Cheapest
    <3>2. path.given # {}
      BY <1>2, <1>3, <2>10 DEF PlainPath
    <3>3. joinrel = outer.rel \cup {r} /\ restrictlist \subseteq text.clauses
      BY <2>7, <3>1
    <3>4. outer.enforced \cup OwnQuals(joinrel) \subseteq text.clauses
      BY <2>7, <2>8
    <3>5. /\ NamesQuals(text.clauses, joinrel)
          /\ TiesClasses(AfterJoin(eq_classes, joinrel, outer.rel, {r}), text.clauses, joinrel)
      <4>1. /\ FullInv /\ outer \in forest /\ inner \in forest /\ r \in Rels /\ outer # inner
            /\ outer.req = {} /\ inner.rel = {r} /\ joinrel = outer.rel \cup {r}
            /\ outer.enforced \cup OwnQuals(joinrel) \subseteq text.clauses
            /\ build_joinrel_restrictlist(eq_classes, outer, inner) \subseteq text.clauses
        BY <1>1, <1>3, <2>1, <3>1, <3>3, <3>4 DEF restrictlist
      <4> HIDE DEF joinrel
      <4>2. QED
        BY ONLY <4>1, ScanJoinTells
    <3>6. QED
      BY <2>1, <3>1, <3>2, <3>5 DEF ecs
  <2>11. QED
    BY <2>9, <2>10
<1>15. ASSUME NEW q, q = path PROVE Prints(q)' /\ Tells(q)'
  <2>1. Prints(q)'
    BY <1>1, <1>13, <1>15 DEF Prints, OwnQuals, Multiple
  <2>2. q.text = text /\ q.req = req /\ q.rel = joinrel /\ q.enforced = path.enforced /\ q.given = path.given
    BY <1>2, <1>15
  <2>3. NamesQuals(q.text.clauses, q.rel) => NamesQuals(q.text.clauses, q.rel)'
    BY <1>1 DEF NamesQuals, AllQuals
  <2>4. TiesClasses(eq_classes', q.text.clauses, q.rel) => TiesClasses(eq_classes, q.text.clauses, q.rel)'
    BY DEF TiesClasses, MakesAlike, Assumed, Equated, Sides, Here, Within, Members, Tangled, Multiple
  <2>5. q.text.known /\ q.req = {} =>
          /\ \A c \in q.text.clauses : clause_relids(c) \subseteq q.rel
          /\ ~q.text.lost => \/ q.enforced \subseteq q.text.clauses
                             \/ /\ q.given # {} /\ NamesQuals(q.text.clauses, q.rel)
                                /\ TiesClasses(eq_classes', q.text.clauses, q.rel)
    BY <1>14, <2>2
  <2>6. Tells(q)'
    BY <2>3, <2>4, <2>5 DEF Tells, clause_relids
  <2>7. QED
    BY <2>1, <2>6
<1>16. \A p \in forest' : Prints(p)' /\ Tells(p)'
  BY <1>1, <1>3, <1>6, <1>15, TextsLater
<1>17. QED
  BY <1>16 DEF Texts

LEMMA InitText == Init => TextInv
<1>1. Init => forest = {}
  BY DEF Init
<1>2. QED
  BY <1>1, InitFull DEF TextInv, Texts

LEMMA NextText == TextInv /\ [Next]_vars => TextInv'
<1>1. SUFFICES ASSUME TextInv, [Next]_vars PROVE Texts'
  BY NextFull DEF TextInv
<1>2. /\ MergeInv /\ eq_classes \subseteq ClassType /\ (forest # {} => ec_merging_done)
      /\ \A p \in forest : Prints(p) /\ Tells(p)
  BY <1>1 DEF TextInv, Texts, FullInv, WholeInv, JoinInv, Forest, MergeInv, ClassesWellFormed
<1>3. CASE EcNext /\ UNCHANGED <<forest, scanned>>
  <2>1. ~ec_merging_done
    BY <1>3 DEF EcNext, process_equivalence, generate_base_implied_equalities
  <2>2. forest' = {}
    BY <1>2, <1>3, <2>1
  <2>3. QED
    BY <2>2 DEF Texts
<1>4. ASSUME NEW r \in Rels \ scanned, NEW req \in SUBSET (Rels \ {r}), Scan(r, req) PROVE Texts'
  BY <1>1, <1>4, ScanTells
<1>5. ASSUME NEW outer \in forest, NEW inner \in forest, NEW nestloop \in BOOLEAN, NEW material \in BOOLEAN,
             Join(outer, inner, nestloop, material)
      PROVE  Texts'
  BY <1>1, <1>5, JoinTells
<1>6. ASSUME UNCHANGED <<quals, forest>>, Aged(eq_classes', eq_classes) PROVE Texts'
  BY <1>2, <1>6, TextsLater DEF Texts
<1>7. ASSUME NEW outer, NEW inner, Explore(outer, inner) PROVE Texts'
  <2>1. /\ UNCHANGED <<quals, forest>>
        /\ eq_classes' = AfterJoin(eq_classes, outer \cup inner, outer, inner)
    BY <1>7 DEF Explore
  <2>2. Aged(eq_classes', eq_classes)
    BY <1>2, <2>1, AfterJoinAges
  <2>3. QED
    BY <1>6, <2>1, <2>2
<1>8. CASE UNCHANGED vars
  <2>1. UNCHANGED <<eq_classes, quals, forest>>
    BY <1>8 DEF vars, ecVars
  <2>2. Aged(eq_classes', eq_classes)
    BY <1>2, <2>1, AgedSame
  <2>3. QED
    BY <1>6, <2>1, <2>2
<1>9. QED
  BY <1>1, <1>3, <1>4, <1>5, <1>7, <1>8 DEF Next

LEMMA TextInvTells == TextInv => TextNamesJoin
<1>1. SUFFICES ASSUME TextInv, NEW p \in forest, p.text.known, p.req = {}, Cardinality(p.rel) > 1
               PROVE  /\ \A c \in p.text.clauses : clause_relids(c) \subseteq p.rel
                      /\ ~p.text.lost /\ (p.given = {} \/ \A ec \in eq_classes : ~ec.broken) =>
                           /\ {c \in OtherClauses : c.required \subseteq p.rel} \subseteq p.text.clauses
                           /\ \A ec \in eq_classes : p.given = {} \/ ~Tangled(ec) => MakesEqual(p.text.clauses, ec, p.rel)
  BY DEF TextNamesJoin
<1>2. /\ MergeInv /\ QualsGiven /\ ec_merging_done /\ p.rel \in SUBSET Rels /\ p.rel # {}
      /\ EnforcesOthers(p) /\ FullInv /\ Tells(p)
  BY <1>1 DEF TextInv, Texts, FullInv, WholeInv, JoinInv, Forest, RightPath, Placement, PlacedPath
<1>3. \A c \in OtherClauses : c.required # {} /\ c \in AllQuals
  <2>1. ~Multiple({})
    BY FS_EmptySet DEF Multiple
  <2>2. QED
    BY <2>1, OtherClausesAssumption DEF AllQuals
<1>4. SUFFICES ASSUME ~p.text.lost, p.given = {} \/ \A ec \in eq_classes : ~ec.broken
               PROVE  /\ {c \in OtherClauses : c.required \subseteq p.rel} \subseteq p.text.clauses
                      /\ \A ec \in eq_classes : p.given = {} \/ ~Tangled(ec) => MakesEqual(p.text.clauses, ec, p.rel)
  BY <1>1, <1>2 DEF Tells
<1>5. CASE p.enforced \subseteq p.text.clauses
  <2>1. {c \in OtherClauses : c.required \subseteq p.rel} \subseteq p.text.clauses
    BY <1>2, <1>3, <1>5 DEF EnforcesOthers
  <2>2. ASSUME NEW ec \in eq_classes, p.given = {} \/ ~Tangled(ec) PROVE MakesEqual(p.text.clauses, ec, p.rel)
    <3>1. MakesEqual(p.enforced, ec, p.rel)
      BY <1>1, <1>2, <1>4, <2>2, FullInvEqual DEF EqualityEnforced
    <3>2. QED
      BY <1>5, <3>1, EqualByMore
  <2>3. QED
    BY <2>1, <2>2
<1>6. CASE /\ p.given # {} /\ NamesQuals(p.text.clauses, p.rel)
           /\ TiesClasses(eq_classes, p.text.clauses, p.rel)
  <2>1. {c \in OtherClauses : c.required \subseteq p.rel} \subseteq p.text.clauses
    BY <1>3, <1>6 DEF NamesQuals
  <2>2. ASSUME NEW ec \in eq_classes, ~Tangled(ec) PROVE MakesEqual(p.text.clauses, ec, p.rel)
    <3>1. CASE ec.has_const
      <4>1. ASSUME NEW c \in quals, c.required \subseteq p.rel PROVE c \in p.text.clauses
        <5>1. Anchored(c)
          BY <1>2 DEF MergeInv, QualsPlaced
        <5>2. c.required # {} /\ c \in AllQuals
          BY <1>2, <5>1 DEF Anchored, AllQuals
        <5>3. QED
          BY <1>6, <4>1, <5>2 DEF NamesQuals
      <4>2. Given(p.rel) \subseteq p.text.clauses
        BY <4>1 DEF Given
      <4>3. QED
        BY <1>2, <3>1, <4>2, EqualFromQuals
    <3>2. CASE ~ec.has_const
      <4>1. MakesAlike(p.text.clauses, ec, p.rel, {})
        BY <1>4, <1>6, <2>2, <3>2 DEF TiesClasses
      <4>2. SoundClass(ec)
        BY <1>2, AgedSame, SoundClassesNow DEF MergeInv, ClassesWellFormed
      <4>3. QED
        BY <3>2, <4>1, <4>2, EqualWithoutParameters
    <3>3. QED
      BY <3>1, <3>2
  <2>3. QED
    BY <1>6, <2>1, <2>2
<1>7. QED
  BY <1>1, <1>2, <1>4, <1>5, <1>6 DEF Tells

\* The text of a join, printed from whichever paths are cheapest for its sides, names no
\* clause of other relations, and unless it has lost some it names all clauses of the join and
\* makes equal whatever the join does.
THEOREM TextsNameJoins == Spec => []TextNamesJoin
<1>1. TextInv /\ [Next]_vars => TextInv'
  BY NextText
<1>2. QED
  BY InitText, <1>1, TextInvTells, PTL DEF Spec
===============================================================================
