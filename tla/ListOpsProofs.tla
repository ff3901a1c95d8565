---------------------------- MODULE ListOpsProofs ----------------------------
(***************************************************************************)
(* Induction and recursion along a list, and what the loops over lists     *)
(* collect, for every list.                                                *)
(***************************************************************************)
EXTENDS ListOps, SequenceTheorems, WellFoundedInduction, TLAPS

------------------------------------------------------------------------------
(* Recursion along a list *)

LEMMA LeastPlace ==
  ASSUME NEW I \in SUBSET Nat, I # {}
  PROVE  \E m \in I : \A i \in I : m <= i
<1> DEFINE R == OpToRel(<, Nat)
<1>1. PICK m \in I : \A i \in I : <<i, m>> \notin R
  BY NatLessThanWellFounded, WFMin
<1>2. \A i \in I : ~(i < m)
  BY <1>1 DEF OpToRel
<1>3. QED
  BY <1>2

LEMMA Induction ==
  ASSUME NEW N \in Nat, NEW Good, 0 \in Good, \A n \in 1..N : n - 1 \in Good => n \in Good
  PROVE  \A n \in 0..N : n \in Good
<1> DEFINE Bad == (0..N) \ Good
<1>1. SUFFICES ASSUME Bad # {} PROVE FALSE
  OBVIOUS
<1>2. PICK m \in Bad : \A i \in Bad : m <= i
  <2>1. Bad \in SUBSET Nat
    OBVIOUS
  <2> HIDE DEF Bad
  <2>2. QED
    BY <1>1, <2>1, LeastPlace
<1>3. m \in 1..N /\ m - 1 \in 0..N
  OBVIOUS
<1>4. m - 1 \notin Bad
  BY <1>2, <1>3
<1>5. QED
  BY <1>3, <1>4

Recurses(N, S, start, step) ==
  \E g \in [0..N -> S] : g[0] = start /\ \A n \in 1..N : g[n] = step[n][g[n - 1]]

\* A function that takes a step at each place exists, however the steps depend on the places.
LEMMA Recursion ==
  ASSUME NEW N \in Nat, NEW S, NEW start \in S, NEW step \in [1..N -> [S -> S]]
  PROVE  Recurses(N, S, start, step)
<1> DEFINE Begun(n) == {g \in [0..n -> S] : g[0] = start /\ \A k \in 1..n : g[k] = step[k][g[k - 1]]}
           Good == {n \in 0..N : Begun(n) # {}}
<1>1. 0 \in Good
  <2>1. [k \in 0..0 |-> start] \in Begun(0)
    OBVIOUS
  <2>2. QED
    BY <2>1
<1>2. ASSUME NEW n \in 1..N, n - 1 \in Good PROVE n \in Good
  <2>1. PICK g \in [0..n - 1 -> S] : g[0] = start /\ \A k \in 1..n - 1 : g[k] = step[k][g[k - 1]]
    BY <1>2
  <2> DEFINE h == [k \in 0..n |-> IF k = n THEN step[n][g[n - 1]] ELSE g[k]]
  <2>2. /\ n - 1 \in 0..n - 1 /\ 0 \in 0..n - 1 /\ n \in Nat
        /\ \A k \in 0..n : k = n \/ k \in 0..n - 1
        /\ \A k \in 1..n : k - 1 \in 0..n - 1 /\ k - 1 # n /\ k \in 0..n
        /\ \A k \in 1..n : k = n \/ k \in 1..n - 1
    OBVIOUS
  <2>3. step[n][g[n - 1]] \in S
    BY <2>2
  <2>4. h \in [0..n -> S]
    BY <2>2, <2>3
  <2>5. h[n] = step[n][g[n - 1]] /\ (\A k \in 0..n - 1 : h[k] = g[k])
    BY <2>2
  <2>6. h[0] = start /\ \A k \in 1..n : h[k] = step[k][h[k - 1]]
    <3> HIDE DEF h
    <3>1. h[n] = step[n][h[n - 1]]
      BY <2>2, <2>5
    <3>2. \A k \in 1..n - 1 : h[k] = step[k][h[k - 1]]
      <4>1. \A k \in 1..n - 1 : k \in 0..n - 1 /\ k - 1 \in 0..n - 1
        OBVIOUS
      <4>2. QED
        BY <2>1, <2>5, <4>1
    <3>3. QED
      BY <2>1, <2>2, <2>5, <3>1, <3>2
  <2>7. h \in Begun(n)
    BY <2>4, <2>6
  <2> HIDE DEF Begun
  <2>8. QED
    BY <2>2, <2>7
<1>3. N \in Good
  <2>1. \A n \in 1..N : n - 1 \in Good => n \in Good
    BY <1>2
  <2> HIDE DEF Good
  <2>2. \A n \in 0..N : n \in Good
    BY <1>1, <2>1, Induction
  <2>3. QED
    BY <2>2
<1>4. PICK g : g \in Begun(N)
  <2> HIDE DEF Begun
  <2>1. QED
    BY <1>3
<1>5. QED
  BY <1>4 DEF Recurses

LEMMA AppendedSet ==
  ASSUME NEW S, NEW list \in Seq(S), NEW e \in S
  PROVE  ToSet(Append(list, e)) = ToSet(list) \cup {e}
<1>1. /\ Append(list, e) \in Seq(S) /\ Len(Append(list, e)) = Len(list) + 1
      /\ \A i \in 1..Len(list) : Append(list, e)[i] = list[i]
      /\ Append(list, e)[Len(list) + 1] = e
  BY AppendProperties
<1>2. DOMAIN Append(list, e) = 1..Len(list) + 1 /\ DOMAIN list = 1..Len(list) /\ Len(list) \in Nat
  BY <1>1, LenProperties
<1>3. \A i : i \in 1..Len(list) + 1 <=> i \in 1..Len(list) \/ i = Len(list) + 1
  BY <1>2
<1>4. QED
  BY <1>1, <1>2, <1>3 DEF ToSet

TakenBySteps(S, list, set) ==
  \E taken \in [0..Len(list) -> Seq(S)] :
    /\ taken[0] = <<>> /\ Among(list, set) = taken[Len(list)]
    /\ \A n \in 1..Len(list) :
         taken[n] = IF list[n] \in set THEN Append(taken[n - 1], list[n]) ELSE taken[n - 1]

\* Among, place by place.
LEMMA AmongSteps ==
  ASSUME NEW S, NEW list \in Seq(S), NEW set
  PROVE  TakenBySteps(S, list, set)
<1> DEFINE N == Len(list)
           T == Seq(S)
           Then(n, t) == IF list[n] \in set THEN Append(t, list[n]) ELSE t
           step == [n \in 1..N |-> [t \in T |-> Then(n, t)]]
           Taking(f) == [n \in 0..N |-> IF n = 0 THEN <<>> ELSE IF list[n] \in set THEN Append(f[n - 1], list[n]) ELSE f[n - 1]]
           taken == CHOOSE f : f = Taking(f)
           Good == {n \in 0..N : taken[n] \in T}
<1>1. Among(list, set) = taken[N]
  BY DEF Among
<1>2. N \in Nat /\ (\A n \in 1..N : list[n] \in S) /\ DOMAIN list = 1..N
  BY LenProperties, ElementOfSeq
<1>3. \A n \in 1..N, t \in T : Then(n, t) \in T
  BY <1>2, AppendProperties
<1>4. <<>> \in T
  OBVIOUS
<1>5. step \in [1..N -> [T -> T]] /\ \A n \in 1..N, t \in T : step[n][t] = Then(n, t)
  <2> HIDE DEF N, T, Then
  <2>1. QED
    BY <1>3
<1> HIDE DEF step
<1>6. \E f : f = Taking(f)
  <2>1. PICK g \in [0..N -> T] : g[0] = <<>> /\ \A n \in 1..N : g[n] = step[n][g[n - 1]]
    <3> HIDE DEF T, N
    <3>1. Recurses(N, T, <<>>, step)
      BY <1>2, <1>4, <1>5, Recursion
    <3>2. QED
      BY <3>1 DEF Recurses
  <2>2. \A n \in 0..N : n # 0 => n \in 1..N /\ n - 1 \in 0..N
    BY <1>2
  <2>3. \A n \in 1..N : g[n] = Then(n, g[n - 1])
    BY <1>5, <2>1, <2>2
  <2>4. \A n \in 0..N : g[n] = IF n = 0 THEN <<>> ELSE IF list[n] \in set THEN Append(g[n - 1], list[n]) ELSE g[n - 1]
    BY <2>1, <2>2, <2>3
  <2>5. g = Taking(g)
    BY <2>4
  <2>6. QED
    BY <2>5
<1>7. taken = Taking(taken)
  BY <1>6
<1> HIDE DEF taken
<1>8. taken[0] = <<>> /\ \A n \in 1..N : taken[n] = Then(n, taken[n - 1])
  <2>1. 0 \in 0..N /\ \A n \in 1..N : n \in 0..N /\ n # 0
    BY <1>2
  <2>2. \A n \in 0..N : Taking(taken)[n] = IF n = 0 THEN <<>> ELSE Then(n, taken[n - 1])
    OBVIOUS
  <2> HIDE DEF Taking, Then
  <2>3. QED
    BY <1>7, <2>1, <2>2
<1>9. 0 \in Good
  <2>1. 0 \in 0..N
    BY <1>2
  <2>2. taken[0] \in T
    BY <1>4, <1>8
  <2>3. QED
    BY <2>1, <2>2
<1>10. ASSUME NEW n \in 1..N, n - 1 \in Good PROVE n \in Good
  <2>1. taken[n - 1] \in T /\ n \in 0..N
    BY <1>2, <1>10
  <2>2. taken[n] \in T
    BY <1>3, <1>8, <2>1
  <2>3. QED
    BY <2>1, <2>2
<1>11. \A n \in 0..N : taken[n] \in T
  <2>1. \A n \in 1..N : n - 1 \in Good => n \in Good
    BY <1>10
  <2>2. \A n \in 0..N : n \in Good
    <3> HIDE DEF Good
    <3>1. QED
      BY <1>2, <1>9, <2>1, Induction
  <2>3. QED
    BY <2>2
<1> DEFINE t == [n \in 0..N |-> taken[n]]
<1>12. t \in [0..N -> T] /\ \A n \in 0..N : t[n] = taken[n]
  BY <1>11
<1>13. 0 \in 0..N /\ N \in 0..N /\ \A n \in 1..N : n \in 0..N /\ n - 1 \in 0..N
  BY <1>2
<1> HIDE DEF t, T
<1>14. t[0] = <<>> /\ Among(list, set) = t[N] /\ \A n \in 1..N : t[n] = Then(n, t[n - 1])
  BY <1>1, <1>8, <1>12, <1>13
<1>15. QED
  BY <1>12, <1>14 DEF TakenBySteps, T

\* The members of a list that are in a set are those of the result.
LEMMA AmongIs ==
  ASSUME NEW S, NEW list \in Seq(S), NEW set
  PROVE  Among(list, set) \in Seq(S) /\ ToSet(Among(list, set)) = ToSet(list) \cap set
<1> DEFINE N == Len(list)
           Seen(n) == {list[i] : i \in 1..n} \cap set
<1>1. N \in Nat /\ (\A n \in 1..N : list[n] \in S) /\ DOMAIN list = 1..N
  BY LenProperties, ElementOfSeq
<1>2. PICK taken \in [0..N -> Seq(S)] :
        /\ taken[0] = <<>> /\ Among(list, set) = taken[N]
        /\ \A n \in 1..N : taken[n] = IF list[n] \in set THEN Append(taken[n - 1], list[n]) ELSE taken[n - 1]
  <2>1. TakenBySteps(S, list, set)
    BY AmongSteps
  <2>2. QED
    BY <2>1 DEF TakenBySteps
<1> DEFINE Good == {n \in 0..N : ToSet(taken[n]) = Seen(n)}
<1>3. 0 \in Good
  <2>1. Seen(0) = {} /\ ToSet(<<>>) = {}
    BY DEF ToSet
  <2>2. 0 \in 0..N
    BY <1>1
  <2> HIDE DEF Seen
  <2>3. QED
    BY <1>2, <2>1, <2>2
<1>4. ASSUME NEW n \in 1..N, n - 1 \in Good PROVE n \in Good
  <2>1. taken[n - 1] \in Seq(S) /\ ToSet(taken[n - 1]) = Seen(n - 1) /\ n \in 0..N
    BY <1>1, <1>2, <1>4
  <2>2. Seen(n) = IF list[n] \in set THEN Seen(n - 1) \cup {list[n]} ELSE Seen(n - 1)
    <3>1. \A i : i \in 1..n <=> i \in 1..n - 1 \/ i = n
      BY <1>1
    <3>2. QED
      BY <3>1
  <2>3. ToSet(Append(taken[n - 1], list[n])) = ToSet(taken[n - 1]) \cup {list[n]}
    BY <1>1, <2>1, AppendedSet
  <2> HIDE DEF Seen
  <2>4. ToSet(taken[n]) = Seen(n)
    BY <1>2, <2>1, <2>2, <2>3
  <2>5. QED
    BY <2>1, <2>4
<1>5. N \in Good
  <2>1. N \in 0..N
    BY <1>1
  <2>2. \A n \in 1..N : n - 1 \in Good => n \in Good
    BY <1>4
  <2> HIDE DEF Good
  <2>3. \A n \in 0..N : n \in Good
    BY <1>1, <1>3, <2>2, Induction
  <2>4. QED
    BY <2>1, <2>3
<1>6. Seen(N) = ToSet(list) \cap set
  BY <1>1 DEF ToSet
<1>7. N \in 0..N
  BY <1>1
<1>8. QED
  BY <1>2, <1>5, <1>6, <1>7

LEMMA ConcatSet ==
  ASSUME NEW S, NEW s \in Seq(S), NEW t \in Seq(S)
  PROVE  s \o t \in Seq(S) /\ ToSet(s \o t) = ToSet(s) \cup ToSet(t)
<1> DEFINE m == Len(s)
           n == Len(t)
           st == s \o t
<1>1. /\ st \in Seq(S) /\ Len(st) = m + n
      /\ \A i \in 1..m + n : st[i] = IF i <= m THEN s[i] ELSE t[i - m]
  BY ConcatProperties
<1>2. DOMAIN st = 1..m + n /\ DOMAIN s = 1..m /\ DOMAIN t = 1..n /\ m \in Nat /\ n \in Nat
  BY <1>1, LenProperties
<1> HIDE DEF st, m, n
<1>3. ToSet(st) \subseteq ToSet(s) \cup ToSet(t)
  <2>1. SUFFICES ASSUME NEW i \in 1..m + n PROVE st[i] \in ToSet(s) \cup ToSet(t)
    BY <1>2 DEF ToSet
  <2>2. i <= m => i \in 1..m
    BY <1>2
  <2>3. i > m => i - m \in 1..n
    BY <1>2
  <2>4. CASE i <= m
    BY <1>1, <1>2, <2>2, <2>4 DEF ToSet
  <2>5. CASE i > m
    <3>1. st[i] = t[i - m]
      BY <1>1, <1>2, <2>5
    <3>2. QED
      BY <1>2, <2>3, <2>5, <3>1 DEF ToSet
  <2>6. QED
    BY <1>2, <2>4, <2>5
<1>4. ASSUME NEW i \in 1..m PROVE s[i] \in ToSet(st)
  <2>1. i \in 1..m + n /\ i <= m
    BY <1>2
  <2>2. QED
    BY <1>1, <1>2, <2>1 DEF ToSet
<1>5. ASSUME NEW i \in 1..n PROVE t[i] \in ToSet(st)
  <2>1. m + i \in 1..m + n /\ ~(m + i <= m) /\ (m + i) - m = i
    BY <1>2
  <2>2. QED
    BY <1>1, <1>2, <2>1 DEF ToSet
<1>6. QED
  BY <1>1, <1>2, <1>3, <1>4, <1>5 DEF ToSet, st

LEMMA FromFunction ==
  ASSUME NEW S, NEW n \in Nat, NEW f \in [1..n -> S]
  PROVE  f \in Seq(S) /\ Len(f) = n /\ ToSet(f) = {f[i] : i \in 1..n}
<1>1. f \in Seq(S)
  BY SeqDef
<1>2. DOMAIN f = 1..Len(f) /\ DOMAIN f = 1..n /\ Len(f) \in Nat
  BY <1>1, LenProperties
<1>3. Len(f) = n
  BY <1>2
<1>4. QED
  BY <1>1, <1>2, <1>3 DEF ToSet

FlattenedBySteps(S, seqs) ==
  \E made \in [0..Len(seqs) -> Seq(S)] :
    /\ made[0] = <<>> /\ FlattenSeq(seqs) = made[Len(seqs)]
    /\ \A n \in 1..Len(seqs) : made[n] = made[n - 1] \o seqs[n]

\* A list of lists made into one, place by place.
LEMMA FlattenSteps ==
  ASSUME NEW S, NEW seqs \in Seq(Seq(S))
  PROVE  FlattenedBySteps(S, seqs)
<1> DEFINE N == Len(seqs)
           T == Seq(S)
           step == [n \in 1..N |-> [t \in T |-> t \o seqs[n]]]
           Making(f) == [i \in 1..N |-> IF i = 1 THEN seqs[i] ELSE f[i - 1] \o seqs[i]]
           flatten == CHOOSE f : f = Making(f)
<1>1. N \in Nat /\ (\A n \in 1..N : seqs[n] \in T) /\ DOMAIN seqs = 1..N
  BY LenProperties, ElementOfSeq
<1>2. <<>> \in T /\ \A t \in T : <<>> \o t = t
  BY ConcatEmptySeq
<1>3. \A n \in 1..N, t \in T : t \o seqs[n] \in T
  BY <1>1, ConcatProperties
<1>4. step \in [1..N -> [T -> T]] /\ \A n \in 1..N, t \in T : step[n][t] = t \o seqs[n]
  <2> HIDE DEF N, T
  <2>1. QED
    BY <1>3
<1> HIDE DEF step
<1>5. PICK g \in [0..N -> T] : g[0] = <<>> /\ \A n \in 1..N : g[n] = step[n][g[n - 1]]
  <2> HIDE DEF T, N
  <2>1. Recurses(N, T, <<>>, step)
    BY <1>1, <1>2, <1>4, Recursion
  <2>2. QED
    BY <2>1 DEF Recurses
<1>6. \A n \in 1..N : n \in 0..N /\ n - 1 \in 0..N
  BY <1>1
<1>7. \A n \in 1..N : g[n] = g[n - 1] \o seqs[n]
  BY <1>4, <1>5, <1>6
<1>8. \E f : f = Making(f)
  <2> DEFINE f == [i \in 1..N |-> g[i]]
  <2>1. \A i \in 1..N : i # 1 => i - 1 \in 1..N
    BY <1>1
  <2>2. ASSUME NEW n \in 1..N, n = 1 PROVE g[n] = seqs[n]
    <3>1. n - 1 = 0 /\ seqs[n] \in T
      BY <1>1, <2>2
    <3>2. g[n] = <<>> \o seqs[n]
      BY <1>5, <1>7, <3>1
    <3> HIDE DEF T
    <3>3. QED
      BY <1>2, <3>1, <3>2
  <2>3. \A i \in 1..N : f[i] = IF i = 1 THEN seqs[i] ELSE f[i - 1] \o seqs[i]
    BY <1>7, <2>1, <2>2
  <2>4. DOMAIN f = 1..N /\ f = [i \in 1..N |-> f[i]]
    OBVIOUS
  <2> HIDE DEF f
  <2>5. f = Making(f)
    BY <2>3, <2>4
  <2>6. QED
    BY <2>5
<1>9. flatten = Making(flatten)
  BY <1>8
<1> HIDE DEF flatten
<1>10. \A n \in 1..N : flatten[n] = IF n = 1 THEN seqs[n] ELSE flatten[n - 1] \o seqs[n]
  <2>1. \A n \in 1..N : Making(flatten)[n] = IF n = 1 THEN seqs[n] ELSE flatten[n - 1] \o seqs[n]
    OBVIOUS
  <2> HIDE DEF Making
  <2>2. QED
    BY <1>9, <2>1
<1> DEFINE Good == {n \in 0..N : n = 0 \/ flatten[n] = g[n]}
<1>11. \A n \in 0..N : n \in Good
  <2>1. 0 \in Good
    BY <1>1
  <2>2. ASSUME NEW n \in 1..N, n - 1 \in Good PROVE n \in Good
    <3>1. flatten[n] = g[n]
      <4>1. CASE n = 1
        <5>1. n - 1 = 0 /\ seqs[n] \in T
          BY <1>1, <4>1
        <5>2. g[n] = <<>> \o seqs[n] /\ flatten[n] = seqs[n]
          BY <1>5, <1>7, <1>10, <4>1, <5>1
        <5> HIDE DEF T
        <5>3. QED
          BY <1>2, <5>1, <5>2
      <4>2. CASE n # 1
        <5>1. flatten[n - 1] = g[n - 1]
          BY <2>2, <4>2
        <5>2. QED
          BY <1>7, <1>10, <4>2, <5>1
      <4>3. QED
        BY <4>1, <4>2
    <3>2. QED
      BY <1>6, <3>1
  <2>3. \A n \in 1..N : n - 1 \in Good => n \in Good
    BY <2>2
  <2> HIDE DEF Good
  <2>4. QED
    BY <1>1, <2>1, <2>3, Induction
<1>12. FlattenSeq(seqs) = g[N]
  <2>1. CASE N = 0
    <3>1. FlattenSeq(seqs) = <<>>
      BY <1>1, <2>1, EmptySeq DEF FlattenSeq
    <3>2. QED
      BY <1>5, <2>1, <3>1
  <2>2. CASE N # 0
    <3>1. FlattenSeq(seqs) = flatten[N]
      BY <2>2 DEF FlattenSeq, flatten
    <3>2. N \in 0..N
      BY <1>1
    <3>3. QED
      BY <1>11, <2>2, <3>1, <3>2
  <2>3. QED
    BY <2>1, <2>2
<1>13. QED
  BY <1>5, <1>7, <1>12 DEF FlattenedBySteps

LEMMA FlattenIs ==
  ASSUME NEW S, NEW seqs \in Seq(Seq(S))
  PROVE  FlattenSeq(seqs) \in Seq(S) /\ ToSet(FlattenSeq(seqs)) = UNION {ToSet(seqs[i]) : i \in DOMAIN seqs}
<1> DEFINE N == Len(seqs)
           T == Seq(S)
           Upto(n) == UNION {ToSet(seqs[i]) : i \in 1..n}
<1>1. N \in Nat /\ (\A n \in 1..N : seqs[n] \in T) /\ DOMAIN seqs = 1..N
  BY LenProperties, ElementOfSeq
<1>2. PICK made \in [0..N -> T] :
        made[0] = <<>> /\ FlattenSeq(seqs) = made[N] /\ \A n \in 1..N : made[n] = made[n - 1] \o seqs[n]
  <2>1. FlattenedBySteps(S, seqs)
    BY FlattenSteps
  <2>2. QED
    BY <2>1 DEF FlattenedBySteps
<1> DEFINE Good == {n \in 0..N : ToSet(made[n]) = Upto(n)}
<1>3. 0 \in Good
  <2>1. Upto(0) = {} /\ ToSet(<<>>) = {}
    BY DEF ToSet
  <2>2. 0 \in 0..N
    BY <1>1
  <2> HIDE DEF Upto
  <2>3. QED
    BY <1>2, <2>1, <2>2
<1>4. ASSUME NEW n \in 1..N, n - 1 \in Good PROVE n \in Good
  <2>1. n \in 0..N /\ n - 1 \in 0..N /\ \A i : i \in 1..n <=> (i \in 1..n - 1 \/ i = n)
    BY <1>1
  <2>2. Upto(n) = Upto(n - 1) \cup ToSet(seqs[n])
    <3> HIDE DEF T
    <3>1. QED
      BY <2>1
  <2>3. made[n - 1] \in T /\ seqs[n] \in T /\ made[n] = made[n - 1] \o seqs[n] /\ ToSet(made[n - 1]) = Upto(n - 1)
    BY <1>1, <1>2, <1>4, <2>1
  <2>4. ToSet(made[n]) = ToSet(made[n - 1]) \cup ToSet(seqs[n])
    BY <2>3, ConcatSet
  <2> HIDE DEF Upto
  <2>5. QED
    BY <2>1, <2>2, <2>3, <2>4
<1>5. N \in 0..N /\ N \in Good
  <2>1. N \in 0..N
    BY <1>1
  <2>2. \A n \in 1..N : n - 1 \in Good => n \in Good
    BY <1>4
  <2> HIDE DEF Good
  <2>3. \A n \in 0..N : n \in Good
    BY <1>1, <1>3, <2>2, Induction
  <2>4. QED
    BY <2>1, <2>3
<1>6. QED
  BY <1>1, <1>2, <1>5

------------------------------------------------------------------------------
(* Sums along a list *)

\* The weights of a list's members, added up.
Total(weight, list) ==
  LET sum[n \in 0..Len(list)] == IF n = 0 THEN 0 ELSE sum[n - 1] + weight[list[n]] IN sum[Len(list)]

AddsUp(weight, list, sum) == sum[0] = 0 /\ \A n \in 1..Len(list) : sum[n] = sum[n - 1] + weight[list[n]]

Summed(weight, list) ==
  \E sum \in [0..Len(list) -> Nat] : AddsUp(weight, list, sum) /\ Total(weight, list) = sum[Len(list)]

\* There is one sum.
LEMMA TotalIs ==
  ASSUME NEW S, NEW list \in Seq(S), NEW weight \in [S -> Nat], NEW sum, AddsUp(weight, list, sum)
  PROVE  Total(weight, list) = sum[Len(list)]
<1> DEFINE N == Len(list)
           Adding(f) == [n \in 0..N |-> IF n = 0 THEN 0 ELSE f[n - 1] + weight[list[n]]]
           total == CHOOSE f : f = Adding(f)
           f == [n \in 0..N |-> sum[n]]
<1>1. N \in Nat /\ \A n \in 1..N : n \in 0..N /\ n - 1 \in 0..N /\ n # 0
  BY LenProperties
<1>2. \A n \in 0..N : n = 0 \/ n \in 1..N
  BY <1>1
<1>3. sum[0] = 0 /\ \A n \in 1..N : sum[n] = sum[n - 1] + weight[list[n]]
  BY DEF AddsUp
<1>4. \E g : g = Adding(g)
  <2>1. \A n \in 0..N : f[n] = sum[n]
    OBVIOUS
  <2>2. \A n \in 0..N : f[n] = IF n = 0 THEN 0 ELSE f[n - 1] + weight[list[n]]
    <3> HIDE DEF f
    <3>1. QED
      BY <1>1, <1>2, <1>3, <2>1
  <2>3. DOMAIN f = 0..N /\ f = [n \in 0..N |-> f[n]]
    OBVIOUS
  <2> HIDE DEF f
  <2>4. f = Adding(f)
    BY <2>2, <2>3
  <2>5. QED
    BY <2>4
<1>5. total = Adding(total)
  BY <1>4
<1>6. Total(weight, list) = total[N]
  BY DEF Total
<1> HIDE DEF total
<1>7. total[0] = 0 /\ \A n \in 1..N : total[n] = total[n - 1] + weight[list[n]]
  <2>1. \A n \in 0..N : Adding(total)[n] = IF n = 0 THEN 0 ELSE total[n - 1] + weight[list[n]]
    OBVIOUS
  <2>2. 0 \in 0..N
    BY <1>1
  <2> HIDE DEF Adding
  <2>3. QED
    BY <1>1, <1>5, <2>1, <2>2
<1> DEFINE Good == {n \in 0..N : total[n] = sum[n]}
<1>8. 0 \in Good
  <2>1. 0 \in 0..N
    BY <1>1
  <2>2. QED
    BY <1>3, <1>7, <2>1
<1>9. \A n \in 1..N : n - 1 \in Good => n \in Good
  BY <1>1, <1>3, <1>7
<1>10. N \in Good
  <2>1. N \in 0..N
    BY <1>1
  <2> HIDE DEF Good
  <2>2. \A n \in 0..N : n \in Good
    BY <1>1, <1>8, <1>9, Induction
  <2>3. QED
    BY <2>1, <2>2
<1>11. QED
  BY <1>6, <1>10

LEMMA TotalSteps ==
  ASSUME NEW S, NEW list \in Seq(S), NEW weight \in [S -> Nat]
  PROVE  Summed(weight, list)
<1> DEFINE N == Len(list)
           step == [n \in 1..N |-> [t \in Nat |-> t + weight[list[n]]]]
<1>1. N \in Nat /\ \A n \in 1..N : list[n] \in S /\ weight[list[n]] \in Nat /\ n - 1 \in 0..N
  BY LenProperties, ElementOfSeq
<1>2. step \in [1..N -> [Nat -> Nat]] /\ \A n \in 1..N, t \in Nat : step[n][t] = t + weight[list[n]]
  BY <1>1
<1> HIDE DEF step
<1>3. PICK g \in [0..N -> Nat] : g[0] = 0 /\ \A n \in 1..N : g[n] = step[n][g[n - 1]]
  <2> HIDE DEF N
  <2>1. Recurses(N, Nat, 0, step)
    BY <1>1, <1>2, Recursion
  <2>2. QED
    BY <2>1 DEF Recurses
<1>4. \A n \in 1..N : g[n] = g[n - 1] + weight[list[n]]
  BY <1>1, <1>2, <1>3
<1>5. AddsUp(weight, list, g)
  BY <1>3, <1>4 DEF AddsUp
<1>6. Total(weight, list) = g[N]
  BY <1>5, TotalIs
<1>7. QED
  BY <1>5, <1>6 DEF Summed

LEMMA TotalType ==
  ASSUME NEW S, NEW list \in Seq(S), NEW weight \in [S -> Nat]
  PROVE  Total(weight, list) \in Nat
<1>1. Len(list) \in Nat /\ Len(list) \in 0..Len(list)
  BY LenProperties
<1>2. Summed(weight, list)
  BY TotalSteps
<1>3. QED
  BY <1>1, <1>2 DEF Summed

LEMMA TotalShort ==
  ASSUME NEW S, NEW weight \in [S -> Nat]
  PROVE  Total(weight, <<>>) = 0 /\ \A e \in S : Total(weight, <<e>>) = weight[e]
<1>1. Total(weight, <<>>) = 0
  <2> DEFINE sum == [n \in 0..0 |-> 0]
  <2>1. <<>> \in Seq(S) /\ Len(<<>>) = 0
    BY EmptySeq
  <2>2. sum[0] = 0 /\ \A n \in 1..Len(<<>>) : FALSE
    BY <2>1
  <2> HIDE DEF sum
  <2>3. AddsUp(weight, <<>>, sum)
    BY <2>2 DEF AddsUp
  <2>4. Total(weight, <<>>) = sum[Len(<<>>)]
    BY <2>1, <2>3, TotalIs
  <2>5. QED
    BY <2>1, <2>2, <2>4
<1>2. ASSUME NEW e \in S PROVE Total(weight, <<e>>) = weight[e]
  <2> DEFINE sum == [n \in 0..1 |-> IF n = 0 THEN 0 ELSE weight[e]]
  <2>1. <<e>> \in Seq(S) /\ Len(<<e>>) = 1 /\ <<e>>[1] = e
    OBVIOUS
  <2>2. weight[e] \in Nat
    OBVIOUS
  <2>3. sum[0] = 0 /\ sum[1] = weight[e]
    OBVIOUS
  <2> HIDE DEF sum
  <2>4. \A n \in 1..1 : sum[n] = sum[n - 1] + weight[<<e>>[n]]
    <3>1. \A n \in 1..1 : n = 1 /\ n - 1 = 0
      OBVIOUS
    <3>2. sum[1] = sum[0] + weight[<<e>>[1]]
      BY <2>1, <2>2, <2>3
    <3>3. QED
      BY <3>1, <3>2
  <2>5. AddsUp(weight, <<e>>, sum)
    BY <2>1, <2>3, <2>4 DEF AddsUp
  <2>6. Total(weight, <<e>>) = sum[Len(<<e>>)]
    BY <2>1, <2>5, TotalIs
  <2>7. QED
    BY <2>1, <2>3, <2>6
<1>3. QED
  BY <1>1, <1>2

WeighAlike(v, s, w, t) == Len(s) = Len(t) /\ \A i \in 1..Len(s) : v[s[i]] = w[t[i]]

\* Lists whose members weigh the same, place by place, have one sum.
LEMMA TotalAlike ==
  ASSUME NEW S, NEW s \in Seq(S), NEW v \in [S -> Nat],
         NEW T, NEW t \in Seq(T), NEW w \in [T -> Nat],
         WeighAlike(v, s, w, t)
  PROVE  Total(v, s) = Total(w, t)
<1>1. PICK sum : AddsUp(v, s, sum) /\ Total(v, s) = sum[Len(s)]
  <2>1. Summed(v, s)
    BY TotalSteps
  <2>2. QED
    BY <2>1 DEF Summed
<1>2. AddsUp(w, t, sum) /\ Len(s) = Len(t)
  BY <1>1 DEF AddsUp, WeighAlike
<1>3. QED
  BY <1>1, <1>2, TotalIs

Added(u, v, w, s) == \A i \in 1..Len(s) : u[s[i]] = v[s[i]] + w[s[i]]
TotalsAdd(u, v, w, s) == Total(u, s) = Total(v, s) + Total(w, s)

\* The sum of two weights.
LEMMA TotalAdd ==
  ASSUME NEW S, NEW s \in Seq(S), NEW u \in [S -> Nat], NEW v \in [S -> Nat], NEW w \in [S -> Nat],
         Added(u, v, w, s)
  PROVE  TotalsAdd(u, v, w, s)
<1> DEFINE N == Len(s)
<1>1. PICK f \in [0..N -> Nat] : AddsUp(v, s, f) /\ Total(v, s) = f[N]
  <2>1. Summed(v, s)
    BY TotalSteps
  <2>2. QED
    BY <2>1 DEF Summed
<1>2. PICK g \in [0..N -> Nat] : AddsUp(w, s, g) /\ Total(w, s) = g[N]
  <2>1. Summed(w, s)
    BY TotalSteps
  <2>2. QED
    BY <2>1 DEF Summed
<1>3. N \in Nat /\ N \in 0..N /\ 0 \in 0..N
  BY LenProperties
<1>4. \A n \in 1..N : n \in 0..N /\ n - 1 \in 0..N /\ v[s[n]] \in Nat /\ w[s[n]] \in Nat
  BY <1>3, ElementOfSeq
<1> DEFINE sum == [n \in 0..N |-> f[n] + g[n]]
<1>5. \A n \in 0..N : sum[n] = f[n] + g[n] /\ f[n] \in Nat /\ g[n] \in Nat
  OBVIOUS
<1> HIDE DEF sum
<1>6. sum[0] = 0
  <2>1. f[0] = 0 /\ g[0] = 0
    BY <1>1, <1>2 DEF AddsUp
  <2>2. sum[0] = f[0] + g[0]
    BY <1>3, <1>5
  <2>3. QED
    BY <2>1, <2>2
<1>7. \A n \in 1..N : sum[n] = sum[n - 1] + u[s[n]]
  <2>1. SUFFICES ASSUME NEW n \in 1..N PROVE sum[n] = sum[n - 1] + u[s[n]]
    OBVIOUS
  <2>2. f[n] = f[n - 1] + v[s[n]] /\ g[n] = g[n - 1] + w[s[n]] /\ u[s[n]] = v[s[n]] + w[s[n]]
    BY <1>1, <1>2 DEF AddsUp, Added
  <2>3. /\ sum[n] = f[n] + g[n] /\ sum[n - 1] = f[n - 1] + g[n - 1]
        /\ f[n - 1] \in Nat /\ g[n - 1] \in Nat /\ v[s[n]] \in Nat /\ w[s[n]] \in Nat
    BY <1>4, <1>5
  <2>4. QED
    BY <2>2, <2>3
<1>8. AddsUp(u, s, sum)
  BY <1>6, <1>7 DEF AddsUp
<1>9. Total(u, s) = sum[N]
  BY <1>8, TotalIs
<1>10. QED
  BY <1>1, <1>2, <1>3, <1>5, <1>9 DEF TotalsAdd

LEMMA TotalConcat ==
  ASSUME NEW S, NEW s \in Seq(S), NEW t \in Seq(S), NEW w \in [S -> Nat]
  PROVE  Total(w, s \o t) = Total(w, s) + Total(w, t)
<1> DEFINE M == Len(s)
           N == Len(t)
           st == s \o t
<1>1. PICK f \in [0..M -> Nat] : AddsUp(w, s, f) /\ Total(w, s) = f[M]
  <2>1. Summed(w, s)
    BY TotalSteps
  <2>2. QED
    BY <2>1 DEF Summed
<1>2. PICK g \in [0..N -> Nat] : AddsUp(w, t, g) /\ Total(w, t) = g[N]
  <2>1. Summed(w, t)
    BY TotalSteps
  <2>2. QED
    BY <2>1 DEF Summed
<1>3. M \in Nat /\ N \in Nat
  BY LenProperties
<1>4. /\ st \in Seq(S) /\ Len(st) = M + N
      /\ \A i \in 1..M + N : st[i] = IF i <= M THEN s[i] ELSE t[i - M]
  BY ConcatProperties
<1> DEFINE sum == [n \in 0..M + N |-> IF n <= M THEN f[n] ELSE f[M] + g[n - M]]
<1>5. /\ \A n \in 0..M + N : sum[n] = IF n <= M THEN f[n] ELSE f[M] + g[n - M]
      /\ f[0] = 0 /\ g[0] = 0
      /\ \A n \in 1..M : f[n] = f[n - 1] + w[s[n]]
      /\ \A n \in 1..N : g[n] = g[n - 1] + w[t[n]]
      /\ \A n \in 0..M : f[n] \in Nat
      /\ \A n \in 0..N : g[n] \in Nat
  BY <1>1, <1>2 DEF AddsUp
<1>6. \A n \in 1..N : w[t[n]] \in Nat
  BY ElementOfSeq
<1> HIDE DEF sum, st, M, N
<1>7. sum[0] = 0
  <2>1. 0 \in 0..M + N /\ 0 <= M
    BY <1>3
  <2>2. QED
    BY <1>5, <2>1
<1>8. ASSUME NEW n \in 1..M + N PROVE sum[n] = sum[n - 1] + w[st[n]]
  <2>1. n \in 0..M + N /\ n - 1 \in 0..M + N
    BY <1>3
  <2>2. CASE n <= M
    <3>1. n \in 1..M /\ n - 1 <= M
      BY <1>3, <2>2
    <3>2. QED
      BY <1>4, <1>5, <2>1, <2>2, <3>1
  <2>3. CASE n = M + 1
    <3>1. n - 1 <= M /\ ~(n <= M) /\ n - 1 = M /\ n - M = 1 /\ 1 \in 1..N /\ M \in 0..M /\ 0 \in 0..N
      BY <1>3, <2>3
    <3>2. sum[n] = f[M] + g[1] /\ sum[n - 1] = f[M] /\ st[n] = t[1]
      BY <1>4, <1>5, <2>1, <3>1
    <3>3. \A k \in 1..N : k = 1 => g[k] = w[t[k]]
      <4>1. \A k \in 1..N : k = 1 => k - 1 = 0
        OBVIOUS
      <4>2. QED
        BY <1>5, <1>6, <4>1
    <3>4. QED
      BY <3>1, <3>2, <3>3
  <2>4. CASE n > M + 1
    <3>1. /\ ~(n <= M) /\ ~(n - 1 <= M) /\ (n - 1) - M = (n - M) - 1 /\ n - M \in 1..N
          /\ (n - M) - 1 \in 0..N /\ M \in 0..M
      BY <1>3, <2>4
    <3>2. /\ sum[n] = f[M] + g[n - M] /\ sum[n - 1] = f[M] + g[(n - M) - 1] /\ st[n] = t[n - M]
      BY <1>4, <1>5, <2>1, <3>1
    <3>3. g[n - M] = g[(n - M) - 1] + w[t[n - M]]
      BY <1>5, <3>1
    <3>4. f[M] \in Nat /\ g[(n - M) - 1] \in Nat /\ w[t[n - M]] \in Nat
      BY <1>5, <1>6, <3>1
    <3>5. QED
      BY <3>2, <3>3, <3>4
  <2>5. QED
    BY <1>3, <2>2, <2>3, <2>4
<1>9. AddsUp(w, st, sum)
  BY <1>4, <1>7, <1>8 DEF AddsUp
<1>10. Total(w, st) = sum[M + N]
  BY <1>4, <1>9, TotalIs
<1>11. sum[M + N] = f[M] + g[N]
  <2>1. M + N \in 0..M + N /\ (M + N) - M = N /\ (M + N <= M => N = 0) /\ M \in 0..M
    BY <1>3
  <2>2. QED
    BY <1>3, <1>5, <2>1
<1>12. QED
  BY <1>1, <1>2, <1>10, <1>11 DEF st

\* The sum over the members that are in a set.
LEMMA TotalAmong ==
  ASSUME NEW S, NEW list \in Seq(S), NEW w \in [S -> Nat], NEW set
  PROVE  Total(w, Among(list, set)) = Total([e \in S |-> IF e \in set THEN w[e] ELSE 0], list)
<1> DEFINE N == Len(list)
           v == [e \in S |-> IF e \in set THEN w[e] ELSE 0]
<1>1. N \in Nat /\ 0 \in 0..N /\ N \in 0..N /\ \A n \in 1..N : list[n] \in S /\ n \in 0..N /\ n - 1 \in 0..N
  BY LenProperties, ElementOfSeq
<1>2. PICK taken \in [0..N -> Seq(S)] :
        /\ taken[0] = <<>> /\ Among(list, set) = taken[N]
        /\ \A n \in 1..N : taken[n] = IF list[n] \in set THEN Append(taken[n - 1], list[n]) ELSE taken[n - 1]
  <2>1. TakenBySteps(S, list, set)
    BY AmongSteps
  <2>2. QED
    BY <2>1 DEF TakenBySteps
<1> DEFINE sum == [n \in 0..N |-> Total(w, taken[n])]
<1>3. \A n \in 0..N : sum[n] = Total(w, taken[n])
  OBVIOUS
<1>4. v \in [S -> Nat] /\ \A e \in S : v[e] = IF e \in set THEN w[e] ELSE 0
  OBVIOUS
<1> HIDE DEF sum, v, N
<1>5. sum[0] = 0
  BY <1>1, <1>2, <1>3, TotalShort
<1>6. ASSUME NEW n \in 1..N PROVE sum[n] = sum[n - 1] + v[list[n]]
  <2>1. taken[n - 1] \in Seq(S) /\ sum[n] = Total(w, taken[n]) /\ sum[n - 1] = Total(w, taken[n - 1])
    BY <1>1, <1>2, <1>3
  <2>2. Total(w, taken[n - 1]) \in Nat
    BY <2>1, TotalType
  <2>3. CASE list[n] \in set
    <3>1. taken[n] = taken[n - 1] \o <<list[n]>>
      BY <1>1, <1>2, <2>1, <2>3, AppendIsConcat
    <3>2. <<list[n]>> \in Seq(S)
      BY <1>1
    <3>3. Total(w, taken[n]) = Total(w, taken[n - 1]) + Total(w, <<list[n]>>)
      BY <2>1, <3>1, <3>2, TotalConcat
    <3>4. Total(w, <<list[n]>>) = v[list[n]]
      BY <1>1, <1>4, <2>3, TotalShort
    <3>5. QED
      BY <2>1, <3>3, <3>4
  <2>4. CASE list[n] \notin set
    BY <1>1, <1>2, <1>4, <2>1, <2>2, <2>4
  <2>5. QED
    BY <2>3, <2>4
<1>7. AddsUp(v, list, sum)
  BY <1>5, <1>6 DEF AddsUp, N
<1>8. Total(v, list) = sum[N]
  BY <1>4, <1>7, TotalIs DEF N
<1>9. QED
  BY <1>1, <1>2, <1>3, <1>8 DEF v

\* The sum over a list of lists made into one.
LEMMA TotalFlatten ==
  ASSUME NEW S, NEW seqs \in Seq(Seq(S)), NEW w \in [S -> Nat]
  PROVE  Total(w, FlattenSeq(seqs)) = Total([s \in Seq(S) |-> Total(w, s)], seqs)
<1> DEFINE N == Len(seqs)
           T == Seq(S)
           v == [s \in T |-> Total(w, s)]
<1>1. N \in Nat /\ 0 \in 0..N /\ N \in 0..N /\ \A n \in 1..N : seqs[n] \in T /\ n \in 0..N /\ n - 1 \in 0..N
  BY LenProperties, ElementOfSeq
<1>2. PICK made \in [0..N -> T] :
        made[0] = <<>> /\ FlattenSeq(seqs) = made[N] /\ \A n \in 1..N : made[n] = made[n - 1] \o seqs[n]
  <2>1. FlattenedBySteps(S, seqs)
    BY FlattenSteps
  <2>2. QED
    BY <2>1 DEF FlattenedBySteps
<1> DEFINE sum == [n \in 0..N |-> Total(w, made[n])]
<1>3. \A n \in 0..N : sum[n] = Total(w, made[n])
  OBVIOUS
<1>4. \A s \in T : Total(w, s) \in Nat
  BY TotalType
<1>5. v \in [T -> Nat] /\ \A s \in T : v[s] = Total(w, s)
  BY <1>4
<1> HIDE DEF sum, v, N
<1>6. sum[0] = 0
  BY <1>1, <1>2, <1>3, TotalShort
<1>7. ASSUME NEW n \in 1..N PROVE sum[n] = sum[n - 1] + v[seqs[n]]
  <2>1. made[n - 1] \in T /\ seqs[n] \in T /\ made[n] = made[n - 1] \o seqs[n]
    BY <1>1, <1>2
  <2>2. Total(w, made[n]) = Total(w, made[n - 1]) + Total(w, seqs[n])
    BY <2>1, TotalConcat
  <2>3. QED
    BY <1>1, <1>3, <1>5, <2>1, <2>2
<1>8. AddsUp(v, seqs, sum)
  BY <1>6, <1>7 DEF AddsUp, N
<1>9. Total(v, seqs) = sum[N]
  <2> HIDE DEF T
  <2>1. seqs \in Seq(T)
    BY DEF T
  <2>2. QED
    BY <1>5, <1>8, <2>1, TotalIs DEF N
<1>10. QED
  BY <1>1, <1>2, <1>3, <1>9 DEF v

LEMMA TotalReverse ==
  ASSUME NEW S, NEW s \in Seq(S), NEW w \in [S -> Nat]
  PROVE  Reverse(s) \in Seq(S) /\ Total(w, Reverse(s)) = Total(w, s)
<1> DEFINE N == Len(s)
           r == [i \in 1..N |-> s[(N - i) + 1]]
<1>1. N \in Nat /\ N \in 0..N /\ 0 \in 0..N /\ \A n \in 1..N : s[n] \in S /\ w[s[n]] \in Nat
  BY LenProperties, ElementOfSeq
<1>2. r = Reverse(s)
  BY DEF Reverse
<1>3. \A i \in 1..N : (N - i) + 1 \in 1..N /\ r[i] = s[(N - i) + 1]
  BY <1>1
<1>4. r \in [1..N -> S]
  BY <1>1, <1>3
<1> HIDE DEF r, N
<1>5. r \in Seq(S) /\ Len(r) = N
  BY <1>1, <1>4, FromFunction
<1>6. PICK f \in [0..N -> Nat] : AddsUp(w, s, f) /\ Total(w, s) = f[N]
  <2>1. Summed(w, s)
    BY TotalSteps
  <2>2. QED
    BY <2>1 DEF Summed, N
<1>7. f[0] = 0 /\ \A n \in 1..N : f[n] = f[n - 1] + w[s[n]]
  BY <1>6 DEF AddsUp, N
<1> DEFINE sum == [n \in 0..N |-> f[N] - f[N - n]]
<1>8. \A n \in 0..N : sum[n] = f[N] - f[N - n] /\ N - n \in 0..N /\ f[N - n] \in Nat
  BY <1>1
<1> HIDE DEF sum
<1>9. f[N] \in Nat
  BY <1>1
<1>10. sum[0] = 0
  <2>1. N - 0 = N
    BY <1>1
  <2>2. QED
    BY <1>1, <1>8, <1>9, <2>1
<1>11. ASSUME NEW n \in 1..N PROVE sum[n] = sum[n - 1] + w[r[n]]
  <2>1. /\ n \in 0..N /\ n - 1 \in 0..N /\ N - (n - 1) = (N - n) + 1 /\ ((N - n) + 1) - 1 = N - n
        /\ (N - n) + 1 \in 1..N
    BY <1>1
  <2>2. sum[n] = f[N] - f[N - n] /\ sum[n - 1] = f[N] - f[(N - n) + 1]
    BY <1>8, <2>1
  <2>3. f[(N - n) + 1] = f[N - n] + w[r[n]]
    BY <1>3, <1>7, <2>1
  <2>4. f[N - n] \in Nat /\ w[r[n]] \in Nat
    BY <1>1, <1>3, <1>8, <2>1
  <2>5. QED
    BY <1>9, <2>2, <2>3, <2>4
<1>12. AddsUp(w, r, sum)
  BY <1>5, <1>10, <1>11 DEF AddsUp
<1>13. Total(w, r) = sum[N]
  BY <1>5, <1>12, TotalIs
<1>14. sum[N] = f[N]
  <2>1. sum[N] = f[N] - f[N - N] /\ N - N = 0
    BY <1>1, <1>8
  <2>2. sum[N] = f[N] - f[0]
    BY <2>1
  <2>3. QED
    BY <1>7, <1>9, <2>2
<1>15. QED
  BY <1>2, <1>5, <1>6, <1>13, <1>14

SumApart(w, list, A, B) == Total(w, Among(list, A \cup B)) = Total(w, Among(list, A)) + Total(w, Among(list, B))

\* What is in one of two sets is in the first or in the second.
LEMMA TotalApart ==
  ASSUME NEW S, NEW list \in Seq(S), NEW w \in [S -> Nat], NEW A, NEW B, A \cap B = {}
  PROVE  SumApart(w, list, A, B)
<1> DEFINE Of(set) == [e \in S |-> IF e \in set THEN w[e] ELSE 0]
<1>1. \A set : Of(set) \in [S -> Nat] /\ \A e \in S : Of(set)[e] = IF e \in set THEN w[e] ELSE 0
  OBVIOUS
<1>2. \A set : Total(w, Among(list, set)) = Total(Of(set), list)
  BY TotalAmong
<1>3. \A i \in 1..Len(list) : list[i] \in S
  BY ElementOfSeq
<1> DEFINE u == Of(A \cup B)
           v == Of(A)
           x == Of(B)
<1>4. /\ u \in [S -> Nat] /\ v \in [S -> Nat] /\ x \in [S -> Nat]
      /\ \A e \in S : /\ u[e] = IF e \in A \cup B THEN w[e] ELSE 0
                      /\ v[e] = IF e \in A THEN w[e] ELSE 0
                      /\ x[e] = IF e \in B THEN w[e] ELSE 0
  BY <1>1
<1>5. /\ Total(w, Among(list, A \cup B)) = Total(u, list) /\ Total(w, Among(list, A)) = Total(v, list)
      /\ Total(w, Among(list, B)) = Total(x, list)
  BY <1>2
<1> HIDE DEF Of, u, v, x
<1>6. \A e \in S : u[e] = v[e] + x[e]
  <2>1. \A e \in S : w[e] \in Nat
    OBVIOUS
  <2>2. SUFFICES ASSUME NEW e \in S PROVE u[e] = v[e] + x[e]
    OBVIOUS
  <2>3. CASE e \in A
    <3>1. u[e] = w[e] /\ v[e] = w[e] /\ x[e] = 0
      BY <1>4, <2>3
    <3>2. QED
      BY <2>1, <3>1
  <2>4. CASE e \in B
    <3>1. u[e] = w[e] /\ x[e] = w[e] /\ v[e] = 0
      BY <1>4, <2>4
    <3>2. QED
      BY <2>1, <3>1
  <2>5. CASE e \notin A /\ e \notin B
    <3>1. u[e] = 0 /\ x[e] = 0 /\ v[e] = 0
      BY <1>4, <2>5
    <3>2. QED
      BY <3>1
  <2>6. QED
    BY <2>3, <2>4, <2>5
<1>7. Total(u, list) = Total(v, list) + Total(x, list)
  <2>1. Added(u, v, x, list)
    BY <1>3, <1>6 DEF Added
  <2>2. u \in [S -> Nat] /\ v \in [S -> Nat] /\ x \in [S -> Nat]
    BY <1>4
  <2>3. TotalsAdd(u, v, x, list)
    BY <2>1, <2>2, TotalAdd
  <2>4. QED
    BY <2>3 DEF TotalsAdd
<1>8. QED
  BY <1>5, <1>7 DEF SumApart

LEMMA TotalAll ==
  ASSUME NEW S, NEW list \in Seq(S), NEW w \in [S -> Nat], NEW set, ToSet(list) \subseteq set
  PROVE  Total(w, Among(list, set)) = Total(w, list)
<1> DEFINE v == [e \in S |-> IF e \in set THEN w[e] ELSE 0]
<1>1. v \in [S -> Nat] /\ \A e \in S : v[e] = IF e \in set THEN w[e] ELSE 0
  OBVIOUS
<1>2. \A i \in 1..Len(list) : list[i] \in S /\ list[i] \in set
  BY ElementOfSeq, LenProperties DEF ToSet
<1>3. Total(w, Among(list, set)) = Total(v, list)
  BY TotalAmong
<1> HIDE DEF v
<1>4. \A i \in 1..Len(list) : v[list[i]] = w[list[i]]
  BY <1>1, <1>2
<1>5. Total(v, list) = Total(w, list)
  <2>1. WeighAlike(v, list, w, list)
    BY <1>4 DEF WeighAlike
  <2>2. QED
    BY <1>1, <2>1, TotalAlike
<1>6. QED
  BY <1>3, <1>5

------------------------------------------------------------------------------
(* The order of what loops collect *)

\* A list's members come from a beginning of another, in its order.
TakenInOrder(t, list, n) ==
  \E p \in [1..Len(t) -> 1..n] : /\ \A k \in 1..Len(t) : t[k] = list[p[k]]
                                 /\ \A j, k \in 1..Len(t) : j < k => p[j] < p[k]

LEMMA AmongOrder ==
  ASSUME NEW S, NEW list \in Seq(S), NEW set
  PROVE  TakenInOrder(Among(list, set), list, Len(list))
<1> DEFINE N == Len(list)
<1>1. N \in Nat /\ N \in 0..N /\ \A n \in 1..N : list[n] \in S /\ n \in 0..N /\ n - 1 \in 0..N
  BY LenProperties, ElementOfSeq
<1>2. PICK taken \in [0..N -> Seq(S)] :
        /\ taken[0] = <<>> /\ Among(list, set) = taken[N]
        /\ \A n \in 1..N : taken[n] = IF list[n] \in set THEN Append(taken[n - 1], list[n]) ELSE taken[n - 1]
  <2>1. TakenBySteps(S, list, set)
    BY AmongSteps
  <2>2. QED
    BY <2>1 DEF TakenBySteps
<1> HIDE DEF N
<1> DEFINE Good == {n \in 0..N : TakenInOrder(taken[n], list, n)}
<1>3. 0 \in Good
  <2>1. TakenInOrder(<<>>, list, 0)
    <3> DEFINE p == [k \in 1..0 |-> k]
    <3>1. Len(<<>>) = 0 /\ 1..0 = {}
      OBVIOUS
    <3>2. p \in [1..Len(<<>>) -> 1..0]
      BY <3>1
    <3>3. QED
      BY <3>1, <3>2 DEF TakenInOrder
  <2>2. 0 \in 0..N
    BY <1>1
  <2>3. QED
    BY <1>2, <2>1, <2>2
<1>4. ASSUME NEW n \in 1..N, n - 1 \in Good PROVE n \in Good
  <2>1. taken[n - 1] \in Seq(S) /\ n \in 0..N /\ list[n] \in S /\ n \in Nat
    BY <1>1, <1>2
  <2>2. PICK p \in [1..Len(taken[n - 1]) -> 1..n - 1] :
          /\ \A k \in 1..Len(taken[n - 1]) : taken[n - 1][k] = list[p[k]]
          /\ \A j, k \in 1..Len(taken[n - 1]) : j < k => p[j] < p[k]
    BY <1>4 DEF TakenInOrder
  <2>3. CASE list[n] \notin set
    <3>1. taken[n] = taken[n - 1]
      BY <1>2, <2>3
    <3>2. p \in [1..Len(taken[n]) -> 1..n]
      BY <2>1, <3>1
    <3>3. TakenInOrder(taken[n], list, n)
      BY <2>2, <3>1, <3>2 DEF TakenInOrder
    <3>4. QED
      BY <2>1, <3>3
  <2>4. CASE list[n] \in set
    <3> DEFINE M == Len(taken[n - 1])
               q == [k \in 1..M + 1 |-> IF k = M + 1 THEN n ELSE p[k]]
    <3>1. taken[n] = Append(taken[n - 1], list[n])
      BY <1>2, <2>4
    <3>2. /\ M \in Nat /\ Len(taken[n]) = M + 1 /\ taken[n][M + 1] = list[n]
          /\ \A k \in 1..M : taken[n][k] = taken[n - 1][k]
      BY <2>1, <3>1, AppendProperties, LenProperties
    <3>3. \A k \in 1..M : p[k] \in 1..n - 1 /\ p[k] < n /\ p[k] \in 1..n
      <4>1. \A k \in 1..M : p[k] \in 1..n - 1
        OBVIOUS
      <4>2. \A i \in 1..n - 1 : i < n /\ i \in 1..n
        BY <2>1
      <4>3. QED
        BY <4>1, <4>2
    <3> HIDE DEF M
    <3>4. /\ \A k \in 1..M + 1 : q[k] = IF k = M + 1 THEN n ELSE p[k]
          /\ \A k \in 1..M + 1 : k = M + 1 \/ k \in 1..M
          /\ q \in [1..M + 1 -> 1..n]
      BY <2>1, <3>2, <3>3
    <3> HIDE DEF q
    <3>5. \A k \in 1..M + 1 : taken[n][k] = list[q[k]]
      BY <2>2, <3>2, <3>4 DEF M
    <3>6. \A j, k \in 1..M + 1 : j < k => q[j] < q[k]
      <4>1. \A j, k \in 1..M + 1 : j < k => j \in 1..M
        BY <3>2
      <4>2. \A j \in 1..M : j # M + 1 /\ q[j] = p[j]
        BY <3>2, <3>4
      <4>3. QED
        BY <2>2, <3>3, <3>4, <4>1, <4>2 DEF M
    <3>7. TakenInOrder(taken[n], list, n)
      BY <3>2, <3>4, <3>5, <3>6 DEF TakenInOrder
    <3>8. QED
      BY <2>1, <3>7
  <2>5. QED
    BY <2>3, <2>4
<1>5. N \in Good
  <2>1. \A n \in 1..N : n - 1 \in Good => n \in Good
    BY <1>4
  <2> HIDE DEF Good
  <2>2. \A n \in 0..N : n \in Good
    BY <1>1, <1>3, <2>1, Induction
  <2>3. QED
    BY <1>1, <2>2
<1>6. QED
  BY <1>2, <1>5 DEF N

==============================================================================
