-------------------------- MODULE UpperPlannerProofs --------------------------
(***************************************************************************)
(* Grouping sets, for every statement: whichever of them the planner sorts  *)
(* and whichever it hashes, each is computed as often as it is written, by  *)
(* its own columns; and a statement is refused only if neither would do.    *)
(***************************************************************************)
EXTENDS UpperPlanner, ListOpsProofs, FiniteSetTheorems

Lists == Seq(Columns)

------------------------------------------------------------------------------
(* Lists of columns *)

LEMMA BeginningIs ==
  ASSUME NEW S, NEW seq \in Seq(S), NEW set
  PROVE  Beginning(seq, set) \in Seq(S) /\ ToSet(Beginning(seq, set)) \subseteq ToSet(seq) \cap set
<1> DEFINE N == Len(seq)
           Ends(n) == (\A i \in 1..n : seq[i] \in set) /\ (n = N \/ seq[n + 1] \notin set)
           n == CHOOSE n \in 0..N : Ends(n)
           I == {k \in 0..N : k = N \/ seq[k + 1] \notin set}
<1>1. N \in Nat /\ DOMAIN seq = 1..N /\ \A i \in 1..N : seq[i] \in S
  BY LenProperties, ElementOfSeq
<1>2. \E k \in 0..N : Ends(k)
  <2>1. I \in SUBSET Nat /\ I # {}
    <3>1. N \in I
      BY <1>1
    <3>2. QED
      BY <3>1
  <2>2. PICK m \in I : \A i \in I : m <= i
    <3> HIDE DEF I
    <3>1. QED
      BY <2>1, LeastPlace
  <2>3. ASSUME NEW i \in 1..m PROVE seq[i] \in set
    <3>1. m \in 0..N
      BY <2>2
    <3>2. i - 1 \in 0..N /\ ~(m <= i - 1) /\ i - 1 # N /\ (i - 1) + 1 = i
      <4> HIDE DEF I
      <4>1. QED
        BY <1>1, <3>1
    <3>3. i - 1 \notin I
      <4> HIDE DEF I
      <4>1. QED
        BY <2>2, <3>2
    <3>4. QED
      BY <3>2, <3>3
  <2>4. m \in 0..N /\ Ends(m)
    BY <2>3
  <2> HIDE DEF Ends
  <2>5. QED
    BY <2>4
<1>3. n \in 0..N /\ Ends(n)
  <2> HIDE DEF Ends
  <2>1. QED
    BY <1>2
<1>4. Beginning(seq, set) = SubSeq(seq, 1, n)
  BY DEF Beginning
<1>5. n \in 0..N
  BY <1>3
<1> HIDE DEF n
<1>6. \A i \in 1..n : i \in 1..N /\ seq[i] \in S /\ seq[i] \in set
  <2>1. \A i \in 1..n : i \in 1..N
    BY <1>1, <1>5
  <2>2. QED
    BY <1>1, <1>3, <2>1
<1>7. n \in Int /\ (IF 1 <= n THEN n - 1 + 1 ELSE 0) = n
  <2>1. n \in Nat
    BY <1>1, <1>5
  <2>2. QED
    BY <2>1
<1>8. /\ SubSeq(seq, 1, n) \in Seq(S) /\ Len(SubSeq(seq, 1, n)) = n
      /\ \A i \in 1..n : SubSeq(seq, 1, n)[i] = seq[i]
  <2>1. /\ SubSeq(seq, 1, n) \in Seq(S)
        /\ Len(SubSeq(seq, 1, n)) = IF 1 <= n THEN n - 1 + 1 ELSE 0
        /\ \A i \in 1..n - 1 + 1 : SubSeq(seq, 1, n)[i] = seq[1 + i - 1]
    BY <1>6, <1>7, SubSeqProperties
  <2>2. \A i \in 1..n : i \in 1..n - 1 + 1 /\ 1 + i - 1 = i
    BY <1>7
  <2>3. QED
    BY <1>7, <2>1, <2>2
<1>9. DOMAIN SubSeq(seq, 1, n) = 1..n
  BY <1>8, LenProperties
<1>10. QED
  BY <1>1, <1>4, <1>6, <1>8, <1>9 DEF ToSet

LEMMA WithoutIs ==
  ASSUME NEW S, NEW seq \in Seq(S), NEW set
  PROVE  Without(seq, set) \in Seq(S) /\ ToSet(Without(seq, set)) = ToSet(seq) \ set
<1>1. Among(seq, ToSet(seq) \ set) \in Seq(S) /\ ToSet(Among(seq, ToSet(seq) \ set)) = ToSet(seq) \cap (ToSet(seq) \ set)
  BY AmongIs
<1>2. QED
  BY <1>1 DEF Without

LEMMA SetOfList ==
  ASSUME NEW S, NEW seq \in Seq(S)
  PROVE  ToSet(seq) \subseteq S /\ (ToSet(seq) = {} <=> seq = <<>>)
<1>1. DOMAIN seq = 1..Len(seq) /\ Len(seq) \in Nat /\ \A i \in 1..Len(seq) : seq[i] \in S
  BY LenProperties, ElementOfSeq
<1>2. seq # <<>> => Len(seq) \in Nat \ {0}
  BY EmptySeq
<1>3. seq # <<>> => 1 \in 1..Len(seq) /\ seq[1] \in ToSet(seq)
  <2>1. seq # <<>> => 1 \in 1..Len(seq)
    BY <1>2
  <2>2. QED
    BY <1>1, <2>1 DEF ToSet
<1>4. seq = <<>> => ToSet(seq) = {}
  BY DEF ToSet
<1>5. ToSet(seq) \subseteq S
  BY <1>1 DEF ToSet
<1>6. QED
  BY <1>3, <1>4, <1>5

\* GROUP BY keeps its columns, and a given order is kept.
LEMMA ClauseKept ==
  ASSUME query \in Queries
  PROVE  /\ preprocess_groupclause(<<>>) \in Lists
         /\ ToSet(preprocess_groupclause(<<>>)) = ToSet(query.groupClause)
         /\ \A force : force # <<>> => preprocess_groupclause(force) = force
<1> DEFINE cols == query.groupClause
           matched == Beginning(query.sortClause, ToSet(cols))
           others == Without(cols, ToSet(matched))
<1>1. cols \in Lists /\ query.sortClause \in Lists
  BY QueriesAssumption DEF Lists
<1>2. matched \in Lists /\ ToSet(matched) \subseteq ToSet(cols)
  BY <1>1, BeginningIs DEF Lists
<1>3. others \in Lists /\ ToSet(others) = ToSet(cols) \ ToSet(matched)
  BY <1>1, WithoutIs DEF Lists
<1>4. matched \o others \in Lists /\ ToSet(matched \o others) = ToSet(matched) \cup ToSet(others)
  BY <1>2, <1>3, ConcatSet DEF Lists
<1>5. preprocess_groupclause(<<>>) \in {cols, matched \o others}
  BY DEF preprocess_groupclause
<1>6. \A force : force # <<>> => preprocess_groupclause(force) = force
  BY DEF preprocess_groupclause
<1> HIDE DEF cols, matched, others
<1>7. QED
  BY <1>1, <1>2, <1>3, <1>4, <1>5, <1>6 DEF cols

------------------------------------------------------------------------------
(* Windows *)

LEMMA InsertedSet ==
  ASSUME NEW S, NEW w \in S, NEW windows \in Seq(S)
  PROVE  SortedIn(w, windows) \in Seq(S)
<1> DEFINE before == Beginning(windows, {x \in ToSet(windows) : ~common_prefix_cmp(w, x)})
           after == SubSeq(windows, Len(before) + 1, Len(windows))
<1>1. SortedIn(w, windows) = before \o <<w>> \o after
  BY DEF SortedIn
<1>2. before \in Seq(S)
  BY BeginningIs
<1> HIDE DEF before
<1>3. after \in Seq(S)
  <2>1. Len(before) \in Nat /\ Len(windows) \in Nat
    BY <1>2, LenProperties
  <2>2. \A i \in Len(before) + 1..Len(windows) : windows[i] \in S
    <3>1. \A i \in Len(before) + 1..Len(windows) : i \in 1..Len(windows)
      BY <2>1
    <3>2. QED
      BY <3>1, ElementOfSeq
  <2>3. QED
    BY <2>1, <2>2, SubSeqProperties
<1> HIDE DEF after
<1>4. <<w>> \in Seq(S) /\ before \o <<w>> \in Seq(S)
  BY <1>2, ConcatProperties
<1>5. QED
  BY <1>1, <1>3, <1>4, ConcatProperties

\* Nothing but windows that are used is computed.
LEMMA WindowsActive ==
  ASSUME query \in Queries
  PROVE  select_active_windows \in Seq(active_windows)
<1> DEFINE A == active_windows
           actives == Among(query.windows, active_windows)
           N == Len(actives)
           T == Seq(A)
           step == [n \in 1..N |-> [t \in T |-> SortedIn(actives[n], t)]]
           Sorting(f) == [n \in 0..N |-> IF n = 0 THEN <<>> ELSE SortedIn(actives[n], f[n - 1])]
           sorted == CHOOSE f : f = Sorting(f)
<1>1. actives \in Seq(A)
  <2> DEFINE W == [name : Columns, used : BOOLEAN, partition : Seq(Columns), order : Seq(Columns)]
  <2>1. query.windows \in Seq(W)
    BY QueriesAssumption
  <2> HIDE DEF W
  <2>2. actives \in Seq(W) /\ ToSet(actives) = ToSet(query.windows) \cap A
    BY <2>1, AmongIs
  <2> HIDE DEF actives, A
  <2>3. Len(actives) \in Nat /\ DOMAIN actives = 1..Len(actives) /\ actives \in [1..Len(actives) -> W]
    BY <2>2, LenProperties
  <2>4. \A i \in 1..Len(actives) : actives[i] \in A
    BY <2>2, <2>3 DEF ToSet
  <2>5. actives \in [1..Len(actives) -> A]
    BY <2>3, <2>4
  <2>6. QED
    BY <2>3, <2>5, FromFunction
<1>2. select_active_windows = sorted[N]
  BY DEF select_active_windows
<1> HIDE DEF actives, A
<1>3. N \in Nat /\ N \in 0..N /\ 0 \in 0..N /\ \A n \in 1..N : actives[n] \in A /\ n \in 0..N /\ n - 1 \in 0..N /\ n # 0
  BY <1>1, LenProperties, ElementOfSeq
<1>4. <<>> \in T /\ \A n \in 1..N, t \in T : SortedIn(actives[n], t) \in T
  BY <1>3, InsertedSet
<1>5. step \in [1..N -> [T -> T]] /\ \A n \in 1..N, t \in T : step[n][t] = SortedIn(actives[n], t)
  <2> HIDE DEF T, N
  <2>1. QED
    BY <1>4
<1> HIDE DEF step, T, N
<1>6. PICK g \in [0..N -> T] : g[0] = <<>> /\ \A n \in 1..N : g[n] = step[n][g[n - 1]]
  <2>1. Recurses(N, T, <<>>, step)
    BY <1>3, <1>4, <1>5, Recursion
  <2>2. QED
    BY <2>1 DEF Recurses
<1>7. \A n \in 1..N : g[n] = SortedIn(actives[n], g[n - 1])
  BY <1>3, <1>5, <1>6
<1>8. g = Sorting(g)
  <2>1. \A n \in 0..N : n = 0 \/ n \in 1..N
    BY <1>3
  <2>2. \A n \in 0..N : g[n] = IF n = 0 THEN <<>> ELSE SortedIn(actives[n], g[n - 1])
    BY <1>3, <1>6, <1>7, <2>1
  <2>3. QED
    BY <2>2
<1>9. sorted = Sorting(sorted)
  BY <1>8
<1> HIDE DEF sorted
<1>10. sorted[0] = <<>> /\ \A n \in 1..N : sorted[n] = SortedIn(actives[n], sorted[n - 1])
  <2>1. \A n \in 0..N : Sorting(sorted)[n] = IF n = 0 THEN <<>> ELSE SortedIn(actives[n], sorted[n - 1])
    OBVIOUS
  <2> HIDE DEF Sorting
  <2>2. QED
    BY <1>3, <1>9, <2>1
<1> DEFINE Good == {n \in 0..N : sorted[n] \in T}
<1>11. 0 \in Good /\ \A n \in 1..N : n - 1 \in Good => n \in Good
  BY <1>3, <1>4, <1>10
<1>12. N \in Good
  <2> HIDE DEF Good
  <2>1. \A n \in 0..N : n \in Good
    BY <1>3, <1>11, Induction
  <2>2. QED
    BY <1>3, <2>1
<1>13. QED
  BY <1>2, <1>12 DEF T, A, N

------------------------------------------------------------------------------
(* Rollups, and how often a set of columns is grouped by *)

\* The lists with these columns weigh one, the others nothing; and so for sets.
Like(cols) == [s \in Lists |-> IF ToSet(s) = cols THEN 1 ELSE 0]
Same(cols) == [s \in SUBSET Columns |-> IF s = cols THEN 1 ELSE 0]

\* A rollup that groups by the sets it stands for.
Faithful(r) ==
  /\ r.gsets_data \in Seq(Lists)
  /\ SetsGrouped(r) \in Seq(SUBSET Columns) /\ Len(SetsGrouped(r)) = Len(r.gsets_data)
  /\ \A k \in 1..Len(r.gsets_data) : SetsGrouped(r)[k] = ToSet(r.gsets_data[k])

Begins(s, t) == Len(s) <= Len(t) /\ \A i \in 1..Len(s) : s[i] = t[i]

LEMMA LikeTyped ==
  /\ \A cols : Like(cols) \in [Lists -> Nat] /\ \A s \in Lists : Like(cols)[s] = IF ToSet(s) = cols THEN 1 ELSE 0
  /\ \A cols : Same(cols) \in [SUBSET Columns -> Nat]
               /\ \A s \in SUBSET Columns : Same(cols)[s] = IF s = cols THEN 1 ELSE 0
<1>1. ASSUME NEW cols
      PROVE  Like(cols) \in [Lists -> Nat] /\ \A s \in Lists : Like(cols)[s] = IF ToSet(s) = cols THEN 1 ELSE 0
  BY DEF Like
<1>2. ASSUME NEW cols
      PROVE  /\ Same(cols) \in [SUBSET Columns -> Nat]
             /\ \A s \in SUBSET Columns : Same(cols)[s] = IF s = cols THEN 1 ELSE 0
  BY DEF Same
<1>3. QED
  BY <1>1, <1>2

LEMMA TimesIs ==
  ASSUME NEW s \in Seq(SUBSET Columns), NEW cols \in SUBSET Columns
  PROVE  Times(cols, s) = Total(Same(cols), s)
<1> DEFINE N == Len(s)
           At(n) == {i \in 1..n : s[i] = cols}
           w == Same(cols)
           sum == [n \in 0..N |-> Cardinality(At(n))]
<1>1. N \in Nat /\ DOMAIN s = 1..N /\ 0 \in 0..N /\ N \in 0..N
      /\ \A n \in 1..N : s[n] \in SUBSET Columns /\ n \in 0..N /\ n - 1 \in 0..N
  BY LenProperties, ElementOfSeq
<1>2. \A n \in 0..N : sum[n] = Cardinality(At(n))
  OBVIOUS
<1>3. \A n \in 0..N : IsFiniteSet(At(n))
  <2>1. ASSUME NEW n \in 0..N PROVE IsFiniteSet(At(n))
    <3>1. n \in Int
      BY <1>1
    <3>2. IsFiniteSet(1..n)
      BY <3>1, FS_Interval
    <3>3. At(n) \in SUBSET (1..n)
      OBVIOUS
    <3>4. QED
      BY <3>2, <3>3, FS_Subset
  <2>2. QED
    BY <2>1
<1>4. At(0) = {}
  OBVIOUS
<1>5. ASSUME NEW n \in 1..N
      PROVE  n \notin At(n - 1) /\ At(n) = IF s[n] = cols THEN At(n - 1) \cup {n} ELSE At(n - 1)
  <2>1. n \notin 1..n - 1 /\ \A i : i \in 1..n <=> i \in 1..n - 1 \/ i = n
    BY <1>1
  <2>2. QED
    BY <2>1
<1>6. w \in [SUBSET Columns -> Nat] /\ \A n \in 1..N : w[s[n]] = IF s[n] = cols THEN 1 ELSE 0
  BY <1>1, LikeTyped
<1>7. Times(cols, s) = Cardinality(At(N))
  <2>1. At(N) = {i \in DOMAIN s : s[i] = cols}
    BY <1>1
  <2>2. QED
    BY <2>1 DEF Times
<1> HIDE DEF sum, At, w, N
<1>8. sum[0] = 0
  BY <1>1, <1>2, <1>4, FS_EmptySet
<1>9. ASSUME NEW n \in 1..N PROVE sum[n] = sum[n - 1] + w[s[n]]
  <2>1. n \in 0..N /\ n - 1 \in 0..N
    BY <1>1
  <2>2. sum[n] = Cardinality(At(n)) /\ sum[n - 1] = Cardinality(At(n - 1)) /\ IsFiniteSet(At(n - 1))
    BY <1>2, <1>3, <2>1
  <2>3. Cardinality(At(n - 1)) \in Nat
    BY <2>2, FS_CardinalityType
  <2>4. Cardinality(At(n - 1) \cup {n}) = Cardinality(At(n - 1)) + 1
    BY <1>5, <2>2, FS_AddElement
  <2>5. CASE s[n] = cols
    <3>1. At(n) = At(n - 1) \cup {n} /\ w[s[n]] = 1
      BY <1>5, <1>6, <2>5
    <3>2. QED
      BY <2>2, <2>4, <3>1
  <2>6. CASE s[n] # cols
    <3>1. At(n) = At(n - 1) /\ w[s[n]] = 0
      BY <1>5, <1>6, <2>6
    <3>2. QED
      BY <2>2, <2>3, <3>1
  <2>7. QED
    BY <2>5, <2>6
<1>10. AddsUp(w, s, sum)
  BY <1>8, <1>9 DEF AddsUp, N
<1>11. Total(w, s) = sum[N]
  BY <1>6, <1>10, TotalIs DEF N
<1>12. QED
  BY <1>1, <1>2, <1>7, <1>11 DEF w

LEMMA RollupFaithful ==
  ASSUME NEW clause \in Lists, NEW sets \in Seq(Lists),
         \A k \in 1..Len(sets) : Begins(sets[k], clause)
  PROVE  /\ Faithful(Rollup(clause, sets, FALSE))
         /\ Rollup(clause, sets, FALSE).gsets_data = sets
         /\ Rollup(clause, sets, FALSE).is_hashed = FALSE
<1> DEFINE r == Rollup(clause, sets, FALSE)
           N == Len(sets)
           g == [k \in 1..N |-> ToSet(SubSeq(clause, 1, Len(sets[k])))]
<1>1. N \in Nat /\ DOMAIN sets = 1..N /\ \A k \in 1..N : sets[k] \in Lists
  BY LenProperties, ElementOfSeq
<1>2. /\ r.gsets_data = sets /\ r.is_hashed = FALSE /\ r.groupClause = clause
      /\ r.gsets = remap_to_groupclause_idx(clause, sets)
  BY DEF Rollup
<1> HIDE DEF r
<1>3. DOMAIN r.gsets = 1..N /\ \A k \in 1..N : Len(r.gsets[k]) = Len(sets[k])
  <2>1. r.gsets = [i \in DOMAIN sets |-> [k \in DOMAIN sets[i] |-> CHOOSE n \in DOMAIN clause : clause[n] = sets[i][k]]]
    BY <1>2 DEF remap_to_groupclause_idx
  <2>2. ASSUME NEW k \in 1..N PROVE Len(r.gsets[k]) = Len(sets[k])
    <3> DEFINE f == [j \in DOMAIN sets[k] |-> CHOOSE n \in DOMAIN clause : clause[n] = sets[k][j]]
               M == Len(sets[k])
    <3>1. DOMAIN sets[k] = 1..M /\ M \in Nat
      BY <1>1, LenProperties DEF Lists
    <3>2. r.gsets[k] = f
      BY <1>1, <2>1
    <3>3. f \in [1..M -> {f[j] : j \in 1..M}]
      BY <3>1
    <3> HIDE DEF f, M
    <3>4. Len(f) = M
      BY <3>1, <3>3, FromFunction
    <3>5. QED
      BY <3>2, <3>4 DEF M
  <2>3. DOMAIN r.gsets = 1..N
    BY <1>1, <2>1
  <2>4. QED
    BY <2>2, <2>3
<1>4. SetsGrouped(r) = g
  <2>1. SetsGrouped(r) = [k \in DOMAIN r.gsets |-> ToSet(SubSeq(r.groupClause, 1, Len(r.gsets[k])))]
    BY <1>2 DEF SetsGrouped
  <2>2. QED
    BY <1>2, <1>3, <2>1
<1>5. ASSUME NEW k \in 1..N PROVE SubSeq(clause, 1, Len(sets[k])) = sets[k]
  <2> DEFINE M == Len(sets[k])
             t == SubSeq(clause, 1, M)
  <2>1. M \in Nat /\ Len(clause) \in Nat /\ M <= Len(clause) /\ (\A i \in 1..M : sets[k][i] = clause[i]) /\ sets[k] \in Seq(Columns)
    BY <1>1, LenProperties DEF Lists, Begins
  <2> HIDE DEF M
  <2>2. \A i \in 1..M : clause[i] \in Columns
    <3>1. \A i \in 1..M : i \in 1..Len(clause)
      BY <2>1
    <3>2. QED
      BY <3>1, ElementOfSeq DEF Lists
  <2>3. /\ t \in Seq(Columns) /\ Len(t) = IF 1 <= M THEN M - 1 + 1 ELSE 0
        /\ \A i \in 1..M - 1 + 1 : t[i] = clause[1 + i - 1]
    BY <2>1, <2>2, SubSeqProperties
  <2> HIDE DEF t
  <2>4. Len(t) = M
    BY <2>1, <2>3
  <2>5. \A i \in 1..M : i \in 1..M - 1 + 1 /\ 1 + i - 1 = i
    BY <2>1
  <2>6. \A i \in 1..Len(t) : t[i] = sets[k][i]
    BY <2>1, <2>3, <2>4, <2>5
  <2>7. t = sets[k]
    BY <2>1, <2>3, <2>4, <2>6, SeqEqual DEF M
  <2>8. QED
    BY <2>7 DEF t, M
<1>6. \A k \in 1..N : g[k] = ToSet(sets[k]) /\ g[k] \in SUBSET Columns
  BY <1>1, <1>5, SetOfList DEF Lists
<1>7. g \in [1..N -> SUBSET Columns]
  BY <1>6
<1> HIDE DEF g, N
<1>8. g \in Seq(SUBSET Columns) /\ Len(g) = N
  BY <1>1, <1>7, FromFunction
<1>9. Faithful(r)
  BY <1>2, <1>4, <1>6, <1>8 DEF Faithful, N
<1>10. QED
  BY <1>2, <1>9 DEF r

LEMMA HashedFaithful ==
  ASSUME NEW clause, NEW set \in Lists
  PROVE  /\ Faithful(Rollup(clause, <<set>>, TRUE))
         /\ Rollup(clause, <<set>>, TRUE).gsets_data = <<set>>
<1> DEFINE r == Rollup(clause, <<set>>, TRUE)
<1>1. r.gsets_data = <<set>> /\ r.is_hashed = TRUE
  BY DEF Rollup
<1> HIDE DEF r
<1>2. SetsGrouped(r) = <<ToSet(set)>>
  <2>1. <<set>>[1] = set
    OBVIOUS
  <2>2. QED
    BY <1>1, <2>1 DEF SetsGrouped
<1>3. ToSet(set) \in SUBSET Columns
  BY SetOfList DEF Lists
<1>4. <<set>> \in Seq(Lists) /\ Len(<<set>>) = 1 /\ <<ToSet(set)>> \in Seq(SUBSET Columns) /\ Len(<<ToSet(set)>>) = 1
  BY <1>3
<1>5. Faithful(r)
  BY <1>1, <1>2, <1>4 DEF Faithful
<1>6. QED
  BY <1>1, <1>5 DEF r

\* Faithful rollups group by each set of columns as often as it is among their sets.
LEMMA FaithfulTimes ==
  ASSUME NEW X, NEW R \in Seq(X), \A i \in 1..Len(R) : Faithful(R[i]), NEW cols \in SUBSET Columns
  PROVE  /\ SetsData(R) \in Seq(Lists)
         /\ Times(cols, FlattenSeq([i \in DOMAIN R |-> SetsGrouped(R[i])])) = Total(Like(cols), SetsData(R))
<1> DEFINE N == Len(R)
           a == [i \in 1..N |-> SetsGrouped(R[i])]
           b == [i \in 1..N |-> R[i].gsets_data]
           S == Seq(SUBSET Columns)
           T == Seq(Lists)
           v == [s \in S |-> Total(Same(cols), s)]
           w == [t \in T |-> Total(Like(cols), t)]
<1>1. N \in Nat /\ DOMAIN R = 1..N
  BY LenProperties
<1>2. \A i \in 1..N : /\ a[i] = SetsGrouped(R[i]) /\ b[i] = R[i].gsets_data
                      /\ a[i] \in S /\ b[i] \in T /\ Len(a[i]) = Len(b[i])
                      /\ \A k \in 1..Len(b[i]) : a[i][k] = ToSet(b[i][k])
  BY DEF Faithful
<1>3. FlattenSeq([i \in DOMAIN R |-> SetsGrouped(R[i])]) = FlattenSeq(a) /\ SetsData(R) = FlattenSeq(b)
  BY <1>1 DEF SetsData
<1>4. a \in [1..N -> S] /\ b \in [1..N -> T]
  BY <1>2
<1> HIDE DEF a, b, N
<1>5. a \in Seq(S) /\ Len(a) = N /\ b \in Seq(T) /\ Len(b) = N
  BY <1>1, <1>4, FromFunction
<1>6. /\ Same(cols) \in [SUBSET Columns -> Nat] /\ Like(cols) \in [Lists -> Nat]
      /\ \A s \in Lists : Like(cols)[s] = IF ToSet(s) = cols THEN 1 ELSE 0
      /\ \A s \in SUBSET Columns : Same(cols)[s] = IF s = cols THEN 1 ELSE 0
  BY LikeTyped
<1>7. v \in [S -> Nat] /\ w \in [T -> Nat]
  <2>1. \A s \in S : Total(Same(cols), s) \in Nat
    BY <1>6, TotalType
  <2>2. \A t \in T : Total(Like(cols), t) \in Nat
    BY <1>6, TotalType
  <2>3. QED
    BY <2>1, <2>2
<1>8. (\A s \in S : v[s] = Total(Same(cols), s)) /\ (\A t \in T : w[t] = Total(Like(cols), t))
  OBVIOUS
<1>9. ASSUME NEW i \in 1..N PROVE v[a[i]] = w[b[i]]
  <2>1. a[i] \in S /\ b[i] \in T /\ Len(a[i]) = Len(b[i]) /\ \A k \in 1..Len(b[i]) : a[i][k] = ToSet(b[i][k])
    BY <1>2
  <2>2. \A k \in 1..Len(a[i]) : Same(cols)[a[i][k]] = Like(cols)[b[i][k]]
    <3>1. SUFFICES ASSUME NEW k \in 1..Len(a[i]) PROVE Same(cols)[a[i][k]] = Like(cols)[b[i][k]]
      OBVIOUS
    <3>2. a[i][k] \in SUBSET Columns /\ b[i][k] \in Lists /\ a[i][k] = ToSet(b[i][k])
      BY <2>1, ElementOfSeq
    <3>3. QED
      BY <1>6, <3>2
  <2>3. Total(Same(cols), a[i]) = Total(Like(cols), b[i])
    <3>1. WeighAlike(Same(cols), a[i], Like(cols), b[i])
      BY <2>1, <2>2 DEF WeighAlike
    <3>2. QED
      BY <1>6, <2>1, <3>1, TotalAlike
  <2>4. QED
    BY <1>8, <2>1, <2>3
<1>10. Total(Same(cols), FlattenSeq(a)) = Total(v, a) /\ Total(Like(cols), FlattenSeq(b)) = Total(w, b)
  BY <1>5, <1>6, TotalFlatten
<1>11. FlattenSeq(a) \in S /\ FlattenSeq(b) \in T
  BY <1>5, FlattenIs
<1> HIDE DEF v, w, S, T
<1>12. Total(v, a) = Total(w, b)
  <2>1. WeighAlike(v, a, w, b)
    BY <1>5, <1>9 DEF WeighAlike
  <2>2. QED
    BY <1>5, <1>7, <2>1, TotalAlike
<1>13. Times(cols, FlattenSeq(a)) = Total(Same(cols), FlattenSeq(a))
  BY <1>11, TimesIs DEF S
<1>14. QED
  BY <1>3, <1>10, <1>11, <1>12, <1>13 DEF T

------------------------------------------------------------------------------
(* The columns of each set in an order *)

LEMMA PrependIs ==
  ASSUME NEW S, NEW e \in S, NEW s \in Seq(S)
  PROVE  /\ <<e>> \o s \in Seq(S) /\ Len(<<e>> \o s) = Len(s) + 1 /\ (<<e>> \o s)[1] = e
         /\ \A i \in 1..Len(s) : (<<e>> \o s)[i + 1] = s[i]
<1> DEFINE r == <<e>> \o s
           N == Len(s)
<1>1. <<e>> \in Seq(S) /\ Len(<<e>>) = 1 /\ <<e>>[1] = e
  OBVIOUS
<1>2. /\ r \in Seq(S) /\ Len(r) = Len(<<e>>) + Len(s)
      /\ \A i \in 1..Len(<<e>>) + Len(s) : r[i] = IF i <= Len(<<e>>) THEN <<e>>[i] ELSE s[i - Len(<<e>>)]
  BY <1>1, ConcatProperties
<1>3. N \in Nat
  BY LenProperties
<1> HIDE DEF r, N
<1>4. /\ Len(r) = 1 + N
      /\ \A i \in 1..1 + N : r[i] = IF i <= 1 THEN <<e>>[i] ELSE s[i - 1]
  BY <1>1, <1>2 DEF N
<1>5. /\ 1 \in 1..1 + N /\ 1 + N = N + 1
      /\ \A i \in 1..N : i + 1 \in 1..1 + N /\ ~(i + 1 <= 1) /\ (i + 1) - 1 = i
  BY <1>3
<1>6. r[1] = e
  BY <1>1, <1>4, <1>5
<1>7. \A i \in 1..N : r[i + 1] = s[i]
  BY <1>4, <1>5
<1>8. QED
  BY <1>2, <1>4, <1>5, <1>6, <1>7 DEF r, N

LEMMA BeginsConcat ==
  ASSUME NEW S, NEW s \in Seq(S), NEW t \in Seq(S)
  PROVE  Begins(s, s) /\ Begins(s, s \o t)
<1>1. Len(s) \in Nat /\ Len(t) \in Nat
  BY LenProperties
<1>2. /\ Len(s \o t) = Len(s) + Len(t)
      /\ \A i \in 1..Len(s) + Len(t) : (s \o t)[i] = IF i <= Len(s) THEN s[i] ELSE t[i - Len(s)]
  BY ConcatProperties
<1>3. \A i \in 1..Len(s) : i \in 1..Len(s) + Len(t) /\ i <= Len(s)
  BY <1>1
<1>4. \A i \in 1..Len(s) : s[i] = (s \o t)[i]
  BY <1>2, <1>3
<1>5. Len(s) <= Len(s \o t) /\ Len(s) <= Len(s)
  BY <1>1, <1>2
<1>6. QED
  BY <1>4, <1>5 DEF Begins

LEMMA BeginsBegins ==
  ASSUME NEW S, NEW s \in Seq(S), NEW t \in Seq(S), NEW u \in Seq(S), Begins(s, t), Begins(t, u)
  PROVE  Begins(s, u)
<1>1. Len(s) \in Nat /\ Len(t) \in Nat /\ Len(u) \in Nat
  BY LenProperties
<1>2. Len(s) <= Len(t) /\ Len(t) <= Len(u)
  BY DEF Begins
<1>3. Len(s) <= Len(u) /\ \A i \in 1..Len(s) : i \in 1..Len(t)
  BY <1>1, <1>2
<1>4. \A i \in 1..Len(s) : s[i] = u[i]
  BY <1>3 DEF Begins
<1>5. QED
  BY <1>3, <1>4 DEF Begins

\* Where reorder_grouping_sets stands between two sets, and the set it makes of the next one.
Standing == [previous : Lists, sort : Lists, result : Seq(Lists)]
NewColumns(acc, candidate) == Without(candidate, ToSet(acc.previous))
AheadInSort(acc) == SubSeq(acc.sort, Len(acc.previous) + 1, Len(acc.sort))
ThenReordered(acc, candidate) ==
  LET new == NewColumns(acc, candidate)
      matched == Beginning(AheadInSort(acc), ToSet(new))
  IN Reordered(acc, matched, Without(new, ToSet(matched)), AheadInSort(acc))

LEMMA ReorderStep ==
  ASSUME NEW acc \in Standing, NEW candidate \in Lists
  PROVE  /\ ThenReordered(acc, candidate) \in Standing
         /\ ThenReordered(acc, candidate).result = <<ThenReordered(acc, candidate).previous>> \o acc.result
         /\ ToSet(ThenReordered(acc, candidate).previous) = ToSet(acc.previous) \cup ToSet(candidate)
         /\ Begins(acc.previous, ThenReordered(acc, candidate).previous)
<1> DEFINE new == NewColumns(acc, candidate)
           ahead == AheadInSort(acc)
           matched == Beginning(ahead, ToSet(new))
           rest == Without(new, ToSet(matched))
           start == acc.previous \o matched
           set == start \o rest
           next == ThenReordered(acc, candidate)
<1>1. acc.previous \in Lists /\ acc.sort \in Lists /\ acc.result \in Seq(Lists)
  BY DEF Standing
<1>2. new \in Lists /\ ToSet(new) = ToSet(candidate) \ ToSet(acc.previous)
  BY WithoutIs DEF Lists, NewColumns
<1>3. ahead \in Lists
  <2>1. Len(acc.previous) \in Nat /\ Len(acc.sort) \in Nat
    BY <1>1, LenProperties DEF Lists
  <2>2. \A i \in Len(acc.previous) + 1..Len(acc.sort) : acc.sort[i] \in Columns
    <3>1. \A i \in Len(acc.previous) + 1..Len(acc.sort) : i \in 1..Len(acc.sort)
      BY <2>1
    <3>2. QED
      BY <1>1, <3>1, ElementOfSeq DEF Lists
  <2>3. QED
    BY <2>1, <2>2, SubSeqProperties DEF AheadInSort, Lists
<1>4. next = Reordered(acc, matched, rest, ahead)
  BY DEF ThenReordered
<1> HIDE DEF new, ahead, next
<1>5. matched \in Lists /\ ToSet(matched) \subseteq ToSet(new)
  BY <1>3, BeginningIs DEF Lists
<1> HIDE DEF matched
<1>6. rest \in Lists /\ ToSet(rest) = ToSet(new) \ ToSet(matched)
  BY <1>2, WithoutIs DEF Lists
<1> HIDE DEF rest
<1>7. /\ start \in Lists /\ ToSet(start) = ToSet(acc.previous) \cup ToSet(matched)
      /\ Begins(acc.previous, start)
  BY <1>1, <1>5, ConcatSet, BeginsConcat DEF Lists
<1>8. set = acc.previous \o matched \o rest
  OBVIOUS
<1> HIDE DEF start
<1>9. set \in Lists /\ ToSet(set) = ToSet(start) \cup ToSet(rest) /\ Begins(acc.previous, set)
  <2>1. set \in Lists /\ ToSet(set) = ToSet(start) \cup ToSet(rest)
    BY <1>6, <1>7, ConcatSet DEF Lists
  <2>2. Begins(start, set)
    BY <1>6, <1>7, BeginsConcat DEF Lists
  <2>3. QED
    BY <1>1, <1>7, <2>1, <2>2, BeginsBegins DEF Lists
<1>10. next = [previous |-> set, result |-> <<set>> \o acc.result,
               sort |-> IF rest # <<>> /\ Len(matched) < Len(ahead) THEN <<>> ELSE acc.sort]
  BY <1>4, <1>8 DEF Reordered
<1> HIDE DEF set
<1>11. <<set>> \o acc.result \in Seq(Lists)
  BY <1>1, <1>9, PrependIs
<1>12. next \in Standing
  <2>1. <<>> \in Lists
    BY DEF Lists
  <2>2. (IF rest # <<>> /\ Len(matched) < Len(ahead) THEN <<>> ELSE acc.sort) \in Lists
    BY <1>1, <2>1
  <2>3. QED
    BY <1>9, <1>10, <1>11, <2>2 DEF Standing
<1>13. next.previous = set /\ next.result = <<set>> \o acc.result
  BY <1>10
<1>14. ToSet(set) = ToSet(acc.previous) \cup ToSet(candidate)
  BY <1>2, <1>5, <1>6, <1>7, <1>9
<1>15. QED
  BY <1>9, <1>12, <1>13, <1>14 DEF next

\* Each set holds the one before it.
Nested(sets) == \A j, k \in 1..Len(sets) : j <= k => ToSet(sets[j]) \subseteq ToSet(sets[k])

\* The same sets, the last one first, each the beginning of those before it.
ReorderedFrom(r, sets) ==
  /\ r \in Seq(Lists) /\ Len(r) = Len(sets)
  /\ \A k \in 1..Len(sets) : /\ ToSet(r[k]) = ToSet(sets[(Len(sets) - k) + 1])
                             /\ Begins(r[k], r[1])

\* The loop has done n sets.
ReorderedUpto(sets, acc, n) ==
  /\ acc \in Standing /\ Len(acc.result) = n
  /\ ToSet(acc.previous) = IF n = 0 THEN {} ELSE ToSet(sets[n])
  /\ n # 0 => acc.result[1] = acc.previous
  /\ \A k \in 1..n : ToSet(acc.result[k]) = ToSet(sets[(n - k) + 1]) /\ Begins(acc.result[k], acc.previous)

LEMMA ReorderUptoStep ==
  ASSUME NEW sets \in Seq(Lists), Nested(sets), NEW n \in 1..Len(sets), NEW acc, ReorderedUpto(sets, acc, n - 1)
  PROVE  ReorderedUpto(sets, ThenReordered(acc, sets[n]), n)
<1> DEFINE next == ThenReordered(acc, sets[n])
           set == next.previous
           result == acc.result
<1>1. n \in Nat /\ n # 0 /\ Len(sets) \in Nat /\ sets[n] \in Lists /\ n - 1 \in Nat
  BY LenProperties, ElementOfSeq
<1>2. /\ acc \in Standing /\ Len(result) = n - 1 /\ result \in Seq(Lists) /\ acc.previous \in Lists
      /\ \A k \in 1..n - 1 : ToSet(result[k]) = ToSet(sets[((n - 1) - k) + 1]) /\ Begins(result[k], acc.previous)
  BY DEF ReorderedUpto, Standing
<1>3. ToSet(acc.previous) \subseteq ToSet(sets[n])
  <2>1. CASE n - 1 = 0
    <3>1. ToSet(acc.previous) = {}
      BY <2>1 DEF ReorderedUpto
    <3>2. QED
      BY <3>1
  <2>2. CASE n - 1 # 0
    <3>1. n - 1 \in 1..Len(sets) /\ n - 1 <= n
      BY <1>1, <2>2
    <3>2. ToSet(acc.previous) = ToSet(sets[n - 1])
      BY <2>2 DEF ReorderedUpto
    <3>3. QED
      BY <3>1, <3>2 DEF Nested
  <2>3. QED
    BY <2>1, <2>2
<1>4. /\ next \in Standing /\ next.result = <<set>> \o result
      /\ ToSet(set) = ToSet(acc.previous) \cup ToSet(sets[n]) /\ Begins(acc.previous, set)
  BY <1>1, <1>2, ReorderStep
<1>5. set \in Lists /\ Begins(set, set)
  <2>1. set \in Lists
    BY <1>4 DEF Standing
  <2>2. QED
    BY <2>1, BeginsConcat DEF Lists
<1>6. ToSet(set) = ToSet(sets[n])
  BY <1>3, <1>4
<1> HIDE DEF next, set, result
<1>7. /\ next.result \in Seq(Lists) /\ Len(next.result) = n /\ next.result[1] = set
      /\ \A i \in 1..n - 1 : next.result[i + 1] = result[i]
  <2>1. /\ <<set>> \o result \in Seq(Lists) /\ Len(<<set>> \o result) = Len(result) + 1 /\ (<<set>> \o result)[1] = set
        /\ \A i \in 1..Len(result) : (<<set>> \o result)[i + 1] = result[i]
    BY <1>2, <1>5, PrependIs
  <2>2. (n - 1) + 1 = n
    BY <1>1
  <2>3. QED
    BY <1>2, <1>4, <2>1, <2>2
<1>8. ASSUME NEW k \in 1..n
      PROVE  ToSet(next.result[k]) = ToSet(sets[(n - k) + 1]) /\ Begins(next.result[k], set)
  <2>1. CASE k = 1
    <3>1. (n - k) + 1 = n
      BY <1>1, <2>1
    <3>2. QED
      BY <1>5, <1>6, <1>7, <2>1, <3>1
  <2>2. CASE k # 1
    <3>1. k - 1 \in 1..n - 1 /\ (k - 1) + 1 = k /\ ((n - 1) - (k - 1)) + 1 = (n - k) + 1
      BY <1>1, <2>2
    <3>2. next.result[k] = result[k - 1] /\ result[k - 1] \in Lists
      BY <1>2, <1>7, <3>1, ElementOfSeq
    <3>3. ToSet(result[k - 1]) = ToSet(sets[(n - k) + 1]) /\ Begins(result[k - 1], acc.previous)
      BY <1>2, <3>1
    <3>4. Begins(result[k - 1], set)
      BY <1>2, <1>4, <1>5, <3>2, <3>3, BeginsBegins DEF Lists
    <3>5. QED
      BY <3>2, <3>3, <3>4
  <2>3. QED
    BY <2>1, <2>2
<1>9. ReorderedUpto(sets, next, n)
  BY <1>1, <1>4, <1>6, <1>7, <1>8 DEF ReorderedUpto, set
<1>10. QED
  BY <1>9 DEF next

LEMMA Reordering ==
  ASSUME NEW sets \in Seq(Lists), sets # <<>>, Nested(sets), NEW sortclause \in Lists
  PROVE  ReorderedFrom(reorder_grouping_sets(sets, sortclause), sets)
<1> DEFINE N == Len(sets)
           S == Standing
           start == [previous |-> <<>>, sort |-> sortclause, result |-> <<>>]
           step == [n \in 1..N |-> [acc \in S |-> ThenReordered(acc, sets[n])]]
           Going(f) == [n \in 0..N |-> IF n = 0 THEN start ELSE ThenReordered(f[n - 1], sets[n])]
           reordered == CHOOSE f : f = Going(f)
<1>1. N \in Nat /\ N # 0 /\ N \in 0..N /\ 0 \in 0..N
      /\ \A n \in 1..N : sets[n] \in Lists /\ n \in 0..N /\ n - 1 \in 0..N /\ n # 0
  <2>1. N \in Nat /\ N # 0 /\ \A n \in 1..N : sets[n] \in Lists
    BY LenProperties, EmptySeq, ElementOfSeq
  <2>2. QED
    BY <2>1
<1>2. reorder_grouping_sets(sets, sortclause) = reordered[N].result
  BY DEF reorder_grouping_sets, ThenReordered, NewColumns, AheadInSort
<1> HIDE DEF N
<1>3. start \in S
  <2>1. <<>> \in Lists /\ <<>> \in Seq(Lists)
    BY DEF Lists
  <2>2. QED
    BY <2>1 DEF Standing
<1>4. \A acc \in S, n \in 1..N : ThenReordered(acc, sets[n]) \in S
  BY <1>1, ReorderStep
<1>5. step \in [1..N -> [S -> S]] /\ \A n \in 1..N, acc \in S : step[n][acc] = ThenReordered(acc, sets[n])
  <2> HIDE DEF S
  <2>1. QED
    BY <1>4
<1> HIDE DEF start, step, S
<1>6. PICK g \in [0..N -> S] : g[0] = start /\ \A n \in 1..N : g[n] = step[n][g[n - 1]]
  <2>1. Recurses(N, S, start, step)
    BY <1>1, <1>3, <1>5, Recursion
  <2>2. QED
    BY <2>1 DEF Recurses
<1>7. \A n \in 1..N : g[n] = ThenReordered(g[n - 1], sets[n])
  BY <1>1, <1>5, <1>6
<1>8. g = Going(g)
  <2>1. \A n \in 0..N : n = 0 \/ n \in 1..N
    BY <1>1
  <2>2. \A n \in 0..N : g[n] = IF n = 0 THEN start ELSE ThenReordered(g[n - 1], sets[n])
    BY <1>1, <1>6, <1>7, <2>1
  <2>3. QED
    BY <2>2
<1>9. reordered = Going(reordered)
  BY <1>8
<1> HIDE DEF reordered
<1>10. reordered[0] = start /\ \A n \in 1..N : reordered[n] = ThenReordered(reordered[n - 1], sets[n])
  <2>1. \A n \in 0..N : Going(reordered)[n] = IF n = 0 THEN start ELSE ThenReordered(reordered[n - 1], sets[n])
    OBVIOUS
  <2> HIDE DEF Going
  <2>2. QED
    BY <1>1, <1>9, <2>1
<1> DEFINE Good == {n \in 0..N : ReorderedUpto(sets, reordered[n], n)}
<1>11. ReorderedUpto(sets, start, 0)
  <2>1. /\ start.previous = <<>> /\ start.result = <<>> /\ ToSet(<<>>) = {} /\ Len(<<>>) = 0
        /\ \A k : ~(k \in 1..0)
    BY DEF start, ToSet
  <2>2. QED
    BY <1>3, <2>1 DEF ReorderedUpto, S
<1>12. 0 \in Good
  BY <1>1, <1>10, <1>11
<1>13. ASSUME NEW n \in 1..N, n - 1 \in Good PROVE n \in Good
  <2>1. ReorderedUpto(sets, reordered[n - 1], n - 1)
    BY <1>13
  <2>2. ReorderedUpto(sets, ThenReordered(reordered[n - 1], sets[n]), n)
    BY <2>1, ReorderUptoStep DEF N
  <2>3. QED
    BY <1>1, <1>10, <2>2
<1>14. ReorderedUpto(sets, reordered[N], N)
  <2> HIDE DEF Good
  <2>1. \A n \in 0..N : n \in Good
    BY <1>1, <1>12, <1>13, Induction
  <2>2. N \in Good
    BY <1>1, <2>1
  <2>3. QED
    BY <2>2 DEF Good
<1>15. QED
  BY <1>1, <1>2, <1>14 DEF ReorderedUpto, ReorderedFrom, Standing, N

------------------------------------------------------------------------------
(* Chains of nested sets *)

LEMMA Matched ==
  ASSUME NEW edges, IsFiniteSet(edges)
  PROVE  /\ BipartiteMatch(edges) \subseteq edges
         /\ \A e, f \in BipartiteMatch(edges) : (e[1] = f[1]) = (e[2] = f[2])
<1> DEFINE matchings == {m \in SUBSET edges : \A e, f \in m : (e[1] = f[1]) = (e[2] = f[2])}
           C == Cardinality(edges)
           I == {C - Cardinality(m) : m \in matchings}
<1>1. BipartiteMatch(edges) = CHOOSE m \in matchings : \A n \in matchings : Cardinality(n) <= Cardinality(m)
  BY DEF BipartiteMatch
<1>2. {} \in matchings /\ \A m \in matchings : m \subseteq edges /\ \A e, f \in m : (e[1] = f[1]) = (e[2] = f[2])
  OBVIOUS
<1> HIDE DEF matchings
<1>3. C \in Nat
  BY FS_CardinalityType
<1>4. \A m \in matchings : Cardinality(m) \in Nat /\ Cardinality(m) <= C
  BY <1>2, FS_Subset, FS_CardinalityType
<1> HIDE DEF C
<1>5. I \in SUBSET Nat /\ I # {}
  BY <1>2, <1>3, <1>4
<1>6. PICK c \in I : \A i \in I : c <= i
  <2> HIDE DEF I
  <2>1. QED
    BY <1>5, LeastPlace
<1>7. PICK m \in matchings : c = C - Cardinality(m)
  BY <1>6
<1>8. ASSUME NEW n \in matchings PROVE Cardinality(n) <= Cardinality(m)
  <2>1. C - Cardinality(m) <= C - Cardinality(n)
    BY <1>6, <1>7
  <2>2. QED
    BY <1>3, <1>4, <2>1
<1>9. BipartiteMatch(edges) \in matchings
  BY <1>1, <1>8
<1>10. QED
  BY <1>2, <1>9

\* Each mask has at most one that is next below it, and is so for at most one.
Descends(masks, next, size, N) ==
  /\ next \in [masks -> masks] /\ size \in [masks -> 0..N]
  /\ \A m \in masks : next[m] \subseteq m /\ (next[m] # m => size[next[m]] < size[m])
  /\ \A m, n \in masks : next[m] = next[n] /\ next[m] # m /\ next[n] # n => m = n

Bottoms(masks, next, f) == \A m \in masks : f[m] = IF next[m] = m THEN m ELSE f[next[m]]
HasBottoms(masks, next) == \E f \in [masks -> masks] : Bottoms(masks, next, f)

LEMMA DescentEnds ==
  ASSUME NEW masks, NEW next, NEW N \in Nat, NEW size, Descends(masks, next, size, N)
  PROVE  HasBottoms(masks, next)
<1> DEFINE S == [masks -> masks]
           start == [m \in masks |-> m]
           Below(t) == [m \in masks |-> t[next[m]]]
           step == [n \in 1..N + 1 |-> [t \in S |-> Below(t)]]
<1>1. next \in [masks -> masks] /\ size \in [masks -> 0..N]
      /\ \A m \in masks : next[m] \in masks /\ (next[m] # m => size[next[m]] < size[m]) /\ size[m] \in 0..N
  BY DEF Descends
<1>2. start \in S /\ \A t \in S : Below(t) \in S /\ \A m \in masks : Below(t)[m] = t[next[m]]
  BY <1>1
<1>3. \A m \in masks : start[m] = m
  OBVIOUS
<1>4. step \in [1..N + 1 -> [S -> S]] /\ \A n \in 1..N + 1, t \in S : step[n][t] = Below(t)
  <2> HIDE DEF S, Below
  <2>1. QED
    BY <1>2
<1>5. N + 1 \in Nat /\ N \in 0..N /\ N \in 0..N + 1 /\ 0 \in 0..N + 1 /\ N + 1 \in 1..N + 1 /\ (N + 1) - 1 = N
      /\ \A n \in 1..N + 1 : n \in 0..N + 1 /\ n - 1 \in 0..N + 1
  OBVIOUS
<1> HIDE DEF S, Below, start, step
<1>6. PICK it \in [0..N + 1 -> S] : it[0] = start /\ \A n \in 1..N + 1 : it[n] = step[n][it[n - 1]]
  <2>1. Recurses(N + 1, S, start, step)
    BY <1>2, <1>4, <1>5, Recursion
  <2>2. QED
    BY <2>1 DEF Recurses
<1>7. \A n \in 1..N + 1, m \in masks : it[n][m] = it[n - 1][next[m]]
  BY <1>2, <1>4, <1>5, <1>6
<1> DEFINE Still == {n \in 0..N + 1 : \A m \in masks : next[m] = m => it[n][m] = m}
           Done == {n \in 0..N : \A m \in masks : size[m] <= n => it[n + 1][m] = it[n][m]}
<1>8. \A n \in 0..N + 1 : n \in Still
  <2>1. 0 \in Still
    BY <1>3, <1>5, <1>6
  <2>2. \A n \in 1..N + 1 : n - 1 \in Still => n \in Still
    BY <1>5, <1>7
  <2> HIDE DEF Still
  <2>3. QED
    BY <1>5, <2>1, <2>2, Induction
<1>9. \A n \in 0..N : n \in Done
  <2>1. 0 \in Done
    <3>1. SUFFICES ASSUME NEW m \in masks, size[m] <= 0 PROVE it[0 + 1][m] = it[0][m]
      OBVIOUS
    <3>2. next[m] = m
      <4>1. next[m] \in masks /\ size[m] \in 0..N /\ size[next[m]] \in 0..N
        BY <1>1
      <4>2. ~(size[next[m]] < size[m])
        BY <3>1, <4>1
      <4>3. QED
        BY <1>1, <4>2
    <3>3. 0 + 1 \in 1..N + 1 /\ (0 + 1) - 1 = 0
      OBVIOUS
    <3>4. QED
      BY <1>7, <3>2, <3>3
  <2>2. ASSUME NEW n \in 1..N, n - 1 \in Done PROVE n \in Done
    <3>1. n \in 0..N /\ n + 1 \in 1..N + 1 /\ (n + 1) - 1 = n /\ n \in 1..N + 1 /\ (n - 1) + 1 = n
      OBVIOUS
    <3>2. SUFFICES ASSUME NEW m \in masks, size[m] <= n PROVE it[n + 1][m] = it[n][m]
      BY <3>1
    <3>3. it[n + 1][m] = it[n][next[m]] /\ it[n][m] = it[n - 1][next[m]]
      BY <1>7, <3>1
    <3>4. CASE next[m] = m
      BY <3>3, <3>4
    <3>5. CASE next[m] # m
      <4>1. next[m] \in masks /\ size[m] \in 0..N /\ size[next[m]] \in 0..N /\ size[next[m]] < size[m]
        BY <1>1, <3>5
      <4>2. size[next[m]] <= n - 1
        BY <3>2, <4>1
      <4>3. it[(n - 1) + 1][next[m]] = it[n - 1][next[m]]
        BY <2>2, <4>1, <4>2
      <4>4. QED
        BY <3>1, <3>3, <4>3
    <3>6. QED
      BY <3>4, <3>5
  <2> HIDE DEF Done
  <2>3. QED
    BY <2>1, <2>2, Induction
<1>10. ASSUME NEW m \in masks PROVE it[N][m] = IF next[m] = m THEN m ELSE it[N][next[m]]
  <2>1. next[m] = m => it[N][m] = m
    BY <1>5, <1>8
  <2>2. it[N + 1][m] = it[N][m]
    <3>1. size[m] \in 0..N
      BY <1>1
    <3>2. size[m] <= N
      BY <3>1
    <3>3. QED
      BY <1>5, <1>9, <3>2
  <2>3. it[N + 1][m] = it[N][next[m]]
    BY <1>5, <1>7
  <2>4. QED
    BY <2>1, <2>2, <2>3
<1>11. it[N] \in [masks -> masks]
  BY <1>5, <1>6 DEF S
<1>12. QED
  BY <1>10, <1>11 DEF HasBottoms, Bottoms

\* A chain is known by its smallest set, and any two of its sets are nested.
ChainsOf(f, masks) ==
  /\ f \in [masks -> masks]
  /\ \A m \in masks : f[f[m]] = f[m]
  /\ \A m, n \in masks : f[m] = f[n] => m \subseteq n \/ n \subseteq m

LEMMA DescentChains ==
  ASSUME NEW masks, NEW next, NEW N \in Nat, NEW size, Descends(masks, next, size, N),
         NEW f \in [masks -> masks], Bottoms(masks, next, f)
  PROVE  ChainsOf(f, masks)
<1>1. \A m \in masks : /\ next[m] \in masks /\ next[m] \subseteq m /\ (next[m] # m => size[next[m]] < size[m])
                       /\ size[m] \in 0..N /\ f[m] \in masks
                       /\ (next[m] = m => f[m] = m) /\ (next[m] # m => f[m] = f[next[m]])
  BY DEF Descends, Bottoms
<1>2. \A m, n \in masks : next[m] = next[n] /\ next[m] # m /\ next[n] # n => m = n
  BY DEF Descends
<1> DEFINE Ends(m) == f[f[m]] = f[m] /\ f[m] \subseteq m
           Ended == {n \in 0..N : \A m \in masks : size[m] <= n => Ends(m)}
           Near(m, n) == f[m] = f[n] => m = n \/ m \subseteq next[n] \/ n \subseteq next[m]
           Nears == {k \in 0..N + N : \A m, n \in masks : size[m] + size[n] <= k => Near(m, n)}
<1>3. \A n \in 0..N : n \in Ended
  <2>1. \A m \in masks : next[m] = m => Ends(m)
    BY <1>1
  <2>2. 0 \in Ended
    <3>1. SUFFICES ASSUME NEW m \in masks, size[m] <= 0 PROVE next[m] = m
      BY <2>1
    <3>2. size[m] \in 0..N /\ size[next[m]] \in 0..N
      BY <1>1
    <3>3. QED
      BY <1>1, <3>1, <3>2
  <2>3. ASSUME NEW n \in 1..N, n - 1 \in Ended PROVE n \in Ended
    <3>1. n \in 0..N
      OBVIOUS
    <3>2. SUFFICES ASSUME NEW m \in masks, size[m] <= n, next[m] # m PROVE Ends(m)
      BY <2>1, <3>1
    <3>3. size[m] \in 0..N /\ size[next[m]] \in 0..N /\ size[next[m]] < size[m] /\ next[m] \in masks
      BY <1>1, <3>2
    <3>4. size[next[m]] <= n - 1
      BY <3>2, <3>3
    <3>5. Ends(next[m])
      BY <2>3, <3>3, <3>4
    <3>6. QED
      BY <1>1, <3>2, <3>5
  <2> HIDE DEF Ended
  <2>4. QED
    BY <2>2, <2>3, Induction
<1>4. \A m \in masks : Ends(m)
  <2>1. SUFFICES ASSUME NEW m \in masks PROVE Ends(m)
    OBVIOUS
  <2>2. size[m] \in 0..N /\ N \in 0..N
    BY <1>1
  <2>3. size[m] <= N
    BY <2>2
  <2>4. QED
    BY <1>3, <2>2, <2>3
<1>5. \A m, n \in masks : next[m] = m /\ next[n] = n => Near(m, n)
  BY <1>1
<1>6. \A m, n \in masks : next[m] = m /\ next[n] # n => Near(m, n)
  BY <1>1, <1>4
<1>7. \A m, n \in masks : next[m] # m /\ next[n] = n => Near(m, n)
  BY <1>1, <1>4
<1>8. \A m, n \in masks : size[m] + size[n] <= 0 => Near(m, n)
  <2>1. SUFFICES ASSUME NEW m \in masks, NEW n \in masks, size[m] + size[n] <= 0 PROVE Near(m, n)
    OBVIOUS
  <2>2. size[m] \in 0..N /\ size[n] \in 0..N /\ size[next[m]] \in 0..N /\ size[next[n]] \in 0..N
    BY <1>1
  <2>3. ~(size[next[m]] < size[m]) /\ ~(size[next[n]] < size[n])
    BY <2>1, <2>2
  <2>4. next[m] = m /\ next[n] = n
    BY <1>1, <2>3
  <2>5. QED
    BY <1>5, <2>4
<1>9. ASSUME NEW m \in masks, NEW n \in masks, next[m] # m, next[n] # n, Near(m, next[n]), Near(next[m], n)
      PROVE  Near(m, n)
  <2>1. SUFFICES ASSUME f[m] = f[n] PROVE m = n \/ m \subseteq next[n] \/ n \subseteq next[m]
    OBVIOUS
  <2>2. f[m] = f[next[n]] /\ f[next[m]] = f[n]
    BY <1>1, <1>9, <2>1
  <2>3. next[next[n]] \subseteq next[n] /\ next[next[m]] \subseteq next[m]
    BY <1>1
  <2>4. m \subseteq next[n] \/ next[n] \subseteq next[m]
    BY <1>9, <2>2, <2>3
  <2>5. n \subseteq next[m] \/ next[m] \subseteq next[n]
    BY <1>9, <2>2, <2>3
  <2>6. next[n] \subseteq next[m] /\ next[m] \subseteq next[n] => m = n
    BY <1>2, <1>9
  <2>7. QED
    BY <2>4, <2>5, <2>6
<1> HIDE DEF Near, Ends
<1>10. N + N \in Nat /\ N + N \in 0..N + N /\ 0 \in 0..N + N
  OBVIOUS
<1>11. \A k \in 0..N + N : k \in Nears
  <2>1. 0 \in Nears
    BY <1>8, <1>10
  <2>2. ASSUME NEW k \in 1..N + N, k - 1 \in Nears PROVE k \in Nears
    <3>1. k \in 0..N + N
      BY <1>10
    <3>2. SUFFICES ASSUME NEW m \in masks, NEW n \in masks, size[m] + size[n] <= k, next[m] # m, next[n] # n
                   PROVE  Near(m, n)
      BY <1>5, <1>6, <1>7, <3>1
    <3>3. /\ next[m] \in masks /\ next[n] \in masks
          /\ size[m] \in 0..N /\ size[next[m]] \in 0..N /\ size[next[m]] < size[m]
          /\ size[n] \in 0..N /\ size[next[n]] \in 0..N /\ size[next[n]] < size[n]
      BY <1>1, <3>2
    <3>4. size[m] + size[next[n]] <= k - 1 /\ size[next[m]] + size[n] <= k - 1
      BY <3>2, <3>3
    <3>5. Near(m, next[n]) /\ Near(next[m], n)
      BY <2>2, <3>3, <3>4
    <3>6. QED
      BY <1>9, <3>2, <3>5
  <2> HIDE DEF Nears
  <2>3. QED
    BY <1>10, <2>1, <2>2, Induction
<1>12. ASSUME NEW m \in masks, NEW n \in masks, f[m] = f[n] PROVE m \subseteq n \/ n \subseteq m
  <2>1. size[m] \in 0..N /\ size[n] \in 0..N
    BY <1>1
  <2>2. size[m] + size[n] <= N + N
    BY <2>1
  <2>3. Near(m, n)
    BY <1>10, <1>11, <2>2
  <2>4. QED
    BY <1>1, <1>12, <2>3 DEF Near
<1>13. QED
  BY <1>4, <1>12 DEF ChainsOf, Ends

Covers(masks) == {e \in masks \X masks : e[2] \subseteq e[1] /\ e[1] # e[2]}
BelowOf(pairs, m) == {e[2] : e \in {e \in pairs : e[1] = m}}

\* A matching of sets with smaller ones falls into chains.
LEMMA SmallestIs ==
  ASSUME NEW masks \in SUBSET SUBSET Columns
  PROVE  ChainsOf(SmallestOfChain(masks, BipartiteMatch(Covers(masks))), masks)
<1> DEFINE pairs == BipartiteMatch(Covers(masks))
           Pick(m) == CHOOSE k \in BelowOf(pairs, m) : TRUE
           next == [m \in masks |-> IF BelowOf(pairs, m) = {} THEN m ELSE Pick(m)]
           size == [m \in masks |-> Cardinality(m)]
           N == Cardinality(Columns)
           Falling(f) == [m \in masks |-> IF BelowOf(pairs, m) = {} THEN m ELSE f[Pick(m)]]
           smallest == CHOOSE f : f = Falling(f)
<1>1. IsFiniteSet(Columns) /\ N \in Nat
  <2>1. IsFiniteSet({}) /\ IsFiniteSet({} \cup {"a"})
    BY FS_EmptySet, FS_AddElement
  <2>2. IsFiniteSet(({} \cup {"a"}) \cup {"b"})
    BY <2>1, FS_AddElement
  <2>3. IsFiniteSet((({} \cup {"a"}) \cup {"b"}) \cup {"c"})
    BY <2>2, FS_AddElement
  <2>4. IsFiniteSet(((({} \cup {"a"}) \cup {"b"}) \cup {"c"}) \cup {"v"})
    BY <2>3, FS_AddElement
  <2>5. IsFiniteSet((((({} \cup {"a"}) \cup {"b"}) \cup {"c"}) \cup {"v"}) \cup {"w1"})
    BY <2>4, FS_AddElement
  <2>6. IsFiniteSet(((((({} \cup {"a"}) \cup {"b"}) \cup {"c"}) \cup {"v"}) \cup {"w1"}) \cup {"w2"})
    BY <2>5, FS_AddElement
  <2>7. Columns = ((((({} \cup {"a"}) \cup {"b"}) \cup {"c"}) \cup {"v"}) \cup {"w1"}) \cup {"w2"}
    BY DEF Columns
  <2>8. IsFiniteSet(Columns)
    BY <2>6, <2>7
  <2>9. QED
    BY <2>8, FS_CardinalityType
<1>2. \A m \in masks : IsFiniteSet(m) /\ Cardinality(m) \in 0..N
  <2>1. SUFFICES ASSUME NEW m \in masks PROVE IsFiniteSet(m) /\ Cardinality(m) \in 0..N
    OBVIOUS
  <2>2. IsFiniteSet(m) /\ Cardinality(m) <= Cardinality(Columns)
    BY <1>1, FS_Subset
  <2>3. Cardinality(m) \in Nat
    BY <2>2, FS_CardinalityType
  <2>4. QED
    BY <1>1, <2>2, <2>3
<1>3. IsFiniteSet(Covers(masks))
  <2>1. IsFiniteSet(SUBSET Columns)
    BY <1>1, FS_SUBSET
  <2>2. IsFiniteSet(masks)
    BY <2>1, FS_Subset
  <2>3. IsFiniteSet(masks \X masks)
    BY <2>2, FS_Product
  <2>4. Covers(masks) \in SUBSET (masks \X masks)
    BY DEF Covers
  <2>5. QED
    BY <2>3, <2>4, FS_Subset
<1>4. pairs \subseteq Covers(masks) /\ \A e, f \in pairs : (e[1] = f[1]) = (e[2] = f[2])
  BY <1>3, Matched
<1>5. SmallestOfChain(masks, pairs) = smallest
  BY DEF SmallestOfChain, BelowOf
<1> HIDE DEF pairs, N
<1>6. ASSUME NEW m \in masks, BelowOf(pairs, m) # {}
      PROVE  Pick(m) \in masks /\ Pick(m) \subseteq m /\ Pick(m) # m /\ <<m, Pick(m)>> \in pairs
  <2>1. Pick(m) \in BelowOf(pairs, m)
    BY <1>6
  <2>2. PICK e \in pairs : e[1] = m /\ e[2] = Pick(m)
    BY <2>1 DEF BelowOf
  <2>3. e \in masks \X masks /\ e[2] \subseteq e[1] /\ e[1] # e[2]
    BY <1>4, <2>2 DEF Covers
  <2>4. e = <<e[1], e[2]>> /\ e[2] \in masks
    BY <2>3
  <2>5. QED
    BY <2>2, <2>3, <2>4
<1>7. \A m \in masks : /\ next[m] = IF BelowOf(pairs, m) = {} THEN m ELSE Pick(m)
                       /\ next[m] \in masks /\ next[m] \subseteq m /\ (next[m] = m <=> BelowOf(pairs, m) = {})
                       /\ (next[m] # m => <<m, next[m]>> \in pairs)
  <2>1. \A m \in masks : next[m] = IF BelowOf(pairs, m) = {} THEN m ELSE Pick(m)
    OBVIOUS
  <2> HIDE DEF next, Pick
  <2>2. QED
    BY <1>6, <2>1
<1>8. next \in [masks -> masks]
  <2>1. DOMAIN next = masks /\ next = [m \in masks |-> next[m]]
    OBVIOUS
  <2> HIDE DEF next
  <2>2. QED
    BY <1>7, <2>1
<1>9. \A m \in masks : size[m] = Cardinality(m)
  OBVIOUS
<1>10. size \in [masks -> 0..N]
  BY <1>2
<1> HIDE DEF next, size, Pick
<1>11. Descends(masks, next, size, N)
  <2>1. ASSUME NEW m \in masks, next[m] # m PROVE size[next[m]] < size[m]
    <3>1. next[m] \in masks /\ next[m] \in SUBSET m /\ IsFiniteSet(m)
      BY <1>2, <1>7
    <3>2. Cardinality(next[m]) <= Cardinality(m) /\ Cardinality(m) # Cardinality(next[m])
      BY <2>1, <3>1, FS_Subset
    <3>3. Cardinality(next[m]) \in 0..N /\ Cardinality(m) \in 0..N
      BY <1>2, <3>1
    <3>4. QED
      BY <1>9, <3>1, <3>2, <3>3
  <2>2. ASSUME NEW m \in masks, NEW n \in masks, next[m] = next[n], next[m] # m, next[n] # n PROVE m = n
    <3>1. <<m, next[m]>> \in pairs /\ <<n, next[n]>> \in pairs
      BY <1>7, <2>2
    <3>2. (<<m, next[m]>>[1] = <<n, next[n]>>[1]) = (<<m, next[m]>>[2] = <<n, next[n]>>[2])
      BY <1>4, <3>1
    <3>3. <<m, next[m]>>[1] = m /\ <<n, next[n]>>[1] = n /\ <<m, next[m]>>[2] = next[m] /\ <<n, next[n]>>[2] = next[n]
      OBVIOUS
    <3>4. QED
      BY <2>2, <3>2, <3>3
  <2>3. QED
    BY <1>7, <1>8, <1>10, <2>1, <2>2 DEF Descends
<1>12. PICK g \in [masks -> masks] : Bottoms(masks, next, g)
  <2>1. HasBottoms(masks, next)
    BY <1>1, <1>11, DescentEnds
  <2>2. QED
    BY <2>1 DEF HasBottoms
<1>13. \A m \in masks : g[m] = IF BelowOf(pairs, m) = {} THEN m ELSE g[Pick(m)]
  BY <1>7, <1>12 DEF Bottoms
<1>14. g = Falling(g)
  <2>1. g = [m \in masks |-> g[m]]
    OBVIOUS
  <2>2. QED
    BY <1>13, <2>1
<1>15. smallest = Falling(smallest)
  BY <1>14
<1> HIDE DEF smallest
<1>16. DOMAIN smallest = masks /\ smallest = [m \in masks |-> smallest[m]]
       /\ \A m \in masks : smallest[m] = IF BelowOf(pairs, m) = {} THEN m ELSE smallest[Pick(m)]
  <2>1. /\ DOMAIN Falling(smallest) = masks /\ Falling(smallest) = [m \in masks |-> Falling(smallest)[m]]
        /\ \A m \in masks : Falling(smallest)[m] = IF BelowOf(pairs, m) = {} THEN m ELSE smallest[Pick(m)]
    OBVIOUS
  <2> HIDE DEF Falling
  <2>2. QED
    BY <1>15, <2>1
<1>17. Bottoms(masks, next, smallest)
  <2>1. ASSUME NEW m \in masks PROVE smallest[m] = IF next[m] = m THEN m ELSE smallest[next[m]]
    <3>1. CASE BelowOf(pairs, m) = {}
      BY <1>7, <1>16, <3>1
    <3>2. CASE BelowOf(pairs, m) # {}
      <4>1. next[m] # m /\ next[m] = Pick(m)
        BY <1>7, <3>2
      <4>2. QED
        BY <1>16, <3>2, <4>1
    <3>3. QED
      BY <3>1, <3>2
  <2>2. QED
    BY <2>1 DEF Bottoms
<1>18. smallest \in [masks -> masks]
  <2> DEFINE Good == {n \in 0..N : \A m \in masks : size[m] <= n => smallest[m] \in masks}
  <2>1. \A m \in masks : next[m] = m => smallest[m] \in masks
    BY <1>17 DEF Bottoms
  <2>2. 0 \in Good
    <3>1. SUFFICES ASSUME NEW m \in masks, size[m] <= 0 PROVE next[m] = m
      BY <1>1, <2>1
    <3>2. size[m] \in 0..N /\ size[next[m]] \in 0..N /\ (next[m] # m => size[next[m]] < size[m])
      BY <1>7, <1>10, <1>11 DEF Descends
    <3>3. QED
      BY <3>1, <3>2
  <2>3. ASSUME NEW n \in 1..N, n - 1 \in Good PROVE n \in Good
    <3>1. n \in 0..N
      BY <1>1
    <3>2. SUFFICES ASSUME NEW m \in masks, size[m] <= n, next[m] # m PROVE smallest[m] \in masks
      BY <2>1, <3>1
    <3>3. size[m] \in 0..N /\ size[next[m]] \in 0..N /\ size[next[m]] < size[m] /\ next[m] \in masks
      BY <1>7, <1>10, <1>11, <3>2 DEF Descends
    <3>4. size[next[m]] <= n - 1
      BY <1>1, <3>2, <3>3
    <3>5. smallest[next[m]] \in masks
      BY <2>3, <3>3, <3>4
    <3>6. QED
      BY <1>17, <3>2, <3>5 DEF Bottoms
  <2>4. \A n \in 0..N : n \in Good
    <3> HIDE DEF Good
    <3>1. QED
      BY <1>1, <2>2, <2>3, Induction
  <2>5. \A m \in masks : smallest[m] \in masks
    <3>1. SUFFICES ASSUME NEW m \in masks PROVE smallest[m] \in masks
      OBVIOUS
    <3>2. size[m] \in 0..N /\ N \in 0..N
      BY <1>1, <1>10
    <3>3. size[m] <= N
      BY <1>1, <3>2
    <3>4. QED
      BY <2>4, <3>2, <3>3
  <2>6. QED
    BY <1>16, <2>5
<1>19. ChainsOf(smallest, masks)
  BY <1>1, <1>11, <1>17, <1>18, DescentChains
<1>20. QED
  BY <1>5, <1>19 DEF pairs

\* The places of a list that are in a set.
LEMMA InOrderIs ==
  ASSUME NEW N \in Nat, NEW list, DOMAIN list = 1..N, NEW places \in SUBSET (1..N)
  PROVE  /\ InOrder(list, places) \in Seq(1..N) /\ ToSet(InOrder(list, places)) = places
         /\ \A j, k \in 1..Len(InOrder(list, places)) : j < k => InOrder(list, places)[j] < InOrder(list, places)[k]
<1> DEFINE id == [i \in 1..N |-> i]
           r == InOrder(list, places)
<1>1. id \in [1..N -> 1..N] /\ \A i \in 1..N : id[i] = i
  OBVIOUS
<1>2. r = Among(id, places)
  BY DEF InOrder
<1> HIDE DEF id, r
<1>3. id \in Seq(1..N) /\ Len(id) = N /\ ToSet(id) = {id[i] : i \in 1..N}
  BY <1>1, FromFunction
<1>4. ToSet(id) = 1..N
  BY <1>1, <1>3
<1>5. r \in Seq(1..N) /\ ToSet(r) = places
  <2>1. Among(id, places) \in Seq(1..N) /\ ToSet(Among(id, places)) = ToSet(id) \cap places
    BY <1>3, AmongIs
  <2>2. ToSet(id) \cap places = places
    BY <1>4
  <2>3. QED
    BY <1>2, <2>1, <2>2
<1>6. PICK p \in [1..Len(r) -> 1..N] : /\ \A k \in 1..Len(r) : r[k] = id[p[k]]
                                       /\ \A j, k \in 1..Len(r) : j < k => p[j] < p[k]
  <2>1. TakenInOrder(r, id, N)
    BY <1>2, <1>3, AmongOrder
  <2>2. QED
    BY <2>1 DEF TakenInOrder
<1>7. \A k \in 1..Len(r) : r[k] = p[k]
  BY <1>1, <1>6
<1>8. QED
  BY <1>5, <1>6, <1>7 DEF r

LEMMA EmptySet ==
  ASSUME NEW s \in Lists
  PROVE  ToSet(s) = {} <=> s = <<>>
  BY SetOfList DEF Lists

\* Empty sets may come first.
LEMMA NestedBehind ==
  ASSUME NEW empties \in Seq(Lists), ToSet(empties) \subseteq {<<>>}, NEW sets \in Seq(Lists), Nested(sets)
  PROVE  Nested(empties \o sets)
<1> DEFINE r == empties \o sets
           M == Len(empties)
           N == Len(sets)
<1>1. M \in Nat /\ N \in Nat /\ DOMAIN empties = 1..M
  BY LenProperties
<1>2. /\ r \in Seq(Lists) /\ Len(r) = M + N
      /\ \A i \in 1..M + N : r[i] = IF i <= M THEN empties[i] ELSE sets[i - M]
  BY ConcatProperties
<1> HIDE DEF r, M, N
<1>3. \A i \in 1..M : ToSet(empties[i]) = {}
  <2>1. \A i \in 1..M : empties[i] = <<>>
    BY <1>1 DEF ToSet
  <2>2. ToSet(<<>>) = {}
    BY DEF ToSet
  <2>3. QED
    BY <2>1, <2>2
<1>4. ASSUME NEW j \in 1..Len(r), NEW k \in 1..Len(r), j <= k PROVE ToSet(r[j]) \subseteq ToSet(r[k])
  <2>1. j \in 1..M + N /\ k \in 1..M + N
    BY <1>2
  <2>2. CASE j <= M
    <3>1. j \in 1..M
      BY <1>1, <2>1, <2>2
    <3>2. r[j] = empties[j]
      BY <1>2, <2>1, <2>2
    <3>3. QED
      BY <1>3, <3>1, <3>2
  <2>3. CASE ~(j <= M)
    <3>1. ~(k <= M) /\ j - M \in 1..N /\ k - M \in 1..N /\ j - M <= k - M
      BY <1>1, <1>4, <2>1, <2>3
    <3>2. r[j] = sets[j - M] /\ r[k] = sets[k - M]
      BY <1>2, <2>1, <2>3, <3>1
    <3>3. ToSet(sets[j - M]) \subseteq ToSet(sets[k - M])
      BY <3>1 DEF Nested, N
    <3>4. QED
      BY <3>2, <3>3
  <2>4. QED
    BY <2>2, <2>3
<1>5. QED
  BY <1>4 DEF Nested, r

\* The sets of fewer columns come first.
Ascending(sets) ==
  \A i, j \in 1..Len(sets) : i < j => Cardinality(ToSet(sets[i])) <= Cardinality(ToSet(sets[j]))

LEMMA ColumnsFinite ==
  ASSUME NEW s \in Lists
  PROVE  IsFiniteSet(ToSet(s)) /\ Cardinality(ToSet(s)) \in Nat
<1>1. DOMAIN s = 1..Len(s) /\ Len(s) \in Nat /\ \A i \in 1..Len(s) : s[i] \in Columns
  BY LenProperties, ElementOfSeq DEF Lists
<1> DEFINE Seen(n) == {s[i] : i \in 1..n}
           Good == {n \in 0..Len(s) : IsFiniteSet(Seen(n))}
<1>2. Seen(0) = {} /\ IsFiniteSet({})
  BY FS_EmptySet
<1>3. 0 \in Good
  BY <1>1, <1>2
<1>4. ASSUME NEW n \in 1..Len(s), n - 1 \in Good PROVE n \in Good
  <2>1. \A i : i \in 1..n <=> i \in 1..n - 1 \/ i = n
    BY <1>1
  <2>2. Seen(n) = Seen(n - 1) \cup {s[n]}
    BY <2>1
  <2>3. IsFiniteSet(Seen(n - 1)) /\ n \in 0..Len(s)
    BY <1>1, <1>4
  <2> HIDE DEF Seen
  <2>4. IsFiniteSet(Seen(n))
    BY <2>2, <2>3, FS_AddElement
  <2>5. QED
    BY <2>3, <2>4
<1>5. Len(s) \in Good
  <2> HIDE DEF Good
  <2>1. \A n \in 0..Len(s) : n \in Good
    BY <1>1, <1>3, <1>4, Induction
  <2>2. QED
    BY <1>1, <2>1
<1>6. ToSet(s) = Seen(Len(s))
  BY <1>1 DEF ToSet
<1>7. IsFiniteSet(ToSet(s))
  BY <1>5, <1>6
<1>8. QED
  BY <1>7, FS_CardinalityType

LEMMA AmongNested ==
  ASSUME NEW sets \in Seq(Lists), Ascending(sets), NEW some,
         \A s, t \in some : ToSet(s) \subseteq ToSet(t) \/ ToSet(t) \subseteq ToSet(s)
  PROVE  Nested(Among(sets, some))
<1> DEFINE a == Among(sets, some)
           N == Len(sets)
<1>1. a \in Seq(Lists) /\ ToSet(a) = ToSet(sets) \cap some
  BY AmongIs
<1>2. PICK p \in [1..Len(a) -> 1..N] : /\ \A k \in 1..Len(a) : a[k] = sets[p[k]]
                                       /\ \A j, k \in 1..Len(a) : j < k => p[j] < p[k]
  <2>1. TakenInOrder(a, sets, N)
    BY AmongOrder
  <2>2. QED
    BY <2>1 DEF TakenInOrder
<1> HIDE DEF a
<1>3. DOMAIN a = 1..Len(a) /\ Len(a) \in Nat
  BY <1>1, LenProperties
<1>4. ASSUME NEW j \in 1..Len(a), NEW k \in 1..Len(a), j <= k PROVE ToSet(a[j]) \subseteq ToSet(a[k])
  <2>1. CASE j = k
    BY <2>1
  <2>2. CASE j # k
    <3>1. j < k
      BY <1>3, <1>4, <2>2
    <3>2. p[j] \in 1..N /\ p[k] \in 1..N /\ p[j] < p[k] /\ a[j] = sets[p[j]] /\ a[k] = sets[p[k]]
      BY <1>2, <3>1
    <3>3. Cardinality(ToSet(a[j])) <= Cardinality(ToSet(a[k]))
      BY <3>2 DEF Ascending, N
    <3>4. a[j] \in Lists /\ a[k] \in Lists /\ a[j] \in some /\ a[k] \in some
      <4>1. a[j] \in ToSet(a) /\ a[k] \in ToSet(a)
        BY <1>3 DEF ToSet
      <4>2. QED
        BY <1>1, <4>1, ElementOfSeq
    <3>5. CASE ToSet(a[j]) \subseteq ToSet(a[k])
      BY <3>5
    <3>6. CASE ToSet(a[k]) \subseteq ToSet(a[j])
      <4>1. IsFiniteSet(ToSet(a[j])) /\ Cardinality(ToSet(a[j])) \in Nat /\ Cardinality(ToSet(a[k])) \in Nat
        BY <3>4, ColumnsFinite
      <4>2. /\ Cardinality(ToSet(a[k])) <= Cardinality(ToSet(a[j]))
            /\ Cardinality(ToSet(a[j])) = Cardinality(ToSet(a[k])) => ToSet(a[j]) = ToSet(a[k])
        BY <3>6, <4>1, FS_Subset
      <4>3. Cardinality(ToSet(a[j])) = Cardinality(ToSet(a[k]))
        BY <3>3, <4>1, <4>2
      <4>4. QED
        BY <4>2, <4>3
    <3>7. QED
      BY <3>4, <3>5, <3>6
  <2>3. QED
    BY <2>1, <2>2
<1>5. QED
  BY <1>4 DEF Nested, a

\* Chains take each set as often as there are such sets, and the empty ones into the first chain.
Partitioned(chains, sets) ==
  /\ chains \in Seq(Seq(Lists)) /\ chains # <<>>
  /\ \A c \in 1..Len(chains) : chains[c] # <<>> /\ Nested(chains[c]) /\ (<<>> \in ToSet(chains[c]) => c = 1)
  /\ \A cols : Total(Like(cols), FlattenSeq(chains)) = Total(Like(cols), sets)

MasksOf(sets) == {ToSet(s) : s \in ToSet(sets)} \ {{}}
StartsChain(sets, smallest, k) ==
  /\ sets[k] # <<>> /\ smallest[ToSet(sets[k])] = ToSet(sets[k])
  /\ \A j \in 1..k - 1 : ToSet(sets[j]) # ToSet(sets[k])
OfChain(sets, smallest, m) == {s \in ToSet(sets) : s # <<>> /\ smallest[ToSet(s)] = m}

\* Each chain has one set it starts with, where it is first.
LEMMA ChainStarts ==
  ASSUME NEW sets \in Seq(Lists), NEW smallest, ChainsOf(smallest, MasksOf(sets)),
         NEW m \in MasksOf(sets), smallest[m] = m
  PROVE  \E k \in 1..Len(sets) : StartsChain(sets, smallest, k) /\ ToSet(sets[k]) = m
<1> DEFINE N == Len(sets)
           I == {k \in 1..N : ToSet(sets[k]) = m}
<1>1. N \in Nat /\ DOMAIN sets = 1..N /\ \A k \in 1..N : sets[k] \in Lists
  BY LenProperties, ElementOfSeq
<1>2. m # {} /\ \E k \in 1..N : ToSet(sets[k]) = m
  BY <1>1 DEF MasksOf, ToSet
<1>3. I \in SUBSET Nat /\ I # {}
  BY <1>1, <1>2
<1>4. PICK k \in I : \A i \in I : k <= i
  <2> HIDE DEF I
  <2>1. QED
    BY <1>3, LeastPlace
<1>5. k \in 1..N /\ ToSet(sets[k]) = m
  BY <1>4
<1>6. sets[k] # <<>>
  BY <1>1, <1>2, <1>5, EmptySet
<1>7. ASSUME NEW j \in 1..k - 1 PROVE ToSet(sets[j]) # ToSet(sets[k])
  <2>1. j \in 1..N /\ ~(k <= j)
    BY <1>1, <1>5
  <2>2. j \notin I
    BY <1>4, <2>1
  <2>3. QED
    BY <1>5, <2>1, <2>2
<1>8. QED
  BY <1>5, <1>6, <1>7 DEF StartsChain, N

LEMMA ChainedIs ==
  ASSUME NEW sets \in Seq(Lists), Ascending(sets), ~(ToSet(sets) \subseteq {<<>>}),
         NEW smallest, ChainsOf(smallest, MasksOf(sets))
  PROVE  Partitioned(Chained(sets, smallest), sets)
<1> DEFINE N == Len(sets)
           places == {k \in 1..N : StartsChain(sets, smallest, k)}
           order == InOrder(sets, places)
           K == Len(order)
           h(c) == ToSet(sets[order[c]])
           A(c) == OfChain(sets, smallest, h(c))
           E == Among(sets, {<<>>})
           B(c) == {<<>>} \cup UNION {A(d) : d \in 1..c}
           In(c) == Among(sets, A(c))
           chain(c) == (IF c = 1 THEN E ELSE <<>>) \o In(c)
           chains == [c \in 1..K |-> chain(c)]
<1>1. N \in Nat /\ DOMAIN sets = 1..N /\ \A k \in 1..N : sets[k] \in Lists /\ sets[k] \in ToSet(sets)
  BY LenProperties, ElementOfSeq DEF ToSet
<1>2. \A s \in ToSet(sets) : s \in Lists /\ (s # <<>> => ToSet(s) \in MasksOf(sets))
  <2>1. \A s \in ToSet(sets) : s \in Lists
    BY SetOfList
  <2>2. QED
    BY <2>1, EmptySet DEF MasksOf
<1>3. /\ order \in Seq(1..N) /\ ToSet(order) = places
      /\ \A c, d \in 1..Len(order) : c < d => order[c] < order[d]
  <2>1. places \in SUBSET (1..N)
    OBVIOUS
  <2> HIDE DEF places
  <2>2. QED
    BY <1>1, <2>1, InOrderIs
<1>4. Chained(sets, smallest) = chains
  <2>1. places = {k \in DOMAIN sets : StartsChain(sets, smallest, k)}
    BY <1>1
  <2>2. DOMAIN order = 1..K
    BY <1>3, LenProperties
  <2>3. Chained(sets, smallest) = [c \in DOMAIN order |-> chain(c)]
    BY <2>1 DEF Chained, StartsChain, OfChain
  <2>4. QED
    BY <2>2, <2>3
<1>5. K \in Nat /\ \A c \in 1..K : order[c] \in 1..N /\ StartsChain(sets, smallest, order[c])
  <2>1. K \in Nat /\ DOMAIN order = 1..K
    BY <1>3, LenProperties
  <2> HIDE DEF order, K
  <2>2. \A c \in 1..K : order[c] \in places
    BY <1>3, <2>1 DEF ToSet
  <2>3. QED
    BY <2>1, <2>2
<1> HIDE DEF order, K, N
<1>6. \A c \in 1..K : h(c) \in MasksOf(sets) /\ smallest[h(c)] = h(c) /\ sets[order[c]] \in A(c)
  BY <1>1, <1>2, <1>5 DEF StartsChain, OfChain
<1>7. \A c, d \in 1..K : c # d => h(c) # h(d)
  <2>1. \A c, d \in 1..K : c < d => h(c) # h(d)
    <3>1. SUFFICES ASSUME NEW c \in 1..K, NEW d \in 1..K, c < d PROVE h(c) # h(d)
      OBVIOUS
    <3>2. order[c] \in 1..N /\ order[d] \in 1..N /\ order[c] < order[d]
      BY <1>3, <1>5, <3>1 DEF K
    <3>3. order[c] \in 1..order[d] - 1
      BY <1>1, <3>2
    <3>4. QED
      BY <1>5, <3>3 DEF StartsChain
  <2>2. \A c, d \in 1..K : c # d => c < d \/ d < c
    BY <1>5
  <2>3. QED
    BY <2>1, <2>2
<1>8. \A m \in MasksOf(sets) : smallest[m] = m => \E c \in 1..K : h(c) = m
  <2>1. SUFFICES ASSUME NEW m \in MasksOf(sets), smallest[m] = m PROVE \E c \in 1..K : h(c) = m
    OBVIOUS
  <2>2. PICK k \in 1..N : StartsChain(sets, smallest, k) /\ ToSet(sets[k]) = m
    BY <2>1, ChainStarts DEF N
  <2>3. k \in ToSet(order) /\ DOMAIN order = 1..K
    BY <1>3, <2>2, LenProperties DEF K
  <2>4. PICK c \in 1..K : order[c] = k
    BY <2>3 DEF ToSet
  <2>5. QED
    BY <2>2, <2>4
<1>9. \A s \in ToSet(sets) : s # <<>> => \E c \in 1..K : s \in A(c)
  <2>1. SUFFICES ASSUME NEW s \in ToSet(sets), s # <<>> PROVE \E c \in 1..K : s \in A(c)
    OBVIOUS
  <2>2. /\ ToSet(s) \in MasksOf(sets) /\ smallest[ToSet(s)] \in MasksOf(sets)
        /\ smallest[smallest[ToSet(s)]] = smallest[ToSet(s)]
    BY <1>2, <2>1 DEF ChainsOf
  <2>3. PICK c \in 1..K : h(c) = smallest[ToSet(s)]
    BY <1>8, <2>2
  <2>4. QED
    BY <2>1, <2>3 DEF OfChain
<1>10. \A c \in 1..K : \A s, t \in A(c) : ToSet(s) \subseteq ToSet(t) \/ ToSet(t) \subseteq ToSet(s)
  BY <1>2 DEF OfChain, ChainsOf
<1>11. /\ \A c \in 1..K : <<>> \notin A(c) /\ A(c) \subseteq ToSet(sets)
       /\ \A c, d \in 1..K : c # d => A(c) \cap A(d) = {}
  BY <1>7 DEF OfChain
<1> HIDE DEF A, h
<1>12. /\ E \in Seq(Lists) /\ ToSet(E) \subseteq {<<>>} /\ <<>> \in Seq(Lists) /\ ToSet(<<>>) = {}
       /\ \A c \in 1..K : In(c) \in Seq(Lists) /\ ToSet(In(c)) = ToSet(sets) \cap A(c)
  <2>1. ToSet(<<>>) = {} /\ <<>> \in Seq(Lists)
    BY DEF ToSet
  <2>2. E \in Seq(Lists) /\ ToSet(E) = ToSet(sets) \cap {<<>>}
    BY AmongIs
  <2>3. \A c \in 1..K : In(c) \in Seq(Lists) /\ ToSet(In(c)) = ToSet(sets) \cap A(c)
    BY AmongIs
  <2>4. QED
    BY <2>1, <2>2, <2>3
<1>13. \A c \in 1..K : Nested(In(c))
  BY <1>10, AmongNested
<1> HIDE DEF In, E
<1>14. ASSUME NEW c \in 1..K
       PROVE  /\ chain(c) \in Seq(Lists) /\ chain(c) # <<>> /\ Nested(chain(c))
              /\ <<>> \in ToSet(chain(c)) => c = 1
  <2> DEFINE start == IF c = 1 THEN E ELSE <<>>
  <2>1. start \in Seq(Lists) /\ ToSet(start) \subseteq {<<>>} /\ (c # 1 => ToSet(start) = {})
    BY <1>12
  <2>2. chain(c) = start \o In(c)
    OBVIOUS
  <2> HIDE DEF start
  <2>3. /\ start \o In(c) \in Seq(Lists) /\ ToSet(start \o In(c)) = ToSet(start) \cup ToSet(In(c))
        /\ Nested(start \o In(c))
    BY <1>12, <1>13, <2>1, ConcatSet, NestedBehind
  <2>4. sets[order[c]] \in ToSet(start \o In(c))
    BY <1>1, <1>5, <1>6, <1>12, <2>3
  <2>5. start \o In(c) # <<>>
    BY <1>12, <2>4
  <2>6. <<>> \in ToSet(start \o In(c)) => c = 1
    BY <1>11, <1>12, <2>1, <2>3
  <2>7. QED
    BY <2>2, <2>3, <2>5, <2>6
<1>15. /\ chains \in Seq(Seq(Lists)) /\ Len(chains) = K /\ \A c \in 1..K : chains[c] = chain(c)
  <2>1. chains \in [1..K -> Seq(Lists)]
    <3> HIDE DEF chain
    <3>1. QED
      BY <1>14
  <2>2. \A c \in 1..K : chains[c] = chain(c)
    OBVIOUS
  <2> HIDE DEF chains
  <2>3. QED
    BY <1>5, <2>1, <2>2, FromFunction
<1>16. 1 \in 1..K
  <2>1. PICK s \in ToSet(sets) : s # <<>>
    OBVIOUS
  <2>2. \E c \in 1..K : TRUE
    BY <1>9, <2>1
  <2>3. QED
    BY <1>5, <2>2
<1> HIDE DEF chain, chains
<1>17. chains # <<>>
  <2>1. K # 0
    BY <1>16
  <2>2. QED
    BY <1>15, <2>1, EmptySeq
<1>18. \A c \in 1..K : chains[c] # <<>> /\ Nested(chains[c]) /\ (<<>> \in ToSet(chains[c]) => c = 1)
  BY <1>14, <1>15
<1>19. ASSUME NEW cols PROVE Total(Like(cols), FlattenSeq(chains)) = Total(Like(cols), sets)
  <2> DEFINE w == Like(cols)
             v == [s \in Seq(Lists) |-> Total(w, s)]
             sum == [c \in 0..K |-> IF c = 0 THEN 0 ELSE Total(w, Among(sets, B(c)))]
  <2>1. w \in [Lists -> Nat]
    BY LikeTyped
  <2> HIDE DEF w
  <2>2. v \in [Seq(Lists) -> Nat] /\ \A s \in Seq(Lists) : v[s] = Total(w, s)
    <3>1. \A s \in Seq(Lists) : Total(w, s) \in Nat
      BY <2>1, TotalType
    <3>2. QED
      BY <3>1
  <2>3. Total(w, FlattenSeq(chains)) = Total(v, chains)
    BY <1>15, <2>1, TotalFlatten
  <2>4. sum[0] = 0 /\ \A c \in 1..K : sum[c] = Total(w, Among(sets, B(c))) /\ c \in 0..K /\ c # 0
    BY <1>5
  <2> HIDE DEF v, sum
  <2>5. ASSUME NEW c \in 1..K PROVE sum[c] = sum[c - 1] + v[chains[c]]
    <3>1. v[chains[c]] = Total(w, chain(c)) /\ Total(w, In(c)) \in Nat
      BY <1>12, <1>14, <1>15, <2>1, <2>2, TotalType
    <3>2. CASE c = 1
      <4>1. chain(c) = E \o In(c)
        BY <3>2 DEF chain
      <4>2. Total(w, chain(c)) = Total(w, E) + Total(w, In(c))
        BY <1>12, <2>1, <4>1, TotalConcat
      <4>3. B(c) = {<<>>} \cup A(c) /\ {<<>>} \cap A(c) = {}
        BY <1>11, <3>2
      <4>4. Total(w, Among(sets, {<<>>} \cup A(c))) = Total(w, Among(sets, {<<>>})) + Total(w, Among(sets, A(c)))
        <5>1. SumApart(w, sets, {<<>>}, A(c))
          BY <2>1, <4>3, TotalApart
        <5>2. QED
          BY <5>1 DEF SumApart
      <4>5. sum[c] = Total(w, E) + Total(w, In(c)) /\ Total(w, E) \in Nat
        BY <1>12, <2>1, <2>4, <4>3, <4>4, TotalType DEF E, In
      <4>6. sum[c - 1] = 0
        BY <2>4, <3>2
      <4>7. QED
        BY <3>1, <4>2, <4>5, <4>6
    <3>3. CASE c # 1
      <4>1. c - 1 \in 1..K /\ \A d : d \in 1..c <=> d \in 1..c - 1 \/ d = c
        BY <1>5, <3>3
      <4>2. B(c) = B(c - 1) \cup A(c)
        BY <4>1
      <4>3. B(c - 1) \cap A(c) = {}
        <5>1. \A d \in 1..c - 1 : d \in 1..K /\ d # c
          BY <1>5
        <5>2. \A d \in 1..c - 1 : A(d) \cap A(c) = {}
          BY <1>11, <5>1
        <5>3. QED
          BY <1>11, <5>2
      <4>4. Total(w, chain(c)) = Total(w, In(c))
        <5>1. chain(c) = <<>> \o In(c)
          BY <3>3 DEF chain
        <5>2. QED
          BY <1>12, <5>1, ConcatEmptySeq
      <4> HIDE DEF B
      <4>5. Total(w, Among(sets, B(c - 1) \cup A(c))) = Total(w, Among(sets, B(c - 1))) + Total(w, Among(sets, A(c)))
        <5>1. SumApart(w, sets, B(c - 1), A(c))
          BY <2>1, <4>3, TotalApart
        <5>2. QED
          BY <5>1 DEF SumApart
      <4>6. sum[c] = Total(w, Among(sets, B(c))) /\ sum[c - 1] = Total(w, Among(sets, B(c - 1)))
        BY <2>4, <4>1
      <4>7. QED
        BY <3>1, <4>2, <4>4, <4>5, <4>6 DEF In
    <3>4. QED
      BY <3>2, <3>3
  <2>6. Total(v, chains) = sum[K]
    <3>1. AddsUp(v, chains, sum)
      BY <1>15, <2>4, <2>5 DEF AddsUp
    <3>2. QED
      BY <1>15, <2>2, <3>1, TotalIs
  <2>7. K \in 1..K
    BY <1>5, <1>16
  <2>8. ToSet(sets) \subseteq B(K)
    BY <1>9
  <2>9. sum[K] = Total(w, sets)
    <3> HIDE DEF B
    <3>1. QED
      BY <2>1, <2>4, <2>7, <2>8, TotalAll
  <2>10. QED
    BY <2>3, <2>6, <2>9 DEF w
<1>20. Partitioned(chains, sets)
  BY <1>15, <1>17, <1>18, <1>19 DEF Partitioned
<1>21. QED
  BY <1>4, <1>20

LEMMA ExtractIs ==
  ASSUME NEW sets \in Seq(Lists), sets # <<>>, Ascending(sets)
  PROVE  Partitioned(extract_rollup_sets(sets), sets)
<1>1. CASE ToSet(sets) \subseteq {<<>>}
  <2>1. extract_rollup_sets(sets) = <<sets>>
    BY <1>1 DEF extract_rollup_sets
  <2>2. /\ <<sets>> \in Seq(Seq(Lists)) /\ Len(<<sets>>) = 1 /\ <<sets>> # <<>> /\ <<sets>>[1] = sets
        /\ \A c \in 1..1 : c = 1
    OBVIOUS
  <2>3. Nested(sets)
    <3>1. DOMAIN sets = 1..Len(sets)
      BY LenProperties
    <3>2. \A k \in 1..Len(sets) : sets[k] = <<>>
      BY <1>1, <3>1 DEF ToSet
    <3>3. QED
      BY <3>2 DEF Nested
  <2>4. ASSUME NEW cols PROVE Total(Like(cols), FlattenSeq(<<sets>>)) = Total(Like(cols), sets)
    <3> DEFINE w == Like(cols)
               v == [s \in Seq(Lists) |-> Total(w, s)]
    <3>1. w \in [Lists -> Nat]
      BY LikeTyped
    <3> HIDE DEF w
    <3>2. v \in [Seq(Lists) -> Nat] /\ v[sets] = Total(w, sets)
      <4>1. \A s \in Seq(Lists) : Total(w, s) \in Nat
        BY <3>1, TotalType
      <4>2. QED
        BY <4>1
    <3>3. Total(w, FlattenSeq(<<sets>>)) = Total(v, <<sets>>)
      BY <2>2, <3>1, TotalFlatten
    <3> HIDE DEF v
    <3>4. Total(v, <<sets>>) = v[sets]
      BY <3>2, TotalShort
    <3>5. QED
      BY <3>2, <3>3, <3>4 DEF w
  <2>5. \A c \in 1..Len(<<sets>>) : <<sets>>[c] # <<>> /\ Nested(<<sets>>[c]) /\ c = 1
    BY <2>2, <2>3
  <2>6. QED
    BY <2>1, <2>2, <2>4, <2>5 DEF Partitioned
<1>2. CASE ~(ToSet(sets) \subseteq {<<>>})
  <2> DEFINE smallest == SmallestOfChain(MasksOf(sets), BipartiteMatch(Covers(MasksOf(sets))))
  <2>1. extract_rollup_sets(sets) = Chained(sets, smallest)
    BY <1>2 DEF extract_rollup_sets, Split, MasksOf, Covers
  <2>2. MasksOf(sets) \in SUBSET SUBSET Columns
    <3>1. \A s \in ToSet(sets) : ToSet(s) \subseteq Columns
      <4>1. ToSet(sets) \subseteq Lists
        BY SetOfList
      <4>2. QED
        BY <4>1, SetOfList DEF Lists
    <3>2. QED
      BY <3>1 DEF MasksOf
  <2>3. ChainsOf(smallest, MasksOf(sets))
    BY <2>2, SmallestIs
  <2> HIDE DEF smallest
  <2>4. QED
    BY <1>2, <2>1, <2>3, ChainedIs
<1>3. QED
  BY <1>1, <1>2

------------------------------------------------------------------------------
(* The rollups of a statement *)

RollupOf(r, sets) ==
  /\ Faithful(r)
  /\ \A cols : Total(Like(cols), r.gsets_data) = Total(Like(cols), sets)
  /\ <<>> \in ToSet(r.gsets_data) => <<>> \in ToSet(sets)

LEMMA RollupDataIs ==
  ASSUME query \in Queries, NEW sets \in Seq(Lists), sets # <<>>, Nested(sets), NEW sort \in Lists
  PROVE  RollupOf(RollupData(reorder_grouping_sets(sets, sort)), sets)
<1> DEFINE t == reorder_grouping_sets(sets, sort)
           r == RollupData(t)
           N == Len(sets)
<1>1. N \in Nat /\ N # 0 /\ 1 \in 1..N /\ DOMAIN sets = 1..N
      /\ \A k \in 1..N : sets[k] \in Lists /\ (N - k) + 1 \in 1..N
  <2>1. N \in Nat /\ N # 0 /\ DOMAIN sets = 1..N /\ \A k \in 1..N : sets[k] \in Lists
    BY LenProperties, EmptySeq, ElementOfSeq
  <2> HIDE DEF N
  <2>2. 1 \in 1..N /\ \A k \in 1..N : (N - k) + 1 \in 1..N
    BY <2>1
  <2>3. QED
    BY <2>1, <2>2
<1>2. /\ t \in Seq(Lists) /\ Len(t) = N
      /\ \A k \in 1..N : ToSet(t[k]) = ToSet(sets[(N - k) + 1]) /\ Begins(t[k], t[1])
  BY Reordering DEF ReorderedFrom
<1> HIDE DEF t, N
<1>3. DOMAIN t = 1..N /\ \A k \in 1..N : t[k] \in Lists
  BY <1>2, LenProperties, ElementOfSeq
<1>4. r = Rollup(t[1], t, FALSE)
  <2>1. t[1] # <<>> => preprocess_groupclause(t[1]) = t[1]
    BY ClauseKept
  <2>2. QED
    BY <2>1 DEF RollupData
<1> HIDE DEF r
<1>5. Faithful(r) /\ r.gsets_data = t
  <2>1. t[1] \in Lists /\ \A k \in 1..Len(t) : Begins(t[k], t[1])
    BY <1>1, <1>2, <1>3
  <2>2. Faithful(Rollup(t[1], t, FALSE)) /\ Rollup(t[1], t, FALSE).gsets_data = t
    BY <1>2, <2>1, RollupFaithful
  <2>3. QED
    BY <1>4, <2>2
<1>6. ASSUME NEW cols PROVE Total(Like(cols), t) = Total(Like(cols), sets)
  <2> DEFINE w == Like(cols)
             u == Reverse(sets)
  <2>1. w \in [Lists -> Nat] /\ \A s \in Lists : w[s] = IF ToSet(s) = cols THEN 1 ELSE 0
    BY LikeTyped
  <2> HIDE DEF w
  <2>2. u \in Seq(Lists) /\ Total(w, u) = Total(w, sets)
    BY <2>1, TotalReverse
  <2>3. u = [k \in 1..N |-> sets[(N - k) + 1]]
    BY DEF Reverse, N
  <2>4. Len(u) = N /\ \A k \in 1..N : u[k] = sets[(N - k) + 1]
    <3>1. DOMAIN u = 1..N /\ \A k \in 1..N : u[k] = sets[(N - k) + 1]
      BY <2>3
    <3> HIDE DEF u
    <3>2. DOMAIN u = 1..Len(u) /\ Len(u) \in Nat
      BY <2>2, LenProperties
    <3>3. Len(u) = N
      BY <1>1, <3>1, <3>2
    <3>4. QED
      BY <3>1, <3>3
  <2> HIDE DEF u
  <2>5. \A k \in 1..N : w[t[k]] = w[u[k]]
    <3>1. SUFFICES ASSUME NEW k \in 1..N PROVE w[t[k]] = w[u[k]]
      OBVIOUS
    <3>2. t[k] \in Lists /\ u[k] \in Lists /\ ToSet(t[k]) = ToSet(u[k])
      BY <1>1, <1>2, <1>3, <2>4
    <3>3. QED
      BY <2>1, <3>2
  <2>6. WeighAlike(w, t, w, u)
    BY <1>2, <2>4, <2>5 DEF WeighAlike
  <2>7. Total(w, t) = Total(w, u)
    BY <1>2, <2>1, <2>2, <2>6, TotalAlike
  <2>8. QED
    BY <2>2, <2>7 DEF w
<1>7. <<>> \in ToSet(t) => <<>> \in ToSet(sets)
  <2>1. SUFFICES ASSUME <<>> \in ToSet(t) PROVE <<>> \in ToSet(sets)
    OBVIOUS
  <2>2. PICK k \in 1..N : t[k] = <<>>
    BY <1>3, <2>1 DEF ToSet
  <2>3. ToSet(t[k]) = {}
    BY <1>3, <2>2, EmptySet
  <2>4. sets[(N - k) + 1] = <<>> /\ (N - k) + 1 \in 1..N
    BY <1>1, <1>2, <2>3, EmptySet
  <2>5. QED
    BY <1>1, <2>4 DEF ToSet
<1>8. RollupOf(r, sets)
  BY <1>5, <1>6, <1>7 DEF RollupOf
<1>9. QED
  BY <1>8 DEF r, t

\* Rollups by which these sets can be computed, an empty set in the first one only.
RollupsFor(R, sets) ==
  /\ R \in Seq(ToSet(R))
  /\ \A i \in 1..Len(R) : Faithful(R[i]) /\ (<<>> \in ToSet(R[i].gsets_data) => i = 1)
  /\ SetsData(R) \in Seq(Lists)
  /\ \A cols : Total(Like(cols), SetsData(R)) = Total(Like(cols), sets)

LEMMA RollupsAre ==
  ASSUME query \in Queries, NEW sets, NEW chains, Partitioned(chains, sets)
  PROVE  RollupsFor(Rollups(chains), sets) /\ Rollups(chains) # <<>>
<1> DEFINE K == Len(chains)
           sort == IF K = 1 THEN query.sortClause ELSE <<>>
           R == Rollups(chains)
           b == [i \in 1..K |-> R[i].gsets_data]
<1>1. /\ chains \in Seq(Seq(Lists)) /\ chains # <<>>
      /\ \A c \in 1..K : chains[c] # <<>> /\ Nested(chains[c]) /\ (<<>> \in ToSet(chains[c]) => c = 1)
      /\ \A cols : Total(Like(cols), FlattenSeq(chains)) = Total(Like(cols), sets)
  BY DEF Partitioned
<1>2. K \in Nat /\ K # 0 /\ DOMAIN chains = 1..K /\ \A c \in 1..K : chains[c] \in Seq(Lists)
  BY <1>1, LenProperties, EmptySeq, ElementOfSeq
<1>3. sort \in Lists
  <2>1. query.sortClause \in Lists /\ <<>> \in Lists
    BY QueriesAssumption DEF Lists
  <2>2. QED
    BY <2>1
<1>4. R = [c \in 1..K |-> RollupData(reorder_grouping_sets(chains[c], sort))]
  BY <1>2 DEF Rollups
<1> HIDE DEF sort, K
<1>5. \A c \in 1..K : RollupOf(R[c], chains[c])
  <2>1. \A c \in 1..K : RollupOf(RollupData(reorder_grouping_sets(chains[c], sort)), chains[c])
    BY <1>1, <1>2, <1>3, RollupDataIs
  <2>2. QED
    BY <1>4, <2>1
<1>6. R \in [1..K -> {R[c] : c \in 1..K}]
  BY <1>4
<1> HIDE DEF R
<1>7. R \in Seq({R[c] : c \in 1..K}) /\ Len(R) = K /\ ToSet(R) = {R[c] : c \in 1..K}
  BY <1>2, <1>6, FromFunction
<1>8. \A c \in 1..K : /\ Faithful(R[c]) /\ R[c].gsets_data \in Seq(Lists)
                      /\ (<<>> \in ToSet(R[c].gsets_data) => c = 1)
                      /\ \A cols : Total(Like(cols), R[c].gsets_data) = Total(Like(cols), chains[c])
  BY <1>1, <1>5 DEF RollupOf, Faithful
<1>9. R # <<>>
  BY <1>2, <1>7, EmptySeq
<1>10. SetsData(R) = FlattenSeq(b)
  <2>1. DOMAIN R = 1..K
    BY <1>7, LenProperties
  <2>2. QED
    BY <2>1 DEF SetsData
<1>11. (\A i \in 1..K : b[i] = R[i].gsets_data) /\ b \in [1..K -> Seq(Lists)]
  BY <1>8
<1> HIDE DEF b
<1>12. b \in Seq(Seq(Lists)) /\ Len(b) = K
  BY <1>2, <1>11, FromFunction
<1>13. SetsData(R) \in Seq(Lists)
  BY <1>10, <1>12, FlattenIs
<1>14. ASSUME NEW cols PROVE Total(Like(cols), SetsData(R)) = Total(Like(cols), sets)
  <2> DEFINE w == Like(cols)
             v == [s \in Seq(Lists) |-> Total(w, s)]
  <2>1. w \in [Lists -> Nat]
    BY LikeTyped
  <2> HIDE DEF w
  <2>2. v \in [Seq(Lists) -> Nat] /\ \A s \in Seq(Lists) : v[s] = Total(w, s)
    <3>1. \A s \in Seq(Lists) : Total(w, s) \in Nat
      BY <2>1, TotalType
    <3>2. QED
      BY <3>1
  <2>3. Total(w, FlattenSeq(b)) = Total(v, b) /\ Total(w, FlattenSeq(chains)) = Total(v, chains)
    BY <1>1, <1>12, <2>1, TotalFlatten
  <2> HIDE DEF v
  <2>4. ASSUME NEW i \in 1..K PROVE v[b[i]] = v[chains[i]]
    <3>1. b[i] \in Seq(Lists) /\ chains[i] \in Seq(Lists) /\ Total(w, b[i]) = Total(w, chains[i])
      BY <1>2, <1>8, <1>11 DEF w
    <3>2. QED
      BY <2>2, <3>1
  <2>5. WeighAlike(v, b, v, chains)
    <3>1. Len(b) = Len(chains)
      BY <1>12 DEF K
    <3>2. \A i \in 1..Len(b) : v[b[i]] = v[chains[i]]
      BY <1>12, <2>4
    <3>3. QED
      BY <3>1, <3>2 DEF WeighAlike
  <2>6. Total(v, b) = Total(v, chains)
    <3> DEFINE T == Seq(Lists)
    <3>1. b \in Seq(T) /\ chains \in Seq(T) /\ v \in [T -> Nat]
      BY <1>1, <1>12, <2>2
    <3> HIDE DEF T
    <3>2. QED
      BY <2>5, <3>1, TotalAlike
  <2>7. QED
    BY <1>1, <1>10, <2>3, <2>6 DEF w
<1>15. RollupsFor(R, sets)
  BY <1>7, <1>8, <1>13, <1>14 DEF RollupsFor
<1>16. QED
  BY <1>9, <1>15 DEF R

LEMMA AmongAscending ==
  ASSUME NEW sets \in Seq(Lists), Ascending(sets), NEW some
  PROVE  Ascending(Among(sets, some))
<1> DEFINE a == Among(sets, some)
           N == Len(sets)
<1>1. PICK p \in [1..Len(a) -> 1..N] : /\ \A k \in 1..Len(a) : a[k] = sets[p[k]]
                                       /\ \A j, k \in 1..Len(a) : j < k => p[j] < p[k]
  <2>1. TakenInOrder(a, sets, N)
    BY AmongOrder
  <2>2. QED
    BY <2>1 DEF TakenInOrder
<1> HIDE DEF a
<1>2. ASSUME NEW i \in 1..Len(a), NEW j \in 1..Len(a), i < j
      PROVE  Cardinality(ToSet(a[i])) <= Cardinality(ToSet(a[j]))
  <2>1. p[i] \in 1..N /\ p[j] \in 1..N /\ p[i] < p[j] /\ a[i] = sets[p[i]] /\ a[j] = sets[p[j]]
    BY <1>1, <1>2
  <2>2. QED
    BY <2>1 DEF Ascending, N
<1>3. QED
  BY <1>2 DEF Ascending, a

\* Each set of z is one of x or one of y.
Together(x, y, z) == \A cols : Total(Like(cols), x) + Total(Like(cols), y) = Total(Like(cols), z)

\* What preprocessing makes of the grouping sets.
GroupingDataSound(gd, q) ==
  /\ RollupsFor(gd.rollups, SetsData(gd.rollups))
  /\ gd.unsortable_sets \in Seq(Lists)
  /\ \A s \in ToSet(gd.unsortable_sets) : s \in ToSet(q.groupingSets) /\ ToSet(s) \cap q.unsortable # {}
  /\ gd.unsortable_sets # <<>> => gd.any_hashable
  /\ q.groupingSets # <<>> /\ gd.unsortable_sets = <<>> => gd.rollups # <<>>
  /\ Together(gd.unsortable_sets, SetsData(gd.rollups), q.groupingSets)

LEMMA NoRollups ==
  RollupsFor(<<>>, <<>>)
<1>1. SetsData(<<>>) = FlattenSeq(<<>>)
  <2>1. [i \in DOMAIN <<>> |-> <<>>[i].gsets_data] = <<>>
    OBVIOUS
  <2>2. QED
    BY <2>1 DEF SetsData
<1>2. <<>> \in Seq(Seq(Lists)) /\ <<>> \in Seq(ToSet(<<>>)) /\ Len(<<>>) = 0 /\ <<>> \in Seq(Lists)
  OBVIOUS
<1>3. SetsData(<<>>) \in Seq(Lists)
  BY <1>1, <1>2, FlattenIs
<1>4. ASSUME NEW cols PROVE Total(Like(cols), SetsData(<<>>)) = Total(Like(cols), <<>>)
  <2> DEFINE w == Like(cols)
             T == Seq(Lists)
             v == [s \in T |-> Total(w, s)]
  <2>1. w \in [Lists -> Nat]
    BY LikeTyped
  <2> HIDE DEF w
  <2>2. v \in [T -> Nat]
    <3>1. \A s \in T : Total(w, s) \in Nat
      BY <2>1, TotalType
    <3> HIDE DEF T
    <3>2. QED
      BY <3>1
  <2>3. Total(w, FlattenSeq(<<>>)) = Total(v, <<>>)
    BY <1>2, <2>1, TotalFlatten
  <2> HIDE DEF v, T
  <2>4. Total(v, <<>>) = 0 /\ Total(w, <<>>) = 0
    BY <2>1, <2>2, TotalShort
  <2>5. QED
    BY <1>1, <2>3, <2>4 DEF w
<1>5. \A i \in 1..Len(<<>>) : FALSE
  BY <1>2
<1>6. QED
  BY <1>2, <1>3, <1>4, <1>5 DEF RollupsFor

Unsortable == Among(query.groupingSets, {s \in ToSet(query.groupingSets) : ~grouping_is_sortable(s)})

LEMMA UnsortableIs ==
  ASSUME query \in Queries
  PROVE  /\ query.groupingSets \in Seq(Lists) /\ Unsortable \in Seq(Lists)
         /\ ToSet(Unsortable) = {s \in ToSet(query.groupingSets) : ~grouping_is_sortable(s)}
         /\ \A s \in ToSet(Unsortable) : s \in ToSet(query.groupingSets) /\ ToSet(s) \cap query.unsortable # {}
<1> DEFINE gs == query.groupingSets
           bad == {s \in ToSet(gs) : ~grouping_is_sortable(s)}
<1>1. gs \in Seq(Lists)
  BY QueriesAssumption DEF Lists
<1>2. \A s \in bad : s \in ToSet(gs) /\ ToSet(s) \cap query.unsortable # {}
  BY DEF grouping_is_sortable
<1>3. bad \subseteq ToSet(gs) /\ Unsortable = Among(gs, bad)
  BY DEF Unsortable
<1>4. QED
  <2> HIDE DEF gs, bad
  <2>1. Among(gs, bad) \in Seq(Lists) /\ ToSet(Among(gs, bad)) = ToSet(gs) \cap bad
    BY <1>1, AmongIs
  <2>2. Unsortable \in Seq(Lists) /\ ToSet(Unsortable) = bad
    BY <1>3, <2>1
  <2>3. QED
    BY <1>1, <1>2, <2>2 DEF gs, bad

LEMMA PreprocessedSound ==
  ASSUME query \in Queries
  PROVE  GroupingDataSound(preprocess_grouping_sets(Without(query.groupingSets, ToSet(Unsortable)), Unsortable), query)
<1> DEFINE gs == query.groupingSets
           U == Unsortable
           bad == ToSet(U)
           good == Without(gs, bad)
           R == IF good = <<>> THEN <<>> ELSE Rollups(extract_rollup_sets(good))
           gd == preprocess_grouping_sets(good, U)
<1>1. /\ gs \in Seq(Lists) /\ U \in Seq(Lists) /\ bad \subseteq ToSet(gs) /\ U = Among(gs, bad)
      /\ \A s \in ToSet(U) : s \in ToSet(gs) /\ ToSet(s) \cap query.unsortable # {}
  BY UnsortableIs DEF Unsortable
<1>2. gd.rollups = R /\ gd.unsortable_sets = U /\ (U # <<>> => gd.any_hashable)
  BY DEF preprocess_grouping_sets, GroupingSetsData
<1>3. Ascending(gs)
  <2>1. DOMAIN gs = 1..Len(gs)
    BY <1>1, LenProperties
  <2>2. \A i, j \in DOMAIN gs : i < j => Cardinality(ToSet(gs[i])) <= Cardinality(ToSet(gs[j]))
    BY QueriesAssumption
  <2>3. QED
    BY <2>1, <2>2 DEF Ascending
<1>4. good = Among(gs, ToSet(gs) \ bad)
  BY DEF Without
<1> HIDE DEF gs, U, bad, good, gd
<1>5. good \in Seq(Lists) /\ Ascending(good) /\ ToSet(good) = ToSet(gs) \ bad
  <2>1. Ascending(good)
    BY <1>1, <1>3, <1>4, AmongAscending
  <2>2. good \in Seq(Lists) /\ ToSet(good) = ToSet(gs) \cap (ToSet(gs) \ bad)
    BY <1>1, <1>4, AmongIs
  <2>3. QED
    BY <2>1, <2>2
<1>6. RollupsFor(R, good) /\ (good # <<>> => R # <<>>)
  <2>1. CASE good = <<>>
    BY <2>1, NoRollups
  <2>2. CASE good # <<>>
    <3>1. Partitioned(extract_rollup_sets(good), good)
      BY <1>5, <2>2, ExtractIs
    <3>2. RollupsFor(Rollups(extract_rollup_sets(good)), good) /\ Rollups(extract_rollup_sets(good)) # <<>>
      BY <3>1, RollupsAre
    <3>3. QED
      BY <2>2, <3>2
  <2>3. QED
    BY <2>1, <2>2
<1> HIDE DEF R
<1>7. RollupsFor(R, SetsData(R)) /\ \A cols : Total(Like(cols), SetsData(R)) = Total(Like(cols), good)
  BY <1>6 DEF RollupsFor
<1>8. ASSUME NEW cols PROVE Total(Like(cols), U) + Total(Like(cols), SetsData(R)) = Total(Like(cols), gs)
  <2> DEFINE w == Like(cols)
             rest == ToSet(gs) \ bad
  <2>1. w \in [Lists -> Nat]
    BY LikeTyped
  <2>2. bad \cap rest = {} /\ ToSet(gs) \subseteq bad \cup rest
    OBVIOUS
  <2> HIDE DEF w, rest
  <2>3. Total(w, Among(gs, bad \cup rest)) = Total(w, Among(gs, bad)) + Total(w, Among(gs, rest))
    <3>1. SumApart(w, gs, bad, rest)
      BY <1>1, <2>1, <2>2, TotalApart
    <3>2. QED
      BY <3>1 DEF SumApart
  <2>4. Total(w, Among(gs, bad \cup rest)) = Total(w, gs)
    BY <1>1, <2>1, <2>2, TotalAll
  <2>5. Total(w, Among(gs, bad)) = Total(w, U) /\ Total(w, Among(gs, rest)) = Total(w, good)
    BY <1>1, <1>4 DEF rest
  <2>6. Total(w, SetsData(R)) = Total(w, good)
    BY <1>7 DEF w
  <2>7. QED
    BY <2>3, <2>4, <2>5, <2>6 DEF w
<1>9. gs # <<>> /\ U = <<>> => R # <<>>
  <2>1. SUFFICES ASSUME gs # <<>>, U = <<>> PROVE good # <<>>
    BY <1>6
  <2>2. ToSet(<<>>) = {}
    BY DEF ToSet
  <2>3. bad = {}
    BY <2>1, <2>2 DEF bad
  <2>4. ToSet(gs) # {}
    BY <1>1, <2>1, SetOfList
  <2>5. ToSet(good) # {}
    BY <1>5, <2>3, <2>4
  <2>6. QED
    BY <2>2, <2>5
<1>10. Together(U, SetsData(R), gs)
  BY <1>8 DEF Together
<1>11. GroupingDataSound(gd, query)
  BY <1>1, <1>2, <1>7, <1>9, <1>10 DEF GroupingDataSound, gs
<1>12. QED
  BY <1>11 DEF gd, good, bad, gs, U

------------------------------------------------------------------------------
(* The ways to compute them *)

\* How many sets of these columns a rollup computes.
Weight(X, cols) == [r \in X |-> Total(Like(cols), r.gsets_data)]

LEMMA WeightTyped ==
  ASSUME NEW X, \A r \in X : Faithful(r), NEW cols
  PROVE  Weight(X, cols) \in [X -> Nat] /\ \A r \in X : Weight(X, cols)[r] = Total(Like(cols), r.gsets_data)
<1>1. Like(cols) \in [Lists -> Nat]
  BY LikeTyped
<1>2. \A r \in X : r.gsets_data \in Seq(Lists)
  BY DEF Faithful
<1>3. \A r \in X : Total(Like(cols), r.gsets_data) \in Nat
  BY <1>1, <1>2, TotalType
<1>4. QED
  BY <1>3 DEF Weight

LEMMA DataTotal ==
  ASSUME NEW X, \A r \in X : Faithful(r), NEW R \in Seq(X), NEW cols
  PROVE  SetsData(R) \in Seq(Lists) /\ Total(Like(cols), SetsData(R)) = Total(Weight(X, cols), R)
<1> DEFINE N == Len(R)
           b == [i \in 1..N |-> R[i].gsets_data]
           T == Seq(Lists)
           w == Like(cols)
           v == [t \in T |-> Total(w, t)]
           x == Weight(X, cols)
<1>1. N \in Nat /\ DOMAIN R = 1..N /\ \A i \in 1..N : R[i] \in X
  BY LenProperties, ElementOfSeq
<1>2. \A i \in 1..N : b[i] = R[i].gsets_data /\ b[i] \in T
  BY <1>1 DEF Faithful
<1>3. SetsData(R) = FlattenSeq(b)
  BY <1>1 DEF SetsData
<1>4. b \in [1..N -> T]
  BY <1>2
<1>5. w \in [Lists -> Nat] /\ x \in [X -> Nat] /\ \A r \in X : x[r] = Total(w, r.gsets_data)
  <2>1. Like(cols) \in [Lists -> Nat]
    BY LikeTyped
  <2>2. Weight(X, cols) \in [X -> Nat] /\ \A r \in X : Weight(X, cols)[r] = Total(Like(cols), r.gsets_data)
    BY WeightTyped
  <2>3. QED
    BY <2>1, <2>2
<1> HIDE DEF b, N, w, x
<1>6. b \in Seq(T) /\ Len(b) = N
  BY <1>1, <1>4, FromFunction
<1>7. FlattenSeq(b) \in T /\ Total(w, FlattenSeq(b)) = Total(v, b)
  BY <1>5, <1>6, FlattenIs, TotalFlatten
<1>8. v \in [T -> Nat] /\ \A t \in T : v[t] = Total(w, t)
  <2>1. \A t \in T : Total(w, t) \in Nat
    BY <1>5, TotalType
  <2> HIDE DEF T
  <2>2. QED
    BY <2>1
<1> HIDE DEF v, T
<1>9. ASSUME NEW i \in 1..N PROVE v[b[i]] = x[R[i]]
  <2>1. v[b[i]] = Total(w, R[i].gsets_data)
    BY <1>2, <1>8
  <2>2. x[R[i]] = Total(w, R[i].gsets_data)
    BY <1>1, <1>5
  <2>3. QED
    BY <2>1, <2>2
<1>10. WeighAlike(v, b, x, R)
  <2>1. Len(b) = Len(R)
    BY <1>6 DEF N
  <2>2. \A i \in 1..Len(b) : v[b[i]] = x[R[i]]
    BY <1>6, <1>9
  <2>3. QED
    BY <2>1, <2>2 DEF WeighAlike
<1>11. Total(v, b) = Total(x, R)
  BY <1>5, <1>6, <1>8, <1>10, TotalAlike
<1>12. QED
  BY <1>3, <1>7, <1>11 DEF T, w, x

\* Rollups that compute each of the sets asked for, as often as it is asked for.
Computes(R, sets) ==
  /\ R \in Seq(ToSet(R)) /\ \A i \in 1..Len(R) : Faithful(R[i])
  /\ \A cols : Total(Like(cols), SetsData(R)) = Total(Like(cols), sets)

LEMMA ComputesTimes ==
  ASSUME NEW sets \in Seq(Lists), NEW R, Computes(R, sets), NEW cols \in SUBSET Columns
  PROVE  Times(cols, FlattenSeq([i \in DOMAIN R |-> SetsGrouped(R[i])]))
           = Times(cols, [k \in DOMAIN sets |-> ToSet(sets[k])])
<1> DEFINE N == Len(sets)
           g == [k \in 1..N |-> ToSet(sets[k])]
<1>1. N \in Nat /\ DOMAIN sets = 1..N /\ \A k \in 1..N : sets[k] \in Lists
  BY LenProperties, ElementOfSeq
<1>2. \A k \in 1..N : g[k] = ToSet(sets[k]) /\ g[k] \in SUBSET Columns
  BY <1>1, SetOfList DEF Lists
<1>3. g \in [1..N -> SUBSET Columns] /\ [k \in DOMAIN sets |-> ToSet(sets[k])] = g
  BY <1>1, <1>2
<1> HIDE DEF g, N
<1>4. g \in Seq(SUBSET Columns) /\ Len(g) = N
  BY <1>1, <1>3, FromFunction
<1>5. /\ Same(cols) \in [SUBSET Columns -> Nat] /\ Like(cols) \in [Lists -> Nat]
      /\ \A s \in Lists : Like(cols)[s] = IF ToSet(s) = cols THEN 1 ELSE 0
      /\ \A s \in SUBSET Columns : Same(cols)[s] = IF s = cols THEN 1 ELSE 0
  BY LikeTyped
<1>6. ASSUME NEW k \in 1..N PROVE Same(cols)[g[k]] = Like(cols)[sets[k]]
  <2>1. g[k] = ToSet(sets[k]) /\ g[k] \in SUBSET Columns /\ sets[k] \in Lists
    BY <1>1, <1>2
  <2>2. QED
    BY <1>5, <2>1
<1>7. WeighAlike(Same(cols), g, Like(cols), sets)
  <2>1. Len(g) = Len(sets)
    BY <1>4 DEF N
  <2>2. \A k \in 1..Len(g) : Same(cols)[g[k]] = Like(cols)[sets[k]]
    BY <1>4, <1>6
  <2>3. QED
    BY <2>1, <2>2 DEF WeighAlike
<1>8. Total(Same(cols), g) = Total(Like(cols), sets)
  BY <1>4, <1>5, <1>7, TotalAlike
<1>9. Times(cols, g) = Total(Same(cols), g)
  BY <1>4, TimesIs
<1>10. Times(cols, FlattenSeq([i \in DOMAIN R |-> SetsGrouped(R[i])])) = Total(Like(cols), SetsData(R))
  <2>1. R \in Seq(ToSet(R)) /\ \A i \in 1..Len(R) : Faithful(R[i])
    BY DEF Computes
  <2>2. QED
    BY <2>1, FaithfulTimes
<1>11. Total(Like(cols), SetsData(R)) = Total(Like(cols), sets)
  BY DEF Computes
<1>12. QED
  BY <1>3, <1>8, <1>9, <1>10, <1>11

\* By the rollups of a set X: enough that the sum of their weights is right.
LEMMA ComputesByWeight ==
  ASSUME NEW X, \A r \in X : Faithful(r), NEW R \in Seq(X), NEW sets,
         \A cols : Total(Weight(X, cols), R) = Total(Like(cols), sets)
  PROVE  Computes(R, sets)
<1>1. DOMAIN R = 1..Len(R) /\ Len(R) \in Nat /\ \A i \in 1..Len(R) : R[i] \in X /\ R[i] \in ToSet(R)
  BY LenProperties, ElementOfSeq DEF ToSet
<1>2. R \in Seq(ToSet(R))
  <2>1. R \in [1..Len(R) -> ToSet(R)]
    <3>1. R \in [1..Len(R) -> X]
      BY LenProperties
    <3>2. QED
      BY <1>1, <3>1
  <2>2. QED
    BY <1>1, <2>1, FromFunction
<1>3. \A i \in 1..Len(R) : Faithful(R[i])
  BY <1>1
<1>4. \A cols : Total(Like(cols), SetsData(R)) = Total(Like(cols), sets)
  BY DataTotal
<1>5. QED
  BY <1>2, <1>3, <1>4 DEF Computes

LEMMA HashedAre ==
  ASSUME NEW sets \in Seq(Lists)
  PROVE  /\ HashedRollups(sets) \in Seq(ToSet(HashedRollups(sets))) /\ Len(HashedRollups(sets)) = Len(sets)
         /\ \A r \in ToSet(HashedRollups(sets)) : Faithful(r)
         /\ \A X, cols : HashedRollups(sets) \in Seq(X) /\ (\A r \in X : Faithful(r))
                           => Total(Weight(X, cols), HashedRollups(sets)) = Total(Like(cols), sets)
<1> DEFINE N == Len(sets)
           H == HashedRollups(sets)
           Hashed(i) == Rollup(preprocess_groupclause(sets[i]), <<sets[i]>>, TRUE)
<1>1. N \in Nat /\ DOMAIN sets = 1..N /\ \A i \in 1..N : sets[i] \in Lists
  BY LenProperties, ElementOfSeq
<1>2. H = [i \in 1..N |-> Hashed(i)]
  BY <1>1 DEF HashedRollups
<1>3. \A i \in 1..N : Faithful(Hashed(i)) /\ Hashed(i).gsets_data = <<sets[i]>>
  BY <1>1, HashedFaithful
<1> HIDE DEF Hashed, H, N
<1>4. \A i \in 1..N : H[i] = Hashed(i)
  BY <1>2
<1>5. H \in [1..N -> {H[i] : i \in 1..N}]
  BY <1>2
<1>6. H \in Seq({H[i] : i \in 1..N}) /\ Len(H) = N /\ ToSet(H) = {H[i] : i \in 1..N}
  BY <1>1, <1>5, FromFunction
<1>7. \A r \in ToSet(H) : Faithful(r)
  BY <1>3, <1>4, <1>6
<1>8. ASSUME NEW X, NEW cols, H \in Seq(X), \A r \in X : Faithful(r)
      PROVE  Total(Weight(X, cols), H) = Total(Like(cols), sets)
  <2> DEFINE w == Like(cols)
             x == Weight(X, cols)
  <2>1. w \in [Lists -> Nat] /\ x \in [X -> Nat] /\ \A r \in X : x[r] = Total(w, r.gsets_data)
    BY <1>8, LikeTyped, WeightTyped
  <2> HIDE DEF w, x
  <2>2. ASSUME NEW i \in 1..N PROVE x[H[i]] = w[sets[i]]
    <3>1. H[i] \in X
      BY <1>6, <1>8, ElementOfSeq
    <3>2. x[H[i]] = Total(w, <<sets[i]>>)
      BY <1>3, <1>4, <2>1, <3>1
    <3>3. Total(w, <<sets[i]>>) = w[sets[i]]
      BY <1>1, <2>1, TotalShort
    <3>4. QED
      BY <3>2, <3>3
  <2>3. WeighAlike(x, H, w, sets)
    <3>1. Len(H) = Len(sets)
      BY <1>6 DEF N
    <3>2. \A i \in 1..Len(H) : x[H[i]] = w[sets[i]]
      BY <1>6, <2>2
    <3>3. QED
      BY <3>1, <3>2 DEF WeighAlike
  <2>4. Total(x, H) = Total(w, sets)
    BY <1>8, <2>1, <2>3, TotalAlike
  <2>5. QED
    BY <2>4 DEF w, x
<1>9. H \in Seq(ToSet(H))
  BY <1>6
<1>10. QED
  BY <1>6, <1>7, <1>8, <1>9 DEF H, N

\* Some rollups of a list.
Some(rollups, items) ==
  LET order == InOrder(rollups, items) IN [n \in DOMAIN order |-> rollups[order[n]]]

Places(R) == [i \in 1..Len(R) |-> i]
AtPlaces(R, x) == [i \in 1..Len(R) |-> x[R[i]]]

LEMMA SomeIs ==
  ASSUME NEW X, NEW R \in Seq(X), NEW items \in SUBSET (1..Len(R)), NEW x \in [X -> Nat]
  PROVE  /\ Some(R, items) \in Seq(X)
         /\ Total(x, Some(R, items)) = Total(AtPlaces(R, x), Among(Places(R), items))
<1> DEFINE N == Len(R)
           P == 1..N
           order == InOrder(R, items)
           K == Len(order)
           t == [n \in 1..K |-> R[order[n]]]
           y == AtPlaces(R, x)
<1>1. N \in Nat /\ DOMAIN R = P /\ \A i \in P : R[i] \in X
  BY LenProperties, ElementOfSeq
<1>2. order \in Seq(P)
  BY <1>1, InOrderIs
<1>3. order = Among(Places(R), items)
  BY <1>1 DEF InOrder, Places
<1>4. y \in [P -> Nat] /\ \A i \in P : y[i] = x[R[i]]
  BY <1>1 DEF AtPlaces
<1> HIDE DEF order, P, y
<1>5. K \in Nat /\ DOMAIN order = 1..K /\ \A n \in 1..K : order[n] \in P
  BY <1>2, LenProperties, ElementOfSeq
<1>6. Some(R, items) = t
  BY <1>5 DEF Some, order
<1> HIDE DEF K
<1>7. \A n \in 1..K : t[n] = R[order[n]] /\ t[n] \in X
  BY <1>1, <1>5
<1>8. t \in [1..K -> X]
  BY <1>7
<1> HIDE DEF t
<1>9. t \in Seq(X) /\ Len(t) = K
  BY <1>5, <1>8, FromFunction
<1>10. \A n \in 1..K : x[t[n]] = y[order[n]]
  BY <1>4, <1>5, <1>7
<1>11. WeighAlike(x, t, y, order)
  BY <1>9, <1>10 DEF WeighAlike, K
<1>12. Total(x, t) = Total(y, order)
  BY <1>2, <1>4, <1>9, <1>11, TotalAlike
<1>13. QED
  BY <1>3, <1>6, <1>9, <1>12 DEF y

Divided(x, R, items, rest) == Total(x, R) = Total(x, Some(R, items)) + Total(x, Some(R, rest))

\* Some rollups and the others are all of them.
LEMMA SomeAndOthers ==
  ASSUME NEW X, NEW R \in Seq(X), NEW items \in SUBSET (1..Len(R)), NEW x \in [X -> Nat]
  PROVE  Divided(x, R, items, (1..Len(R)) \ items)
<1> DEFINE P == 1..Len(R)
           id == Places(R)
           y == AtPlaces(R, x)
           rest == P \ items
<1>1. Len(R) \in Nat /\ \A i \in P : R[i] \in X
  BY LenProperties, ElementOfSeq
<1>2. y \in [P -> Nat] /\ \A i \in P : y[i] = x[R[i]]
  BY <1>1 DEF AtPlaces
<1>3. id \in [1..Len(R) -> P] /\ \A i \in P : id[i] = i
  BY DEF Places
<1>4. rest \in SUBSET P /\ items \cap rest = {} /\ P \subseteq items \cup rest
  OBVIOUS
<1>5. Total(x, Some(R, items)) = Total(y, Among(id, items)) /\ Total(x, Some(R, rest)) = Total(y, Among(id, rest))
  <2>1. Total(x, Some(R, items)) = Total(y, Among(id, items))
    BY SomeIs
  <2>2. rest \in SUBSET (1..Len(R))
    BY <1>4
  <2> HIDE DEF rest
  <2>3. Total(x, Some(R, rest)) = Total(y, Among(id, rest))
    BY <2>2, SomeIs
  <2>4. QED
    BY <2>1, <2>3
<1>6. id \in Seq(P) /\ Len(id) = Len(R) /\ ToSet(id) = {id[i] : i \in 1..Len(R)}
  <2> DEFINE N == Len(R)
  <2>1. N \in Nat /\ id \in [1..N -> P]
    BY <1>1, <1>3
  <2> HIDE DEF P, id, N
  <2>2. id \in Seq(P) /\ Len(id) = N /\ ToSet(id) = {id[i] : i \in 1..N}
    BY <2>1, FromFunction
  <2>3. QED
    BY <2>2 DEF N
<1>7. ToSet(id) \subseteq items \cup rest
  BY <1>3, <1>4, <1>6
<1>8. \A i \in 1..Len(id) : y[id[i]] = x[R[i]]
  BY <1>2, <1>3, <1>6
<1> HIDE DEF y, id, rest, P
<1>9. Total(y, Among(id, items \cup rest)) = Total(y, Among(id, items)) + Total(y, Among(id, rest))
  <2>1. id \in Seq(P) /\ y \in [P -> Nat] /\ items \cap rest = {}
    BY <1>2, <1>4, <1>6
  <2>2. SumApart(y, id, items, rest)
    BY <2>1, TotalApart
  <2>3. QED
    BY <2>2 DEF SumApart
<1>10. Total(y, Among(id, items \cup rest)) = Total(y, id)
  BY <1>2, <1>6, <1>7, TotalAll
<1>11. Total(y, id) = Total(x, R)
  <2>1. WeighAlike(y, id, x, R)
    BY <1>6, <1>8 DEF WeighAlike
  <2>2. QED
    BY <1>2, <1>6, <2>1, TotalAlike
<1>12. QED
  <2>1. Divided(x, R, items, rest)
    BY <1>5, <1>9, <1>10, <1>11 DEF Divided
  <2>2. QED
    BY <2>1 DEF rest, P

\* A beginning of a list and the rest are the list.
LEMMA BeginningAndRest ==
  ASSUME NEW X, NEW R \in Seq(X), NEW x \in [X -> Nat]
  PROVE  /\ SubSeq(R, 1, Len(R)) \in Seq(X) /\ Total(x, SubSeq(R, 1, Len(R))) = Total(x, R)
         /\ R # <<>> => /\ SubSeq(R, 2, Len(R)) \in Seq(X) /\ R[1] \in X
                        /\ Total(x, R) = x[R[1]] + Total(x, SubSeq(R, 2, Len(R)))
                        /\ \A i \in 1..Len(SubSeq(R, 2, Len(R))) : \E j \in 2..Len(R) : SubSeq(R, 2, Len(R))[i] = R[j]
<1> DEFINE N == Len(R)
           t == SubSeq(R, 2, N)
<1>1. N \in Nat /\ \A i \in 1..N : R[i] \in X
  BY LenProperties, ElementOfSeq
<1>2. SubSeq(R, 1, N) = R
  <2>1. /\ SubSeq(R, 1, N) \in Seq(X)
        /\ Len(SubSeq(R, 1, N)) = IF 1 <= N THEN N - 1 + 1 ELSE 0
        /\ \A i \in 1..N - 1 + 1 : SubSeq(R, 1, N)[i] = R[1 + i - 1]
    BY <1>1, SubSeqProperties
  <2> HIDE DEF N
  <2>2. Len(SubSeq(R, 1, N)) = N
    BY <1>1, <2>1
  <2>3. \A i \in 1..N : i \in 1..N - 1 + 1 /\ 1 + i - 1 = i
    BY <1>1
  <2>4. \A i \in 1..Len(SubSeq(R, 1, N)) : SubSeq(R, 1, N)[i] = R[i]
    BY <2>1, <2>2, <2>3
  <2>5. Len(SubSeq(R, 1, N)) = Len(R)
    BY <2>2 DEF N
  <2>6. QED
    BY <2>1, <2>4, <2>5, SeqEqual
<1>3. ASSUME R # <<>>
      PROVE  /\ t \in Seq(X) /\ R[1] \in X /\ Total(x, R) = x[R[1]] + Total(x, t)
             /\ \A i \in 1..Len(t) : \E j \in 2..N : t[i] = R[j]
  <2>1. N # 0
    BY <1>3, EmptySeq
  <2>2. /\ t \in Seq(X) /\ Len(t) = IF 2 <= N THEN N - 2 + 1 ELSE 0
        /\ \A i \in 1..N - 2 + 1 : t[i] = R[2 + i - 1]
    <3>1. \A i \in 2..N : R[i] \in X
      <4>1. \A i \in 2..N : i \in 1..N
        BY <1>1
      <4>2. QED
        BY <1>1, <4>1
    <3>2. QED
      BY <1>1, <3>1, SubSeqProperties
  <2> HIDE DEF t, N
  <2>3. Len(t) = N - 1 /\ 1 \in 1..N
    BY <1>1, <2>1, <2>2
  <2>4. \A i \in 1..N - 1 : i \in 1..N - 2 + 1 /\ 2 + i - 1 = i + 1 /\ i + 1 \in 2..N
    BY <1>1, <2>1
  <2>5. \A i \in 1..N - 1 : t[i] = R[i + 1]
    BY <2>2, <2>4
  <2> DEFINE r == <<R[1]>> \o t
  <2>6. R[1] \in X
    BY <1>1, <2>3
  <2>7. r \in Seq(X) /\ Len(r) = Len(t) + 1 /\ r[1] = R[1] /\ \A i \in 1..Len(t) : r[i + 1] = t[i]
    BY <2>2, <2>6, PrependIs
  <2> HIDE DEF r
  <2>8. Len(r) = N /\ \A i \in 1..N : i = 1 \/ (i - 1 \in 1..N - 1 /\ (i - 1) + 1 = i)
    BY <1>1, <2>1, <2>3, <2>7
  <2>9. ASSUME NEW i \in 1..N PROVE r[i] = R[i]
    <3>1. CASE i = 1
      BY <2>7, <3>1
    <3>2. CASE i # 1
      <4>1. i - 1 \in 1..N - 1 /\ (i - 1) + 1 = i
        BY <2>8, <3>2
      <4>2. r[(i - 1) + 1] = t[i - 1] /\ t[i - 1] = R[(i - 1) + 1]
        BY <2>3, <2>5, <2>7, <4>1
      <4>3. QED
        BY <4>1, <4>2
    <3>3. QED
      BY <3>1, <3>2
  <2>10. r = R
    BY <2>7, <2>8, <2>9, SeqEqual DEF N
  <2>11. <<R[1]>> \in Seq(X)
    BY <2>6
  <2>12. Total(x, r) = Total(x, <<R[1]>>) + Total(x, t)
    BY <2>2, <2>11, TotalConcat DEF r
  <2>13. Total(x, <<R[1]>>) = x[R[1]]
    BY <2>6, TotalShort
  <2>14. \A i \in 1..Len(t) : \E j \in 2..N : t[i] = R[j]
    BY <2>3, <2>4, <2>5
  <2>15. QED
    BY <2>2, <2>6, <2>10, <2>12, <2>13, <2>14
<1>4. QED
  BY <1>2, <1>3 DEF t, N

LEMMA Widened ==
  ASSUME NEW S, NEW T, S \subseteq T, NEW s \in Seq(S)
  PROVE  s \in Seq(T)
<1>1. Len(s) \in Nat /\ s \in [1..Len(s) -> S]
  BY LenProperties
<1>2. s \in [1..Len(s) -> T]
  BY <1>1
<1>3. QED
  BY <1>1, <1>2, FromFunction

\* The sets that can only be hashed and those of the rollups make up all.
AddsToAll(X, gd, q) ==
  \A cols : Total(Like(cols), gd.unsortable_sets) + Total(Weight(X, cols), gd.rollups) = Total(Like(cols), q.groupingSets)

LEMMA GroupingDataIs ==
  ASSUME NEW gd, NEW q, GroupingDataSound(gd, q)
  PROVE  /\ gd.rollups \in Seq(ToSet(gd.rollups)) /\ \A r \in ToSet(gd.rollups) : Faithful(r)
         /\ \A i \in 1..Len(gd.rollups) : <<>> \in ToSet(gd.rollups[i].gsets_data) => i = 1
         /\ \A X : ToSet(gd.rollups) \subseteq X /\ (\A r \in X : Faithful(r)) => AddsToAll(X, gd, q)
<1> DEFINE R == gd.rollups
           U == gd.unsortable_sets
<1>1. /\ R \in Seq(ToSet(R))
      /\ \A i \in 1..Len(R) : Faithful(R[i]) /\ (<<>> \in ToSet(R[i].gsets_data) => i = 1)
  BY DEF GroupingDataSound, RollupsFor
<1>2. \A cols : Total(Like(cols), U) + Total(Like(cols), SetsData(R)) = Total(Like(cols), q.groupingSets)
  BY DEF GroupingDataSound, Together
<1> HIDE DEF R, U
<1>3. \A r \in ToSet(R) : Faithful(r)
  <2>1. DOMAIN R = 1..Len(R)
    BY <1>1, LenProperties
  <2>2. QED
    BY <1>1, <2>1 DEF ToSet
<1>4. ASSUME NEW X, ToSet(R) \subseteq X, \A r \in X : Faithful(r)
      PROVE  AddsToAll(X, gd, q)
  <2>1. R \in Seq(X)
    BY <1>1, <1>4, Widened
  <2>2. \A cols : Total(Like(cols), SetsData(R)) = Total(Weight(X, cols), R)
    BY <1>4, <2>1, DataTotal
  <2>3. \A cols : Total(Like(cols), U) + Total(Weight(X, cols), R) = Total(Like(cols), q.groupingSets)
    BY <1>2, <2>2
  <2>4. QED
    BY <2>3 DEF AddsToAll, R, U
<1>5. QED
  BY <1>1, <1>3, <1>4 DEF R

LEMMA SortedWay ==
  ASSUME NEW gd, NEW q, GroupingDataSound(gd, q), gd.unsortable_sets = <<>>
  PROVE  Computes(gd.rollups, q.groupingSets)
<1> DEFINE R == gd.rollups
           X == ToSet(R)
<1>1. R \in Seq(X) /\ (\A r \in X : Faithful(r)) /\ AddsToAll(X, gd, q)
  BY GroupingDataIs
<1>2. ASSUME NEW cols PROVE Total(Weight(X, cols), R) = Total(Like(cols), q.groupingSets)
  <2>1. Total(Like(cols), <<>>) + Total(Weight(X, cols), R) = Total(Like(cols), q.groupingSets)
    BY <1>1 DEF AddsToAll
  <2>2. Total(Like(cols), <<>>) = 0
    <3>1. Like(cols) \in [Lists -> Nat]
      BY LikeTyped
    <3>2. QED
      BY <3>1, TotalShort
  <2>3. Total(Weight(X, cols), R) \in Nat
    <3>1. Weight(X, cols) \in [X -> Nat]
      BY <1>1, WeightTyped
    <3>2. QED
      BY <1>1, <3>1, TotalType
  <2> HIDE DEF R, X
  <2>4. QED
    BY <2>1, <2>2, <2>3
<1> HIDE DEF R, X
<1>3. Computes(R, q.groupingSets)
  BY <1>1, <1>2, ComputesByWeight
<1>4. QED
  BY <1>3 DEF R

\* Some of the rollups by hashing, in any number.
SomeWay(gd, items) ==
  Reverse(HashedRollups(gd.unsortable_sets \o SetsData(Some(gd.rollups, items))))
    \o Some(gd.rollups, (1..Len(gd.rollups)) \ items)

LEMMA SomeWayComputes ==
  ASSUME NEW gd, NEW q, GroupingDataSound(gd, q), NEW items \in SUBSET (1..Len(gd.rollups))
  PROVE  Computes(SomeWay(gd, items), q.groupingSets)
<1> DEFINE R == gd.rollups
           U == gd.unsortable_sets
           rest == (1..Len(R)) \ items
           sets == U \o SetsData(Some(R, items))
           H == HashedRollups(sets)
           X == ToSet(R) \cup ToSet(H)
           way == Reverse(H) \o Some(R, rest)
<1>1. /\ R \in Seq(ToSet(R)) /\ (\A r \in ToSet(R) : Faithful(r)) /\ U \in Seq(Lists)
      /\ items \in SUBSET (1..Len(R)) /\ rest \in SUBSET (1..Len(R))
      /\ \A Y : ToSet(R) \subseteq Y /\ (\A r \in Y : Faithful(r)) => AddsToAll(Y, gd, q)
  BY GroupingDataIs DEF GroupingDataSound
<1>2. SomeWay(gd, items) = way
  BY DEF SomeWay
<1> HIDE DEF R, U, rest
<1>3. Some(R, items) \in Seq(ToSet(R)) /\ Some(R, rest) \in Seq(ToSet(R))
  <2> DEFINE Z == ToSet(R)
             zero == [r \in Z |-> 0]
  <2>1. zero \in [Z -> Nat] /\ R \in Seq(Z)
    BY <1>1
  <2> HIDE DEF zero, Z
  <2>2. Some(R, items) \in Seq(Z) /\ Some(R, rest) \in Seq(Z)
    BY <1>1, <2>1, SomeIs
  <2>3. QED
    BY <2>2 DEF Z
<1>4. SetsData(Some(R, items)) \in Seq(Lists)
  BY <1>1, <1>3, DataTotal
<1>5. sets \in Seq(Lists)
  BY <1>1, <1>4, ConcatProperties
<1>6. /\ H \in Seq(ToSet(H)) /\ \A r \in ToSet(H) : Faithful(r)
      /\ \A Y, cols : H \in Seq(Y) /\ (\A r \in Y : Faithful(r)) => Total(Weight(Y, cols), H) = Total(Like(cols), sets)
  <2> HIDE DEF sets
  <2>1. QED
    BY <1>5, HashedAre
<1>7. (\A r \in X : Faithful(r)) /\ ToSet(R) \subseteq X /\ ToSet(H) \subseteq X
  BY <1>1, <1>6
<1> HIDE DEF H, X, sets
<1>8. H \in Seq(X) /\ R \in Seq(X) /\ Some(R, items) \in Seq(X) /\ Some(R, rest) \in Seq(X)
  BY <1>1, <1>3, <1>6, <1>7, Widened
<1>9. AddsToAll(X, gd, q)
  BY <1>1, <1>7
<1> DEFINE back == Reverse(H)
<1>10. back \in Seq(X)
  <2> DEFINE zero == [r \in X |-> 0]
  <2>1. zero \in [X -> Nat]
    OBVIOUS
  <2> HIDE DEF zero
  <2>2. QED
    BY <1>8, <2>1, TotalReverse
<1>11. ASSUME NEW cols PROVE Total(Weight(X, cols), way) = Total(Like(cols), q.groupingSets)
  <2> DEFINE w == Like(cols)
             x == Weight(X, cols)
             some == Total(x, Some(R, items))
             others == Total(x, Some(R, rest))
  <2>1. w \in [Lists -> Nat] /\ x \in [X -> Nat]
    BY <1>7, LikeTyped, WeightTyped
  <2>2. Total(w, U) + Total(x, R) = Total(w, q.groupingSets)
    BY <1>9 DEF AddsToAll, U, R
  <2>3. Total(w, SetsData(Some(R, items))) = some
    BY <1>7, <1>8, DataTotal
  <2>4. Total(x, H) = Total(w, sets)
    BY <1>6, <1>7, <1>8
  <2> HIDE DEF w, x, back
  <2>5. Total(x, R) = some + others
    <3>1. Divided(x, R, items, rest)
      BY <1>1, <1>8, <2>1, SomeAndOthers DEF rest
    <3>2. QED
      BY <3>1 DEF Divided
  <2>6. Total(x, back) = Total(x, H)
    BY <1>8, <2>1, TotalReverse DEF back
  <2>7. Total(w, sets) = Total(w, U) + Total(w, SetsData(Some(R, items)))
    BY <1>1, <1>4, <2>1, TotalConcat DEF sets
  <2>8. Total(x, back \o Some(R, rest)) = Total(x, back) + others
    BY <1>8, <1>10, <2>1, TotalConcat
  <2>9. Total(w, U) \in Nat /\ some \in Nat /\ others \in Nat
    BY <1>1, <1>8, <2>1, TotalType
  <2> HIDE DEF some, others
  <2>10. Total(x, back \o Some(R, rest)) = Total(w, q.groupingSets)
    BY <2>2, <2>3, <2>4, <2>5, <2>6, <2>7, <2>8, <2>9
  <2>11. QED
    BY <2>10 DEF w, x, back
<1>12. way \in Seq(X)
  BY <1>8, <1>10, ConcatProperties
<1> HIDE DEF way
<1>13. Computes(way, q.groupingSets)
  BY <1>7, <1>11, <1>12, ComputesByWeight
<1>14. QED
  BY <1>2, <1>13

\* Each of the ways that hash some of the rollups.
LEMMA SomeWays ==
  ASSUME NEW q, GroupingDataSound(root.gset_data, q), NEW r \in SomeHashed
  PROVE  Computes(r, q.groupingSets)
<1> DEFINE gd == root.gset_data
           R == gd.rollups
           hashable == {i \in 2..Len(R) : R[i].hashable}
<1>1. Len(R) \in Nat /\ DOMAIN R = 1..Len(R)
  BY GroupingDataIs, LenProperties
<1>2. PICK items \in SUBSET hashable : r = SomeWay(gd, items)
  BY <1>1 DEF SomeHashed, SomeWay, Some
<1>3. items \in SUBSET (1..Len(gd.rollups))
  BY <1>1
<1>4. QED
  BY <1>2, <1>3, SomeWayComputes

\* The empty sets and the others are all.
LEMMA EmptyApart ==
  ASSUME NEW sets \in Seq(Lists)
  PROVE  /\ Among(sets, {<<>>}) \in Seq(Lists) /\ ToSet(Among(sets, {<<>>})) = ToSet(sets) \cap {<<>>}
         /\ Without(sets, {<<>>}) \in Seq(Lists)
         /\ Together(Among(sets, {<<>>}), Without(sets, {<<>>}), sets)
<1> DEFINE A == {<<>>}
           B == ToSet(sets) \ A
<1>1. Without(sets, A) = Among(sets, B)
  BY DEF Without
<1>2. Without(sets, A) \in Seq(Lists) /\ Among(sets, A) \in Seq(Lists) /\ ToSet(Among(sets, A)) = ToSet(sets) \cap A
  BY WithoutIs, AmongIs
<1>3. A \cap B = {} /\ ToSet(sets) \subseteq A \cup B
  OBVIOUS
<1> HIDE DEF A, B
<1>4. ASSUME NEW cols
      PROVE  Total(Like(cols), Among(sets, A)) + Total(Like(cols), Without(sets, A)) = Total(Like(cols), sets)
  <2> DEFINE w == Like(cols)
  <2>1. w \in [Lists -> Nat]
    BY LikeTyped
  <2> HIDE DEF w
  <2>2. SumApart(w, sets, A, B)
    BY <1>3, <2>1, TotalApart
  <2>3. Total(w, Among(sets, A \cup B)) = Total(w, sets)
    BY <1>3, <2>1, TotalAll
  <2>4. QED
    BY <1>1, <2>2, <2>3 DEF SumApart, w
<1>5. QED
  BY <1>2, <1>4 DEF Together, A

\* One rollup stands for its own sets.
LEMMA OneRollup ==
  ASSUME NEW r, Faithful(r), NEW cols
  PROVE  <<r>> \in Seq({r}) /\ Total(Like(cols), SetsData(<<r>>)) = Total(Like(cols), r.gsets_data)
<1> DEFINE X == {r}
           x == Weight(X, cols)
<1>1. <<r>> \in Seq(X) /\ r \in X /\ \A e \in X : Faithful(e)
  OBVIOUS
<1> HIDE DEF X
<1>2. x \in [X -> Nat] /\ x[r] = Total(Like(cols), r.gsets_data)
  BY <1>1, WeightTyped
<1>3. Total(Like(cols), SetsData(<<r>>)) = Total(x, <<r>>)
  BY <1>1, DataTotal
<1> HIDE DEF x
<1>4. Total(x, <<r>>) = x[r]
  BY <1>1, <1>2, TotalShort
<1>5. QED
  BY <1>1, <1>2, <1>3, <1>4 DEF X

\* Sets that are hashed, each on its own, and rollups for the rest.
LEMMA HashedWithRest ==
  ASSUME NEW sets \in Seq(Lists), NEW rest, rest \in Seq(ToSet(rest)), \A r \in ToSet(rest) : Faithful(r),
         NEW all, Together(sets, SetsData(rest), all)
  PROVE  Computes(HashedRollups(sets) \o rest, all)
<1> DEFINE H == HashedRollups(sets)
           X == ToSet(H) \cup ToSet(rest)
<1>1. /\ H \in Seq(ToSet(H)) /\ \A r \in ToSet(H) : Faithful(r)
      /\ \A Y, cols : H \in Seq(Y) /\ (\A r \in Y : Faithful(r)) => Total(Weight(Y, cols), H) = Total(Like(cols), sets)
  BY HashedAre
<1> HIDE DEF H
<1>2. (\A r \in X : Faithful(r)) /\ ToSet(H) \subseteq X /\ ToSet(rest) \subseteq X
  BY <1>1
<1> HIDE DEF X
<1>3. H \in Seq(X) /\ rest \in Seq(X)
  BY <1>1, <1>2, Widened
<1>4. ASSUME NEW cols PROVE Total(Weight(X, cols), H \o rest) = Total(Like(cols), all)
  <2> DEFINE w == Like(cols)
             x == Weight(X, cols)
  <2>1. x \in [X -> Nat]
    BY <1>2, WeightTyped
  <2>2. Total(x, H) = Total(w, sets)
    BY <1>1, <1>2, <1>3
  <2>3. Total(w, SetsData(rest)) = Total(x, rest)
    BY <1>2, <1>3, DataTotal
  <2>4. Total(w, sets) + Total(w, SetsData(rest)) = Total(w, all)
    BY DEF Together
  <2> HIDE DEF w, x
  <2>5. Total(x, H \o rest) = Total(x, H) + Total(x, rest)
    BY <1>3, <2>1, TotalConcat
  <2>6. QED
    BY <2>2, <2>3, <2>4, <2>5 DEF w, x
<1>5. H \o rest \in Seq(X)
  BY <1>3, ConcatProperties
<1> DEFINE way == H \o rest
<1> HIDE DEF way
<1>6. way \in Seq(X) /\ \A cols : Total(Weight(X, cols), way) = Total(Like(cols), all)
  BY <1>4, <1>5 DEF way
<1>7. Computes(way, all)
  BY <1>2, <1>6, ComputesByWeight
<1>8. QED
  BY <1>7 DEF way, H

\* All sets, and all but those of the first rollup.
LEMMA SetsOfAll ==
  ASSUME NEW gd, NEW q, GroupingDataSound(gd, q)
  PROVE  LET sets == gd.unsortable_sets \o SetsData(SubSeq(gd.rollups, 1, Len(gd.rollups)))
         IN sets \in Seq(Lists) /\ \A cols : Total(Like(cols), sets) = Total(Like(cols), q.groupingSets)
<1> DEFINE R == gd.rollups
           U == gd.unsortable_sets
           X == ToSet(R)
           t == SubSeq(R, 1, Len(R))
<1>1. R \in Seq(X) /\ (\A r \in X : Faithful(r)) /\ AddsToAll(X, gd, q) /\ U \in Seq(Lists)
  BY GroupingDataIs DEF GroupingDataSound
<1> HIDE DEF R, U, X
<1>2. t \in Seq(X) /\ \A cols : Total(Weight(X, cols), t) = Total(Weight(X, cols), R)
  <2>1. ASSUME NEW cols PROVE t \in Seq(X) /\ Total(Weight(X, cols), t) = Total(Weight(X, cols), R)
    <3>1. Weight(X, cols) \in [X -> Nat]
      BY <1>1, WeightTyped
    <3>2. QED
      BY <1>1, <3>1, BeginningAndRest
  <2>2. QED
    BY <2>1
<1> HIDE DEF t
<1>3. SetsData(t) \in Seq(Lists)
  BY <1>1, <1>2, DataTotal
<1>4. ASSUME NEW cols PROVE Total(Like(cols), U \o SetsData(t)) = Total(Like(cols), q.groupingSets)
  <2> DEFINE w == Like(cols)
             x == Weight(X, cols)
  <2>1. w \in [Lists -> Nat]
    BY LikeTyped
  <2>2. Total(w, SetsData(t)) = Total(x, t) /\ Total(x, t) = Total(x, R)
    BY <1>1, <1>2, DataTotal
  <2>3. Total(w, U) + Total(x, R) = Total(w, q.groupingSets)
    BY <1>1 DEF AddsToAll, U, R
  <2> HIDE DEF w, x
  <2>4. Total(w, U \o SetsData(t)) = Total(w, U) + Total(w, SetsData(t))
    BY <1>1, <1>3, <2>1, TotalConcat
  <2>5. QED
    BY <2>2, <2>3, <2>4 DEF w
<1>5. U \o SetsData(t) \in Seq(Lists)
  BY <1>1, <1>3, ConcatProperties
<1>6. QED
  BY <1>4, <1>5 DEF U, t, R

LEMMA SetsAfterFirst ==
  ASSUME NEW gd, NEW q, GroupingDataSound(gd, q), gd.rollups # <<>>
  PROVE  LET sets == gd.unsortable_sets \o SetsData(SubSeq(gd.rollups, 2, Len(gd.rollups)))
         IN /\ sets \in Seq(Lists) /\ <<>> \notin ToSet(sets)
            /\ Faithful(gd.rollups[1]) /\ Together(sets, gd.rollups[1].gsets_data, q.groupingSets)
<1> DEFINE R == gd.rollups
           U == gd.unsortable_sets
           X == ToSet(R)
           t == SubSeq(R, 2, Len(R))
           T == Seq(Lists)
           b == [i \in DOMAIN t |-> t[i].gsets_data]
<1>1. /\ R \in Seq(X) /\ (\A r \in X : Faithful(r)) /\ AddsToAll(X, gd, q)
      /\ U \in T /\ \A s \in ToSet(U) : ToSet(s) # {}
      /\ \A i \in 1..Len(R) : <<>> \in ToSet(R[i].gsets_data) => i = 1
  BY GroupingDataIs DEF GroupingDataSound
<1>2. R # <<>>
  OBVIOUS
<1> HIDE DEF R, U, X
<1>3. /\ t \in Seq(X) /\ R[1] \in X
      /\ \A cols : Total(Weight(X, cols), R) = Weight(X, cols)[R[1]] + Total(Weight(X, cols), t)
      /\ \A i \in 1..Len(t) : \E j \in 2..Len(R) : t[i] = R[j]
  <2>1. ASSUME NEW cols
        PROVE  /\ t \in Seq(X) /\ R[1] \in X
               /\ Total(Weight(X, cols), R) = Weight(X, cols)[R[1]] + Total(Weight(X, cols), t)
               /\ \A i \in 1..Len(t) : \E j \in 2..Len(R) : t[i] = R[j]
    <3> DEFINE x == Weight(X, cols)
    <3>1. x \in [X -> Nat]
      BY <1>1, WeightTyped
    <3> HIDE DEF x
    <3>2. /\ t \in Seq(X) /\ R[1] \in X
          /\ Total(x, R) = x[R[1]] + Total(x, t)
          /\ \A i \in 1..Len(t) : \E j \in 2..Len(R) : t[i] = R[j]
      BY <1>1, <1>2, <3>1, BeginningAndRest
    <3>3. QED
      BY <3>2 DEF x
  <2>2. QED
    BY <2>1
<1> HIDE DEF t
<1>4. SetsData(t) \in Seq(Lists)
  BY <1>1, <1>3, DataTotal
<1>5. DOMAIN t = 1..Len(t) /\ Len(t) \in Nat /\ \A i \in 1..Len(t) : t[i] \in X
  BY <1>3, LenProperties, ElementOfSeq
<1>6. \A i \in 1..Len(t) : t[i].gsets_data \in T /\ <<>> \notin ToSet(t[i].gsets_data)
  <2>1. ASSUME NEW i \in 1..Len(t) PROVE t[i].gsets_data \in T /\ <<>> \notin ToSet(t[i].gsets_data)
    <3>1. PICK j \in 2..Len(R) : t[i] = R[j]
      BY <1>3
    <3>2. j \in 1..Len(R) /\ j # 1
      <4>1. Len(R) \in Nat
        BY <1>1, LenProperties
      <4>2. QED
        BY <4>1
    <3>3. QED
      BY <1>1, <1>5, <3>1, <3>2 DEF Faithful
  <2>2. QED
    BY <2>1
<1>7. <<>> \notin ToSet(SetsData(t))
  <2> DEFINE m == Len(t)
  <2>1. b \in [1..m -> T] /\ DOMAIN b = 1..m /\ \A i \in 1..m : b[i] = t[i].gsets_data
    BY <1>5, <1>6
  <2>2. SetsData(t) = FlattenSeq(b)
    BY DEF SetsData
  <2> HIDE DEF b, T
  <2>3. b \in Seq(T)
    <3>1. m \in Nat
      BY <1>5
    <3> HIDE DEF m
    <3>2. QED
      BY <2>1, <3>1, FromFunction
  <2>4. ToSet(FlattenSeq(b)) = UNION {ToSet(b[i]) : i \in DOMAIN b}
    BY <2>3, FlattenIs DEF T
  <2>5. QED
    BY <1>6, <2>1, <2>2, <2>4
<1>8. <<>> \notin ToSet(U)
  <2>1. ToSet(<<>>) = {}
    BY DEF ToSet
  <2>2. QED
    BY <1>1, <2>1
<1>9. ASSUME NEW cols
      PROVE  Total(Like(cols), U \o SetsData(t)) + Total(Like(cols), R[1].gsets_data) = Total(Like(cols), q.groupingSets)
  <2> DEFINE w == Like(cols)
             x == Weight(X, cols)
             first == Total(w, R[1].gsets_data)
  <2>1. w \in [Lists -> Nat]
    BY LikeTyped
  <2>2. Total(w, SetsData(t)) = Total(x, t) /\ x[R[1]] = first /\ x \in [X -> Nat]
    <3>1. Total(w, SetsData(t)) = Total(x, t)
      BY <1>1, <1>3, DataTotal
    <3>2. x \in [X -> Nat] /\ \A r \in X : x[r] = Total(w, r.gsets_data)
      BY <1>1, WeightTyped
    <3>3. QED
      BY <1>3, <3>1, <3>2
  <2>3. Total(w, U) + Total(x, R) = Total(w, q.groupingSets)
    BY <1>1 DEF AddsToAll, U, R
  <2>4. Total(x, R) = x[R[1]] + Total(x, t)
    BY <1>3
  <2> HIDE DEF w, x, T
  <2>5. Total(w, U \o SetsData(t)) = Total(w, U) + Total(w, SetsData(t))
    BY <1>1, <1>4, <2>1, TotalConcat DEF T
  <2>6. Total(w, U) \in Nat /\ Total(x, t) \in Nat /\ x[R[1]] \in Nat
    BY <1>1, <1>3, <2>1, <2>2, TotalType DEF T
  <2> HIDE DEF first
  <2>7. Total(w, U \o SetsData(t)) + first = Total(w, q.groupingSets)
    BY <2>2, <2>3, <2>4, <2>5, <2>6
  <2>8. QED
    BY <2>7 DEF w, first
<1>10. U \o SetsData(t) \in Seq(Lists) /\ ToSet(U \o SetsData(t)) = ToSet(U) \cup ToSet(SetsData(t))
  BY <1>1, <1>4, ConcatSet
<1>11. Together(U \o SetsData(t), R[1].gsets_data, q.groupingSets)
  BY <1>9 DEF Together
<1>12. QED
  BY <1>1, <1>3, <1>7, <1>8, <1>10, <1>11 DEF U, t, R

\* Each of the ways that hash all sets, the empty ones apart.
LEMMA AllWays ==
  ASSUME NEW q, GroupingDataSound(root.gset_data, q), NEW r \in AllHashed(<<>>)
  PROVE  Computes(r, q.groupingSets)
<1> DEFINE R == root.gset_data.rollups
           sets == root.gset_data.unsortable_sets \o SetsData(SubSeq(R, 1, Len(R)))
           empty == Among(sets, {<<>>})
           others == Without(sets, {<<>>})
           plain == Rollup(<<>>, empty, FALSE)
           rest == IF empty = <<>> THEN <<>> ELSE <<plain>>
<1>1. Len(<<>>) + 1 = 1
  BY EmptySeq
<1>2. r = HashedRollups(others) \o rest
  BY <1>1 DEF AllHashed
<1>3. sets \in Seq(Lists) /\ \A cols : Total(Like(cols), sets) = Total(Like(cols), q.groupingSets)
  BY SetsOfAll
<1> HIDE DEF sets, R
<1>4. /\ empty \in Seq(Lists) /\ ToSet(empty) \subseteq {<<>>} /\ others \in Seq(Lists)
      /\ Together(empty, others, sets)
  BY <1>3, EmptyApart
<1> HIDE DEF empty, others, plain
<1>5. Faithful(plain) /\ plain.gsets_data = empty
  <2>1. \A k \in 1..Len(empty) : Begins(empty[k], <<>>)
    <3>1. ASSUME NEW k \in 1..Len(empty) PROVE Begins(empty[k], <<>>)
      <4>1. empty[k] = <<>>
        BY <1>4, LenProperties DEF ToSet
      <4>2. Len(<<>>) = 0
        BY EmptySeq
      <4>3. QED
        BY <4>1, <4>2 DEF Begins
    <3>2. QED
      BY <3>1
  <2>2. <<>> \in Lists
    BY DEF Lists
  <2>3. QED
    BY <1>4, <2>1, <2>2, RollupFaithful DEF plain
<1>6. rest \in Seq(ToSet(rest)) /\ \A e \in ToSet(rest) : Faithful(e)
  <2>1. CASE empty = <<>>
    <3>1. rest = <<>> /\ ToSet(<<>>) = {}
      BY <2>1 DEF ToSet
    <3> HIDE DEF rest
    <3>2. ToSet(rest) = {} /\ rest \in Seq({})
      BY <3>1, EmptySeq
    <3>3. QED
      BY <3>2
  <2>2. CASE empty # <<>>
    <3>1. rest = <<plain>> /\ ToSet(<<plain>>) = {plain} /\ <<plain>> \in Seq({plain})
      BY <2>2 DEF ToSet
    <3> HIDE DEF rest
    <3>2. ToSet(rest) = {plain} /\ rest \in Seq({plain})
      BY <3>1
    <3>3. QED
      BY <1>5, <3>2
  <2>3. QED
    BY <2>1, <2>2
<1>7. ASSUME NEW cols
      PROVE  Total(Like(cols), others) + Total(Like(cols), SetsData(rest)) = Total(Like(cols), q.groupingSets)
  <2> DEFINE w == Like(cols)
  <2>1. w \in [Lists -> Nat]
    BY LikeTyped
  <2>2. Total(w, SetsData(rest)) = Total(w, empty)
    <3>1. CASE empty = <<>>
      <4>1. SetsData(<<>>) = <<>>
        BY DEF SetsData, FlattenSeq
      <4>2. rest = <<>>
        BY <3>1
      <4>3. QED
        BY <3>1, <4>1, <4>2
    <3>2. CASE empty # <<>>
      BY <1>5, <3>2, OneRollup
    <3>3. QED
      BY <3>1, <3>2
  <2>3. Total(w, empty) + Total(w, others) = Total(w, sets)
    BY <1>4 DEF Together
  <2>4. Total(w, sets) = Total(w, q.groupingSets)
    BY <1>3
  <2> HIDE DEF w, rest
  <2>5. Total(w, empty) \in Nat /\ Total(w, others) \in Nat
    BY <1>4, <2>1, TotalType
  <2>6. Total(w, others) + Total(w, SetsData(rest)) = Total(w, q.groupingSets)
    BY <2>2, <2>3, <2>4, <2>5
  <2>7. QED
    BY <2>6 DEF w
<1> HIDE DEF rest
<1>8. Together(others, SetsData(rest), q.groupingSets)
  BY <1>7 DEF Together
<1>9. Computes(HashedRollups(others) \o rest, q.groupingSets)
  BY <1>4, <1>6, <1>8, HashedWithRest
<1>10. QED
  BY <1>2, <1>9

\* The first rollup, for which the input is sorted, and all other sets by hashing.
LEMMA AllButFirstWays ==
  ASSUME NEW q, GroupingDataSound(root.gset_data, q), root.gset_data.rollups # <<>>,
         NEW r \in AllHashed(<<root.gset_data.rollups[1]>>)
  PROVE  Computes(r, q.groupingSets)
<1> DEFINE R == root.gset_data.rollups
           sets == root.gset_data.unsortable_sets \o SetsData(SubSeq(R, 2, Len(R)))
           others == Without(sets, {<<>>})
           first == R[1]
           rest == <<first>>
<1>1. Len(<<first>>) + 1 = 2
  OBVIOUS
<1>2. r = HashedRollups(others) \o rest
  <2>1. rest # <<>>
    OBVIOUS
  <2>2. QED
    BY <1>1, <2>1 DEF AllHashed
<1>3. /\ sets \in Seq(Lists) /\ <<>> \notin ToSet(sets)
      /\ Faithful(first) /\ Together(sets, first.gsets_data, q.groupingSets)
  BY SetsAfterFirst
<1> HIDE DEF sets, R, first
<1>4. others \in Seq(Lists)
  BY <1>3, EmptyApart
<1>5. \A cols : Total(Like(cols), others) = Total(Like(cols), sets)
  <2>1. ASSUME NEW cols PROVE Total(Like(cols), others) = Total(Like(cols), sets)
    <3>1. Like(cols) \in [Lists -> Nat]
      BY LikeTyped
    <3>2. ToSet(sets) \ {<<>>} = ToSet(sets)
      BY <1>3
    <3>3. others = Among(sets, ToSet(sets))
      BY <3>2 DEF Without
    <3>4. QED
      BY <1>3, <3>1, <3>3, TotalAll
  <2>2. QED
    BY <2>1
<1>6. rest \in Seq(ToSet(rest)) /\ \A e \in ToSet(rest) : Faithful(e)
  <2>1. ToSet(<<first>>) = {first}
    BY DEF ToSet
  <2>2. QED
    BY <1>3, <2>1
<1> HIDE DEF others
<1>7. ASSUME NEW cols
      PROVE  Total(Like(cols), others) + Total(Like(cols), SetsData(rest)) = Total(Like(cols), q.groupingSets)
  <2>1. Total(Like(cols), SetsData(rest)) = Total(Like(cols), first.gsets_data)
    BY <1>3, OneRollup
  <2>2. Total(Like(cols), sets) + Total(Like(cols), first.gsets_data) = Total(Like(cols), q.groupingSets)
    BY <1>3 DEF Together
  <2>3. Total(Like(cols), others) = Total(Like(cols), sets)
    BY <1>5
  <2> HIDE DEF rest
  <2>4. QED
    BY <2>1, <2>2, <2>3
<1> HIDE DEF rest
<1>8. Together(others, SetsData(rest), q.groupingSets)
  BY <1>7 DEF Together
<1>9. Computes(HashedRollups(others) \o rest, q.groupingSets)
  BY <1>4, <1>6, <1>8, HashedWithRest
<1>10. QED
  BY <1>2, <1>9

------------------------------------------------------------------------------
(* What is refused *)

\* What preprocessing makes of a statement.
RootSound(r, q) ==
  /\ GroupingDataSound(r.gset_data, q)
  /\ ToSet(r.groupClause) = ToSet(q.groupClause)
  /\ \A w \in ToSet(r.activeWindows) : w \in ToSet(q.windows) /\ w.used

NeitherWay(cols) == ~grouping_is_sortable(cols) /\ (~grouping_is_hashable(cols) \/ query.orderedAggs)
Impossible ==
  \E cols \in ToSet(query.groupingSets) \cup (IF query.groupingSets = <<>> THEN {query.groupClause} ELSE {}) : NeitherWay(cols)

LEMMA SomePathSorted ==
  ASSUME NEW p, NEW keys
  PROVE  SortedPaths(p, keys) # {}
BY DEF SortedPaths

\* Without grouping sets, a path is found unless the columns of GROUP BY can neither be sorted nor hashed.
LEMMA PlainRefused ==
  ASSUME RootSound(root, query), query.groupingSets = <<>>, AggPaths(path, TRUE) = {}
  PROVE  Impossible
<1>1. ~can_sort
  <2>1. PICK s \in SortedPaths(path, root.group_pathkeys) : TRUE
    BY SomePathSorted
  <2>2. can_sort => create_sorted_agg_path(s, root.groupClause, TRUE) \in AggPaths(path, TRUE)
    BY <2>1 DEF AggPaths
  <2>3. QED
    BY <2>2
<1>2. ~can_hash
  <2>1. can_hash => create_hashed_agg_path(path, root.groupClause, TRUE) \in AggPaths(path, TRUE)
    BY DEF AggPaths
  <2>2. QED
    BY <2>1
<1>3. ToSet(root.groupClause) = ToSet(query.groupClause)
  BY DEF RootSound
<1>4. ~grouping_is_sortable(query.groupClause)
  BY <1>1, <1>3 DEF can_sort, grouping_is_sortable
<1>5. query.groupClause # <<>>
  <2>1. ToSet(<<>>) = {}
    BY DEF ToSet
  <2>2. QED
    BY <1>4, <2>1 DEF grouping_is_sortable
<1>6. ~grouping_is_hashable(query.groupClause) \/ query.orderedAggs
  BY <1>2, <1>3, <1>5 DEF can_hash, grouping_is_hashable
<1>7. QED
  BY <1>4, <1>6 DEF Impossible, NeitherWay

\* With a set that can only be hashed, some way to hash it is found.
LEMMA HashingFound ==
  ASSUME NEW q, GroupingDataSound(root.gset_data, q), root.gset_data.unsortable_sets # <<>>
  PROVE  /\ root.gset_data.rollups # <<>> => SomeHashed # {}
         /\ root.gset_data.rollups = <<>> => AllHashed(<<>>) # {}
<1> DEFINE gd == root.gset_data
           R == gd.rollups
           U == gd.unsortable_sets
           X == ToSet(R)
<1>1. /\ R \in Seq(X) /\ (\A r \in X : Faithful(r))
      /\ U \in Seq(Lists) /\ U # <<>> /\ \A s \in ToSet(U) : ToSet(s) # {}
  BY GroupingDataIs DEF GroupingDataSound
<1>2. Len(R) \in Nat /\ DOMAIN R = 1..Len(R) /\ Len(U) \in Nat \ {0}
  BY <1>1, LenProperties, EmptySeq
<1>3. SomeHashed # {}
  <2> DEFINE none == Some(R, {})
             sets == U \o SetsData(none)
             hashable == {i \in 2..Len(R) : R[i].hashable}
  <2>1. none \in Seq(X)
    <3> DEFINE zero == [r \in X |-> 0]
    <3>1. zero \in [X -> Nat] /\ {} \in SUBSET (1..Len(R))
      OBVIOUS
    <3> HIDE DEF zero, R, X
    <3>2. QED
      BY <1>1, <3>1, SomeIs
  <2>2. SetsData(none) \in Seq(Lists)
    <3> HIDE DEF none, R, X
    <3>1. QED
      BY <1>1, <2>1, DataTotal
  <2>3. sets # <<>>
    <3> HIDE DEF none, U
    <3>1. sets \in Seq(Lists) /\ Len(sets) = Len(U) + Len(SetsData(none)) /\ Len(SetsData(none)) \in Nat
      BY <1>1, <2>2, ConcatProperties, LenProperties
    <3>2. Len(<<>>) = 0
      BY EmptySeq
    <3> HIDE DEF sets
    <3>3. QED
      BY <1>2, <3>1, <3>2
  <2>4. {} \in SUBSET hashable
    OBVIOUS
  <2>5. Reverse(HashedRollups(sets)) \o Some(R, DOMAIN R \ {}) \in SomeHashed
    BY <2>3, <2>4 DEF SomeHashed, Some
  <2>6. QED
    BY <2>5
<1>4. ASSUME R = <<>> PROVE AllHashed(<<>>) # {}
  <2> DEFINE t == SubSeq(R, 1, Len(R))
             sets == U \o SetsData(t)
             H == HashedRollups(Without(sets, {<<>>}))
             empty == Among(sets, {<<>>})
             rest == IF empty = <<>> THEN <<>> ELSE <<Rollup(<<>>, empty, FALSE)>>
  <2>1. sets \in Seq(Lists) /\ SetsData(t) \in Seq(Lists) /\ \A i \in DOMAIN t : FALSE
    <3>1. X = {}
      BY <1>4 DEF ToSet
    <3>2. t \in Seq(X)
      <4> DEFINE zero == [r \in X |-> 0]
      <4>1. zero \in [X -> Nat]
        OBVIOUS
      <4> HIDE DEF zero, R, X
      <4>2. QED
        BY <1>1, <4>1, BeginningAndRest
    <3> HIDE DEF t, X
    <3>3. DOMAIN t = 1..Len(t) /\ \A i \in 1..Len(t) : t[i] \in X
      BY <3>2, LenProperties, ElementOfSeq
    <3>4. SetsData(t) \in Seq(Lists)
      BY <1>1, <3>2, DataTotal
    <3>5. QED
      BY <1>1, <3>1, <3>3, <3>4, ConcatProperties
  <2>2. U[1] \in ToSet(sets) /\ U[1] # <<>>
    <3> HIDE DEF U, t
    <3>1. 1 \in 1..Len(U)
      BY <1>2
    <3>2. U[1] \in ToSet(U)
      BY <1>1, <3>1, LenProperties DEF ToSet
    <3>3. ToSet(sets) = ToSet(U) \cup ToSet(SetsData(t))
      BY <1>1, <2>1, ConcatSet
    <3>4. ToSet(<<>>) = {}
      BY DEF ToSet
    <3>5. QED
      BY <1>1, <3>2, <3>3, <3>4
  <2>3. H # <<>>
    <3> HIDE DEF sets
    <3>1. Without(sets, {<<>>}) \in Seq(Lists) /\ ToSet(Without(sets, {<<>>})) = ToSet(sets) \ {<<>>}
      BY <2>1, WithoutIs
    <3> DEFINE others == Without(sets, {<<>>})
    <3>2. others \in Seq(Lists) /\ ToSet(others) # {}
      BY <2>2, <3>1
    <3> HIDE DEF others
    <3>3. others # <<>> /\ Len(others) \in Nat \ {0}
      BY <3>2, SetOfList, EmptySeq
    <3>4. Len(HashedRollups(others)) = Len(others)
      BY <3>2, HashedAre
    <3>5. Len(<<>>) = 0
      BY EmptySeq
    <3>6. HashedRollups(others) # <<>>
      BY <3>3, <3>4, <3>5
    <3>7. QED
      BY <3>6 DEF others
  <2>4. Len(<<>>) + 1 = 1
    BY EmptySeq
  <2>5. H \o rest \in AllHashed(<<>>)
    <3>1. ~(H = <<>> \/ \E i \in DOMAIN t : ~t[i].hashable)
      BY <2>1, <2>3
    <3>2. QED
      BY <2>4, <3>1 DEF AllHashed
  <2>6. QED
    BY <2>5
<1>5. QED
  BY <1>3, <1>4

\* With grouping sets, a path is found unless some set can neither be sorted nor hashed.
LEMMA SetsRefused ==
  ASSUME query \in Queries, RootSound(root, query), query.groupingSets # <<>>, add_paths_to_grouping_rel(path) = {}
  PROVE  Impossible
<1> DEFINE gd == root.gset_data
           R == gd.rollups
           U == gd.unsortable_sets
<1>1. GroupingDataSound(gd, query)
  BY DEF RootSound
<1>2. /\ U \in Seq(Lists) /\ (U = <<>> => R # <<>>) /\ (U # <<>> => gd.any_hashable)
      /\ \A s \in ToSet(U) : s \in ToSet(query.groupingSets) /\ ToSet(s) \cap query.unsortable # {}
  BY <1>1 DEF GroupingDataSound
<1>3. PICK sorted \in SortedPaths(path, root.group_pathkeys) : TRUE
  BY SomePathSorted
<1>4. can_sort => consider_groupingsets_paths(sorted, TRUE) = {}
  BY <1>3 DEF add_paths_to_grouping_rel
<1>5. can_hash => consider_groupingsets_paths(path, FALSE) = {}
  BY DEF add_paths_to_grouping_rel
<1>6. U # <<>>
  <2>1. SUFFICES ASSUME U = <<>> PROVE FALSE
    OBVIOUS
  <2>2. R # <<>> /\ can_sort
    BY <1>2, <2>1 DEF can_sort
  <2>3. create_groupingsets_path(sorted, "sorted", R) \in consider_groupingsets_paths(sorted, TRUE)
    BY <2>1, <2>2 DEF consider_groupingsets_paths
  <2>4. QED
    BY <1>4, <2>2, <2>3
<1> DEFINE s == U[1]
<1>7. s \in ToSet(query.groupingSets) /\ ToSet(s) \cap query.unsortable # {}
  <2> HIDE DEF U
  <2>1. Len(U) \in Nat \ {0} /\ DOMAIN U = 1..Len(U)
    BY <1>2, <1>6, EmptySeq, LenProperties
  <2>2. s \in ToSet(U)
    BY <2>1 DEF ToSet
  <2>3. QED
    BY <1>2, <2>2
<1> HIDE DEF s
<1>8. CASE query.orderedAggs
  BY <1>7, <1>8 DEF Impossible, NeitherWay, grouping_is_sortable
<1>9. CASE ~query.orderedAggs
  <2>1. query.groupClause # <<>>
    <3>1. ToSet(s) \subseteq ToSet(query.groupClause)
      BY <1>7, QueriesAssumption
    <3>2. ToSet(<<>>) = {}
      BY DEF ToSet
    <3>3. QED
      BY <1>7, <3>1, <3>2
  <2>2. can_hash
    BY <1>2, <1>6, <1>9, <2>1 DEF can_hash
  <2>3. R # <<>>
    <3>1. SUFFICES ASSUME R = <<>> PROVE FALSE
      OBVIOUS
    <3>2. PICK r \in AllHashed(<<>>) : TRUE
      BY <1>1, <1>6, <3>1, HashingFound
    <3>3. create_groupingsets_path(path, "mixed", r) \in consider_groupingsets_paths(path, FALSE)
      BY <3>1, <3>2 DEF consider_groupingsets_paths, HashedGroupingSets
    <3>4. QED
      BY <1>5, <2>2, <3>3
  <2>4. can_sort
    BY <2>3 DEF can_sort
  <2>5. PICK r \in SomeHashed : TRUE
    BY <1>1, <1>6, <2>3, HashingFound
  <2>6. create_groupingsets_path(sorted, "mixed", r) \in consider_groupingsets_paths(sorted, TRUE)
    BY <2>2, <2>3, <2>5 DEF consider_groupingsets_paths, MixedGroupingSets
  <2>7. QED
    BY <1>4, <2>4, <2>6
<1>10. QED
  BY <1>8, <1>9

\* DISTINCT is refused only if its columns can neither be sorted nor hashed.
LEMMA DistinctRefused ==
  ASSUME create_distinct_paths(path) = {}
  PROVE  ~grouping_is_sortable(query.distinctClause) /\ ~grouping_is_hashable(query.distinctClause)
<1> DEFINE longer == Len(root.distinct_pathkeys) < Len(root.sort_pathkeys)
           presorted == IF query.hasDistinctOn /\ longer THEN root.sort_pathkeys ELSE root.distinct_pathkeys
           keys == IF longer THEN root.sort_pathkeys ELSE root.distinct_pathkeys
           to_unique == IF pathkeys_contained_in(keys, path.keys) THEN path ELSE create_sort_path(path, keys)
           ToUnique == {s \in {path} : pathkeys_contained_in(presorted, path.keys)} \cup {to_unique}
           by_sort == IF ~grouping_is_sortable(query.distinctClause) THEN {}
                      ELSE {create_upper_unique_path(s, Len(root.distinct_pathkeys)) : s \in ToUnique}
           allow_hash == by_sort = {} \/ ~query.hasDistinctOn
           hashed == OnStreams(path, LAMBDA rows : HashUnique(rows, ToSet(query.distinctClause)), <<>>)
<1>1. create_distinct_paths(path)
        = by_sort \cup (IF allow_hash /\ grouping_is_hashable(query.distinctClause) THEN {hashed} ELSE {})
  BY DEF create_distinct_paths
<1> HIDE DEF hashed, to_unique
<1>2. to_unique \in ToUnique
  OBVIOUS
<1> HIDE DEF ToUnique
<1>3. grouping_is_sortable(query.distinctClause) => by_sort # {}
  BY <1>2
<1>4. ~grouping_is_sortable(query.distinctClause) => by_sort = {}
  OBVIOUS
<1> HIDE DEF by_sort
<1>5. QED
  BY <1>1, <1>3, <1>4

\* The ways to compute the grouping sets all compute them.
LEMMA EveryWay ==
  ASSUME query \in Queries, GroupingDataSound(root.gset_data, query)
  PROVE  EverySetGrouped
<1> DEFINE sets == query.groupingSets
<1>1. sets \in Seq(Lists)
  BY QueriesAssumption DEF Lists
<1>2. ASSUME NEW r \in GroupingWays PROVE Computes(r, sets)
  <2>1. CASE r = root.gset_data.rollups /\ root.gset_data.unsortable_sets = <<>>
    BY <2>1, SortedWay
  <2>2. CASE r \in SomeHashed
    BY <2>2, SomeWays
  <2>3. CASE r \in AllHashed(<<>>)
    BY <2>3, AllWays
  <2>4. CASE root.gset_data.rollups # <<>> /\ r \in AllHashed(<<root.gset_data.rollups[1]>>)
    BY <2>4, AllButFirstWays
  <2>5. QED
    BY <1>2, <2>1, <2>2, <2>3, <2>4 DEF GroupingWays
<1>3. ASSUME NEW rollups \in GroupingWays, NEW cols \in SUBSET Columns
      PROVE  Times(cols, FlattenSeq([i \in DOMAIN rollups |-> SetsGrouped(rollups[i])]))
               = Times(cols, [k \in DOMAIN sets |-> ToSet(sets[k])])
  <2> HIDE DEF sets
  <2>1. QED
    BY <1>1, <1>2, ComputesTimes
<1>4. QED
  BY <1>3 DEF EverySetGrouped

------------------------------------------------------------------------------
(* The invariant *)

GroupInv ==
  /\ query \in Queries
  /\ phase # "parsed" => RootSound(root, query)
  /\ RefusedOnlyIfImpossible

LEMMA Begun ==
  Init => GroupInv
BY DEF Init, GroupInv, RefusedOnlyIfImpossible

\* What has been found impossible stays so.
LEMMA StillRefused ==
  ASSUME RefusedOnlyIfImpossible, UNCHANGED <<query, error>>
  PROVE  RefusedOnlyIfImpossible'
BY DEF RefusedOnlyIfImpossible, active_windows, grouping_is_sortable, grouping_is_hashable

LEMMA RefusingGroups ==
  ASSUME Impossible, UNCHANGED query, error' = "could not implement GROUP BY"
  PROVE  RefusedOnlyIfImpossible'
BY DEF RefusedOnlyIfImpossible, Impossible, NeitherWay, grouping_is_sortable, grouping_is_hashable

\* Once preprocessed, only path and phase change.
LEMMA Planning ==
  ASSUME GroupInv, phase # "parsed", UNCHANGED <<query, root, error>>
  PROVE  GroupInv'
<1>1. RootSound(root, query)' /\ (query \in Queries)'
  BY DEF GroupInv
<1>2. RefusedOnlyIfImpossible'
  BY StillRefused DEF GroupInv
<1>3. QED
  BY <1>1, <1>2 DEF GroupInv

LEMMA PreprocessKeeps ==
  ASSUME GroupInv, Preprocess
  PROVE  GroupInv'
<1>1. phase = "parsed" /\ GroupBy(Unsortable) /\ query \in Queries /\ RefusedOnlyIfImpossible
  BY DEF Preprocess, Unsortable, GroupInv
<1> DEFINE refused == query.groupingSets # <<>> /\ \E i \in DOMAIN Unsortable : ~grouping_is_hashable(Unsortable[i])
           gset_data == preprocess_grouping_sets(Without(query.groupingSets, ToSet(Unsortable)), Unsortable)
           clause == IF query.groupingSets # <<>> \/ query.groupClause = <<>> THEN query.groupClause
                     ELSE preprocess_groupclause(<<>>)
<1>2. CASE refused
  <2>1. error' = "could not implement GROUP BY" /\ UNCHANGED <<query, phase, root>>
    BY <1>1, <1>2 DEF GroupBy, Raise
  <2>2. PICK i \in DOMAIN Unsortable : ~grouping_is_hashable(Unsortable[i])
    BY <1>2
  <2>3. Unsortable[i] \in ToSet(Unsortable)
    BY <2>2 DEF ToSet
  <2>4. Unsortable[i] \in ToSet(query.groupingSets) /\ ~grouping_is_sortable(Unsortable[i])
    BY <1>1, <2>3, UnsortableIs
  <2>5. Impossible
    BY <2>2, <2>4 DEF Impossible, NeitherWay
  <2>6. RefusedOnlyIfImpossible'
    BY <2>1, <2>5, RefusingGroups
  <2>7. QED
    BY <1>1, <2>1, <2>6 DEF GroupInv
<1>3. CASE ~refused
  <2>1. /\ root' = [gset_data |-> gset_data, groupClause |-> clause, activeWindows |-> select_active_windows]
        /\ UNCHANGED <<query, error>>
    BY <1>1, <1>3 DEF GroupBy
  <2>2. GroupingDataSound(gset_data, query)
    BY <1>1, PreprocessedSound
  <2>3. ToSet(clause) = ToSet(query.groupClause)
    BY <1>1, ClauseKept
  <2>4. \A w \in ToSet(select_active_windows) : w \in ToSet(query.windows) /\ w.used
    <3>1. ToSet(select_active_windows) \subseteq active_windows
      BY <1>1, WindowsActive, SetOfList
    <3>2. QED
      BY <3>1 DEF active_windows
  <2> HIDE DEF gset_data, clause
  <2>5. RootSound(root', query)
    BY <2>1, <2>2, <2>3, <2>4 DEF RootSound
  <2>6. RefusedOnlyIfImpossible'
    BY <1>1, <2>1, StillRefused
  <2>7. RootSound(root, query)' /\ (query \in Queries)'
    BY <1>1, <2>1, <2>5
  <2>8. QED
    BY <2>6, <2>7 DEF GroupInv
<1>4. QED
  BY <1>2, <1>3

LEMMA DerivePathKeysKeeps ==
  ASSUME GroupInv, DerivePathKeys
  PROVE  GroupInv'
<1>1. phase = "preprocessed" /\ RootSound(root, query) /\ query \in Queries /\ RefusedOnlyIfImpossible
  BY DEF DerivePathKeys, GroupInv
<1> DEFINE refused == \E w \in ToSet(root.activeWindows) : ~grouping_is_sortable(w.partition \o w.order)
<1>2. CASE refused
  <2>1. error' = "could not implement window" /\ UNCHANGED <<query, phase, root>>
    BY <1>2 DEF DerivePathKeys, Raise
  <2>2. PICK w \in ToSet(root.activeWindows) : ~grouping_is_sortable(w.partition \o w.order)
    BY <1>2
  <2>3. w \in active_windows
    BY <1>1, <2>2 DEF RootSound, active_windows
  <2>4. RefusedOnlyIfImpossible'
    BY <2>1, <2>2, <2>3 DEF RefusedOnlyIfImpossible, active_windows, grouping_is_sortable
  <2>5. RootSound(root, query)' /\ (query \in Queries)'
    BY <1>1, <2>1
  <2>6. QED
    BY <2>4, <2>5 DEF GroupInv
<1>3. CASE ~refused
  <2>1. root' = standard_qp_callback(root) /\ UNCHANGED <<query, error>>
    BY <1>3 DEF DerivePathKeys
  <2>2. /\ root'.gset_data = root.gset_data /\ root'.groupClause = root.groupClause
        /\ root'.activeWindows = root.activeWindows
    BY <2>1 DEF standard_qp_callback, PathKeys
  <2>3. RootSound(root', query)
    BY <1>1, <2>2 DEF RootSound
  <2>4. RootSound(root, query)' /\ (query \in Queries)'
    BY <1>1, <2>1, <2>3
  <2>5. RefusedOnlyIfImpossible'
    BY <1>1, <2>1, StillRefused
  <2>6. QED
    BY <2>4, <2>5 DEF GroupInv
<1>4. QED
  BY <1>2, <1>3

LEMMA CreateGroupingPathsKeeps ==
  ASSUME GroupInv, CreateGroupingPaths
  PROVE  GroupInv'
<1> DEFINE paths == IF is_degenerate_grouping THEN create_degenerate_grouping_paths ELSE add_paths_to_grouping_rel(path)
<1>1. phase = "scanjoin" /\ RootSound(root, query) /\ query \in Queries
  BY DEF CreateGroupingPaths, GroupInv
<1>2. CASE paths = {}
  <2>1. error' = "could not implement GROUP BY" /\ UNCHANGED <<query, phase, root>>
    BY <1>2 DEF CreateGroupingPaths, Raise
  <2>2. add_paths_to_grouping_rel(path) = {}
    <3>1. create_degenerate_grouping_paths # {}
      BY DEF create_degenerate_grouping_paths
    <3>2. QED
      BY <1>2, <3>1
  <2>3. Impossible
    <3>1. query.groupingSets = <<>> => AggPaths(path, TRUE) = {}
      BY <2>2 DEF add_paths_to_grouping_rel
    <3>2. QED
      BY <1>1, <2>2, <3>1, PlainRefused, SetsRefused
  <2>4. RefusedOnlyIfImpossible'
    BY <2>1, <2>3, RefusingGroups
  <2>5. RootSound(root, query)' /\ (query \in Queries)'
    BY <1>1, <2>1
  <2>6. QED
    BY <2>4, <2>5 DEF GroupInv
<1>3. CASE paths # {}
  <2>1. UNCHANGED <<query, root, error>>
    BY <1>3 DEF CreateGroupingPaths, Plan
  <2>2. QED
    BY <1>1, <2>1, Planning
<1>4. QED
  BY <1>2, <1>3

LEMMA CreateDistinctPathsKeeps ==
  ASSUME GroupInv, CreateDistinctPaths
  PROVE  GroupInv'
<1>1. phase # "parsed"
  BY DEF CreateDistinctPaths, AfterWindows, AfterGrouping
<1>2. RootSound(root, query) /\ query \in Queries
  BY <1>1 DEF GroupInv
<1>3. CASE create_distinct_paths(path) = {}
  <2>1. error' = "could not implement DISTINCT" /\ UNCHANGED <<query, phase, root>>
    BY <1>3 DEF CreateDistinctPaths, Raise
  <2>2. ~grouping_is_sortable(query.distinctClause) /\ ~grouping_is_hashable(query.distinctClause)
    BY <1>3, DistinctRefused
  <2>3. RefusedOnlyIfImpossible'
    BY <2>1, <2>2 DEF RefusedOnlyIfImpossible, grouping_is_sortable, grouping_is_hashable
  <2>4. RootSound(root, query)' /\ (query \in Queries)'
    BY <1>2, <2>1
  <2>5. QED
    BY <2>3, <2>4 DEF GroupInv
<1>4. CASE create_distinct_paths(path) # {}
  <2>1. UNCHANGED <<query, root, error>>
    BY <1>4 DEF CreateDistinctPaths, Plan
  <2>2. QED
    BY <1>1, <2>1, Planning
<1>5. QED
  BY <1>3, <1>4

LEMMA GroupStep ==
  GroupInv /\ [Next]_vars => GroupInv'
<1> SUFFICES ASSUME GroupInv, [Next]_vars PROVE GroupInv'
  OBVIOUS
<1>1. CASE Preprocess
  BY <1>1, PreprocessKeeps
<1>2. CASE DerivePathKeys
  BY <1>2, DerivePathKeysKeeps
<1>3. CASE ScanJoinPaths
  BY <1>3, Planning DEF ScanJoinPaths, Plan
<1>4. CASE AppendPaths
  BY <1>4, Planning DEF AppendPaths, Plan
<1>5. CASE GatherScanJoin
  BY <1>5, Planning DEF GatherScanJoin, Plan
<1>6. CASE CreateGroupingPaths
  BY <1>6, CreateGroupingPathsKeeps
<1>7. CASE CreatePartialGroupingPaths
  BY <1>7, Planning DEF CreatePartialGroupingPaths, Plan
<1>8. CASE GatherGroupingPaths
  BY <1>8, Planning DEF GatherGroupingPaths, Plan
<1>9. CASE FinalizeGroups
  BY <1>9, Planning DEF FinalizeGroups, Plan
<1>10. CASE CreateWindowPaths
  BY <1>10, Planning DEF CreateWindowPaths, AfterGrouping, Plan
<1>11. CASE CreateDistinctPaths
  BY <1>11, CreateDistinctPathsKeeps
<1>12. CASE CreateOrderedPaths
  BY <1>12, Planning DEF CreateOrderedPaths, AfterDistinct, AfterWindows, AfterGrouping, Plan
<1>13. CASE CreateFinalPath
  BY <1>13, Planning DEF CreateFinalPath, AfterOrdering, AfterDistinct, AfterWindows, AfterGrouping, Plan
<1>14. CASE UNCHANGED vars
  <2>1. UNCHANGED <<query, phase, root, error>>
    BY <1>14 DEF vars
  <2>2. RefusedOnlyIfImpossible'
    BY <2>1, StillRefused DEF GroupInv
  <2>3. QED
    BY <2>1, <2>2 DEF GroupInv
<1>15. CASE Planned
  BY <1>14, <1>15 DEF Planned
<1>16. QED
  BY <1>1, <1>2, <1>3, <1>4, <1>5, <1>6, <1>7, <1>8, <1>9, <1>10, <1>11, <1>12, <1>13, <1>14, <1>15 DEF Next

\* A statement is refused only if it cannot be done, and every way in which the planner may compute
\* grouping sets (by sorting, by hashing, by some of both) computes each as often as it is asked
\* for, by its own columns.
THEOREM GroupingIsSound == Spec => []GroupingSound
<1>1. GroupInv => GroupingSound
  <2>1. SUFFICES ASSUME GroupInv PROVE GroupingSound
    OBVIOUS
  <2>2. phase = "planning" => EverySetGrouped
    BY <2>1, EveryWay DEF GroupInv, RootSound
  <2>3. EverySetGrouped
    BY <2>2 DEF EverySetGrouped
  <2>4. QED
    BY <2>1, <2>3 DEF GroupInv, GroupingSound
<1>2. QED
  BY Begun, GroupStep, <1>1, PTL DEF Spec

==============================================================================
