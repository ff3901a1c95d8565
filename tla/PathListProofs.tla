---------------------------- MODULE PathListProofs ----------------------------
(***************************************************************************)
(* Theorems about PathList, for every set of paths, fuzz factor and number *)
(* of offers: the lists stay well formed and sorted, nothing worth having  *)
(* is lost, the prechecks turn away only what would be rejected, and what  *)
(* is chosen from a list is a least path.                                  *)
(***************************************************************************)
EXTENDS PathList, ListOpsProofs

------------------------------------------------------------------------------
(* Sequences *)

LEMMA RemoveAtProperties ==
  ASSUME NEW S, NEW s \in Seq(S), NEW i \in DOMAIN s
  PROVE  LET r == RemoveAt(s, i)
         IN /\ r \in Seq(S) /\ Len(r) = Len(s) - 1
            /\ \A j \in 1..Len(s) - 1 : r[j] = IF j < i THEN s[j] ELSE s[j + 1]
<1>1. i \in 1..Len(s) /\ Len(s) \in Nat
  BY LenProperties
<1>2. \A j \in 1..Len(s) : s[j] \in S
  BY ElementOfSeq
<1> DEFINE a == SubSeq(s, 1, i - 1)
           b == SubSeq(s, i + 1, Len(s))
<1>3. a \in Seq(S) /\ Len(a) = i - 1 /\ \A j \in 1..i - 1 : a[j] = s[j]
  <2>1. \A j \in 1..i - 1 : s[j] \in S
    BY <1>1, <1>2
  <2>2. /\ a \in Seq(S) /\ Len(a) = IF 1 <= i - 1 THEN i - 1 - 1 + 1 ELSE 0
        /\ \A j \in 1..i - 1 - 1 + 1 : a[j] = s[1 + j - 1]
    BY <1>1, <2>1, SubSeqProperties
  <2>3. QED
    BY <1>1, <2>2
<1>4. /\ b \in Seq(S) /\ Len(b) = Len(s) - i
      /\ \A j \in 1..Len(s) - i : b[j] = s[i + j]
  <2>1. \A j \in i + 1..Len(s) : s[j] \in S
    BY <1>1, <1>2
  <2>2. /\ b \in Seq(S) /\ Len(b) = IF i + 1 <= Len(s) THEN Len(s) - (i + 1) + 1 ELSE 0
        /\ \A j \in 1..Len(s) - (i + 1) + 1 : b[j] = s[i + 1 + j - 1]
    BY <1>1, <2>1, SubSeqProperties
  <2>3. QED
    BY <1>1, <2>2
<1>5. /\ a \o b \in Seq(S) /\ Len(a \o b) = Len(a) + Len(b)
      /\ \A j \in 1..Len(a) + Len(b) : (a \o b)[j] = IF j <= Len(a) THEN a[j] ELSE b[j - Len(a)]
  BY <1>3, <1>4, ConcatProperties
<1>6. RemoveAt(s, i) = a \o b
  BY DEF RemoveAt
<1> HIDE DEF a, b
<1>7. Len(a) + Len(b) = Len(s) - 1
  BY <1>1, <1>3, <1>4
<1>8. ASSUME NEW j \in 1..Len(s) - 1 PROVE (a \o b)[j] = IF j < i THEN s[j] ELSE s[j + 1]
  <2>1. CASE j < i
    BY <1>1, <1>3, <1>5, <1>7, <2>1
  <2>2. CASE ~(j < i)
    <3>1. j - (i - 1) \in 1..Len(s) - i /\ i + (j - (i - 1)) = j + 1 /\ ~(j <= i - 1)
      BY <1>1, <2>2
    <3>2. b[j - (i - 1)] = s[j + 1]
      BY <1>4, <3>1
    <3>3. (a \o b)[j] = b[j - (i - 1)]
      BY <1>3, <1>5, <1>7, <3>1
    <3>4. QED
      BY <2>2, <3>2, <3>3
  <2>3. QED
    BY <2>1, <2>2
<1>9. QED
  BY <1>5, <1>6, <1>7, <1>8

LEMMA InsertAtProperties ==
  ASSUME NEW S, NEW s \in Seq(S), NEW i \in 1..Len(s) + 1, NEW e \in S
  PROVE  LET r == InsertAt(s, i, e)
         IN /\ r \in Seq(S) /\ Len(r) = Len(s) + 1
            /\ \A j \in 1..Len(s) + 1 :
                 r[j] = IF j < i THEN s[j] ELSE IF j = i THEN e ELSE s[j - 1]
<1>1. Len(s) \in Nat
  BY LenProperties
<1>2. \A j \in 1..Len(s) : s[j] \in S
  BY ElementOfSeq
<1> DEFINE a == SubSeq(s, 1, i - 1)
           b == SubSeq(s, i, Len(s))
<1>3. a \in Seq(S) /\ Len(a) = i - 1 /\ \A j \in 1..i - 1 : a[j] = s[j]
  <2>1. \A j \in 1..i - 1 : s[j] \in S
    BY <1>1, <1>2
  <2>2. /\ a \in Seq(S) /\ Len(a) = IF 1 <= i - 1 THEN i - 1 - 1 + 1 ELSE 0
        /\ \A j \in 1..i - 1 - 1 + 1 : a[j] = s[1 + j - 1]
    BY <1>1, <2>1, SubSeqProperties
  <2>3. QED
    BY <1>1, <2>2
<1>4. /\ b \in Seq(S) /\ Len(b) = Len(s) - i + 1
      /\ \A j \in 1..Len(s) - i + 1 : b[j] = s[i + j - 1]
  <2>1. \A j \in i..Len(s) : s[j] \in S
    BY <1>1, <1>2
  <2>2. /\ b \in Seq(S) /\ Len(b) = IF i <= Len(s) THEN Len(s) - i + 1 ELSE 0
        /\ \A j \in 1..Len(s) - i + 1 : b[j] = s[i + j - 1]
    BY <1>1, <2>1, SubSeqProperties
  <2>3. QED
    BY <1>1, <2>2
<1>5. <<e>> \in Seq(S) /\ Len(<<e>>) = 1 /\ <<e>>[1] = e
  OBVIOUS
<1>6. /\ a \o <<e>> \in Seq(S) /\ Len(a \o <<e>>) = i
      /\ \A j \in 1..i : (a \o <<e>>)[j] = IF j <= i - 1 THEN a[j] ELSE <<e>>[j - (i - 1)]
  <2>1. /\ a \o <<e>> \in Seq(S) /\ Len(a \o <<e>>) = Len(a) + Len(<<e>>)
        /\ \A j \in 1..Len(a) + Len(<<e>>) :
             (a \o <<e>>)[j] = IF j <= Len(a) THEN a[j] ELSE <<e>>[j - Len(a)]
    BY <1>3, <1>5, ConcatProperties
  <2> HIDE DEF a
  <2>2. QED
    BY <1>3, <1>5, <2>1
<1> DEFINE c == a \o <<e>>
<1>7. \A j \in 1..i : c[j] = IF j < i THEN s[j] ELSE e
  <2>1. \A j \in 1..i : j <= i - 1 => j \in 1..i - 1
    OBVIOUS
  <2>2. \A j \in 1..i : ~(j <= i - 1) => j - (i - 1) = 1 /\ j = i
    OBVIOUS
  <2> HIDE DEF a
  <2>3. QED
    BY <1>3, <1>5, <1>6, <2>1, <2>2
<1>8. /\ c \o b \in Seq(S) /\ Len(c \o b) = Len(c) + Len(b)
      /\ \A j \in 1..Len(c) + Len(b) : (c \o b)[j] = IF j <= Len(c) THEN c[j] ELSE b[j - Len(c)]
  <2>1. c \in Seq(S) /\ b \in Seq(S)
    BY <1>4, <1>6
  <2> HIDE DEF b, c
  <2>2. QED
    BY <2>1, ConcatProperties
<1>9. InsertAt(s, i, e) = c \o b
  BY DEF InsertAt
<1>10. Len(c) = i
  BY <1>6
<1> HIDE DEF a, b, c
<1>11. QED
  BY <1>1, <1>4, <1>7, <1>8, <1>9, <1>10

LEMMA PrefixByElements ==
  ASSUME NEW S, NEW s \in Seq(S), NEW t \in Seq(S)
  PROVE  IsPrefix(s, t) <=> Len(s) <= Len(t) /\ \A i \in 1..Len(s) : s[i] = t[i]
<1>1. Len(s) \in Nat /\ Len(t) \in Nat
  BY LenProperties
<1>2. (\A i \in 1..Len(s) : s[i] \in S) /\ (\A i \in 1..Len(t) : t[i] \in S)
  BY ElementOfSeq
<1> DEFINE a == SubSeq(s, 1, Len(s))
           b == SubSeq(t, 1, Len(s))
<1>3. SUFFICES ASSUME Len(s) <= Len(t)
      PROVE  a = b <=> \A i \in 1..Len(s) : s[i] = t[i]
  BY DEF IsPrefix
<1>4. /\ a \in Seq(S) /\ Len(a) = IF 1 <= Len(s) THEN Len(s) - 1 + 1 ELSE 0
      /\ \A i \in 1..Len(s) - 1 + 1 : a[i] = s[1 + i - 1]
  BY <1>1, <1>2, SubSeqProperties
<1>5. /\ b \in Seq(S) /\ Len(b) = IF 1 <= Len(s) THEN Len(s) - 1 + 1 ELSE 0
      /\ \A i \in 1..Len(s) - 1 + 1 : b[i] = t[1 + i - 1]
  <2>1. \A i \in 1..Len(s) : t[i] \in S
    BY <1>1, <1>2, <1>3
  <2>2. QED
    BY <1>1, <2>1, SubSeqProperties
<1> HIDE DEF a, b
<1>6. \A i \in 1..Len(s) : a[i] = s[i] /\ b[i] = t[i]
  BY <1>1, <1>4, <1>5
<1>7. ASSUME \A i \in 1..Len(s) : s[i] = t[i] PROVE a = b
  <2>1. Len(a) = Len(b) /\ \A i \in 1..Len(a) : a[i] = b[i]
    BY <1>1, <1>4, <1>5, <1>6, <1>7
  <2>2. QED
    BY <1>4, <1>5, <2>1, SeqEqual
<1>8. QED
  BY <1>6, <1>7

LEMMA PrefixTransitive ==
  ASSUME NEW S, NEW s \in Seq(S), NEW t \in Seq(S), NEW u \in Seq(S),
         IsPrefix(s, t), IsPrefix(t, u)
  PROVE  IsPrefix(s, u)
<1>1. Len(s) \in Nat /\ Len(t) \in Nat /\ Len(u) \in Nat
  BY LenProperties
<1>2. Len(s) <= Len(t) /\ \A i \in 1..Len(s) : s[i] = t[i]
  BY PrefixByElements
<1>3. Len(t) <= Len(u) /\ \A i \in 1..Len(t) : t[i] = u[i]
  BY PrefixByElements
<1>4. Len(s) <= Len(u) /\ \A i \in 1..Len(s) : s[i] = u[i]
  BY <1>1, <1>2, <1>3
<1>5. QED
  BY <1>4, PrefixByElements

LEMMA PrefixReflexive ==
  ASSUME NEW S, NEW s \in Seq(S)
  PROVE  IsPrefix(s, s)
BY LenProperties DEF IsPrefix
LEMMA ToSetMembers ==
  ASSUME NEW S, NEW s \in Seq(S), NEW x
  PROVE  x \in ToSet(s) <=> \E i \in 1..Len(s) : x = s[i]
BY LenProperties DEF ToSet

------------------------------------------------------------------------------
(* Products of naturals, and what "over by the fuzz" says of them *)

LEMMA ProductPositive ==
  ASSUME NEW a \in Nat \ {0}, NEW b \in Nat \ {0}
  PROVE  a * b \in Nat \ {0}
BY SMT

LEMMA ProductMonotone ==
  ASSUME NEW a \in Nat, NEW b \in Nat, NEW c \in Nat, NEW d \in Nat, a <= b, c <= d
  PROVE  a * c <= b * d
<1>1. a * c <= b * c
  BY SMT
<1>2. b * c <= b * d
  BY SMT
<1>3. QED
  BY <1>1, <1>2, SMT

LEMMA PositiveCancels ==
  ASSUME NEW a \in Nat, NEW b \in Nat, NEW c \in Nat \ {0}, a * c <= b * c
  PROVE  a <= b
BY SMT

Fuzzes == {f \in (Nat \ {0}) \X (Nat \ {0}) : f[1] >= f[2]}
Times(f, g) == <<f[1] * g[1], f[2] * g[2]>>

LEMMA FuzzTimes ==
  ASSUME NEW f \in Fuzzes, NEW g \in Fuzzes
  PROVE  Times(f, g) \in Fuzzes
<1>1. f[1] * g[1] \in Nat \ {0} /\ f[2] * g[2] \in Nat \ {0}
  BY ProductPositive DEF Fuzzes
<1>2. f[2] * g[2] <= f[1] * g[1]
  BY ProductMonotone DEF Fuzzes
<1>3. QED
  BY <1>1, <1>2 DEF Fuzzes, Times

LEMMA StdFuzz == STD_FUZZ_FACTOR \in Fuzzes
BY FuzzAssumption DEF Fuzzes

LEMMA NotDearerIsWithin ==
  ASSUME NEW a \in Nat, NEW b \in Nat, NEW f \in Fuzzes, a <= b
  PROVE  ~Over(a, b, f)
<1>1. a * f[2] <= b * f[1]
  BY ProductMonotone DEF Fuzzes
<1>2. a * f[2] \in Nat /\ b * f[1] \in Nat
  BY DEF Fuzzes
<1>3. QED
  BY <1>1, <1>2 DEF Over

LEMMA OverIsDearer ==
  ASSUME NEW a \in Nat, NEW b \in Nat, NEW f \in Fuzzes, Over(a, b, f)
  PROVE  b < a
BY NotDearerIsWithin

\* Within f, and then within g, is within the product of both.
LEMMA WithinTransitive ==
  ASSUME NEW a \in Nat, NEW b \in Nat, NEW c \in Nat, NEW f \in Fuzzes, NEW g \in Fuzzes,
         ~Over(b, a, f), ~Over(c, b, g)
  PROVE  ~Over(c, a, Times(f, g))
<1> DEFINE fn == f[1]  fd == f[2]  gn == g[1]  gd == g[2]
<1>1. fn \in Nat \ {0} /\ fd \in Nat \ {0} /\ gn \in Nat \ {0} /\ gd \in Nat \ {0}
  BY DEF Fuzzes
<1>2. b * fd <= a * fn /\ c * gd <= b * gn
  <2>1. b * fd \in Nat /\ a * fn \in Nat /\ c * gd \in Nat /\ b * gn \in Nat
    BY <1>1
  <2>2. QED
    BY <2>1 DEF Over
<1> HIDE DEF fn, fd, gn, gd
<1>3. (b * fd) * gn <= (a * fn) * gn
  BY <1>1, <1>2, ProductMonotone
<1>4. (c * gd) * fd <= (b * gn) * fd
  BY <1>1, <1>2, ProductMonotone
<1>5. (b * fd) * gn = (b * gn) * fd
  BY <1>1, SMT
<1>6. (c * gd) * fd = c * (fd * gd) /\ (a * fn) * gn = a * (fn * gn)
  BY <1>1, SMT
<1>7. (c * gd) * fd \in Nat /\ (b * gn) * fd \in Nat /\ (a * fn) * gn \in Nat
  BY <1>1, SMT
<1>8. c * (fd * gd) <= a * (fn * gn)
  BY <1>3, <1>4, <1>5, <1>6, <1>7
<1>9. c * (fd * gd) \in Nat /\ a * (fn * gn) \in Nat
  BY <1>6, <1>7
<1>10. QED
  BY <1>8, <1>9 DEF Over, Times, fn, fd, gn, gd

\* More fuzz never hurts.
LEMMA WithinWider ==
  ASSUME NEW a \in Nat, NEW b \in Nat, NEW f \in Fuzzes, NEW g \in Fuzzes, ~Over(b, a, f)
  PROVE  ~Over(b, a, Times(f, g))
<1>1. ~Over(b, b, g)
  BY NotDearerIsWithin
<1>2. QED
  BY <1>1, WithinTransitive

------------------------------------------------------------------------------
(* Types *)

LEMMA PathTypes ==
  ASSUME NEW p \in Paths
  PROVE  /\ p.startup_cost \in Nat /\ p.total_cost \in Nat /\ p.rows \in Nat
         /\ p.parallel_safe \in BOOLEAN
         /\ p.pathkeys \in Seq(PathKeys) /\ EffectiveKeys(p) \in Seq(PathKeys)
BY PathsAssumption DEF EffectiveKeys

\* A scan under way: the list it is about and where it stands.
LEMMA ScanTypes ==
  ASSUME TypeOK, scan # Null
  PROVE  /\ scan \in Scans /\ scan.list \in Lists /\ scan.new_path \in Paths
         /\ scan.at \in Nat \ {0} /\ scan.insert_at \in Nat /\ scan.insert_at < scan.at
         /\ rel[scan.list] \in Seq(Paths) /\ Len(rel[scan.list]) \in Nat
         /\ DOMAIN rel[scan.list] = 1..Len(rel[scan.list])
         /\ scan.at <= Len(rel[scan.list]) + 1
<1>1. scan \in Scans /\ scan.insert_at < scan.at /\ scan.at <= Len(rel[scan.list]) + 1
  BY DEF TypeOK
<1>2. rel[scan.list] \in Seq(Paths)
  BY <1>1 DEF TypeOK, Scans
<1>3. QED
  BY <1>1, <1>2, LenProperties DEF Scans

LEMMA SlackType ==
  ASSUME TypeOK, NEW l \in Lists
  PROVE  slack[l] \in Fuzzes
BY DEF TypeOK, Fuzzes

\* A visit that costs a fuzz factor multiplies the slack of the list scanned.
LEMMA AddFuzzProperties ==
  ASSUME TypeOK, scan # Null, AddFuzz
  PROVE  /\ slack' \in [Lists -> (Nat \ {0}) \X (Nat \ {0})]
         /\ \A l \in Lists : slack'[l] \in Fuzzes
         /\ slack'[scan.list] = Times(slack[scan.list], STD_FUZZ_FACTOR)
         /\ \A l \in Lists : l # scan.list => slack'[l] = slack[l]
<1>1. scan.list \in Lists /\ slack[scan.list] \in Fuzzes
  BY ScanTypes, SlackType
<1>2. Times(slack[scan.list], STD_FUZZ_FACTOR) \in Fuzzes
  BY <1>1, StdFuzz, FuzzTimes
<1>3. slack' = [slack EXCEPT ![scan.list] = Times(slack[scan.list], STD_FUZZ_FACTOR)]
  BY DEF AddFuzz, Times
<1>4. slack \in [Lists -> (Nat \ {0}) \X (Nat \ {0})]
  BY DEF TypeOK
<1>5. \A l \in Lists : slack'[l] = IF l = scan.list THEN Times(slack[scan.list], STD_FUZZ_FACTOR)
                                                    ELSE slack[l]
  BY <1>1, <1>3, <1>4
<1>6. slack' \in [Lists -> (Nat \ {0}) \X (Nat \ {0})]
  BY <1>1, <1>2, <1>3, <1>4 DEF Fuzzes
<1>7. QED
  BY <1>1, <1>2, <1>5, <1>6, SlackType

\* What the step that ends a visit with a removal makes of the list.
LEMMA RemoveOldList ==
  ASSUME TypeOK, RemoveOld
  PROVE  LET old == rel[scan.list]  new == rel'[scan.list]
         IN /\ rel' \in [Lists -> Seq(Paths)] /\ new \in Seq(Paths) /\ Len(new) = Len(old) - 1
            /\ \A j \in 1..Len(old) - 1 : new[j] = IF j < scan.at THEN old[j] ELSE old[j + 1]
            /\ \A l \in Lists : l # scan.list => rel'[l] = rel[l]
<1>1. scan # Null /\ scan.at \in DOMAIN rel[scan.list]
  BY DEF RemoveOld, Scanning
<1>2. scan.list \in Lists /\ rel[scan.list] \in Seq(Paths) /\ rel \in [Lists -> Seq(Paths)]
  BY <1>1, ScanTypes DEF TypeOK
<1>3. rel' = [rel EXCEPT ![scan.list] = RemoveAt(rel[scan.list], scan.at)]
  BY DEF RemoveOld
<1>4. rel'[scan.list] = RemoveAt(rel[scan.list], scan.at)
  BY <1>2, <1>3
<1>5. /\ rel'[scan.list] \in Seq(Paths) /\ Len(rel'[scan.list]) = Len(rel[scan.list]) - 1
      /\ \A j \in 1..Len(rel[scan.list]) - 1 :
           rel'[scan.list][j] = IF j < scan.at THEN rel[scan.list][j] ELSE rel[scan.list][j + 1]
  BY <1>1, <1>2, <1>4, RemoveAtProperties
<1>6. rel' \in [Lists -> Seq(Paths)] /\ \A l \in Lists : l # scan.list => rel'[l] = rel[l]
  BY <1>2, <1>3, <1>4, <1>5
<1>7. QED
  BY <1>5, <1>6

\* The same of an insertion.
LEMMA AcceptNewList ==
  ASSUME TypeOK, AcceptNew
  PROVE  LET old == rel[scan.list]  new == rel'[scan.list]  i == scan.insert_at + 1
         IN /\ rel' \in [Lists -> Seq(Paths)] /\ new \in Seq(Paths) /\ Len(new) = Len(old) + 1
            /\ i \in 1..Len(old) + 1 /\ scan.at = Len(old) + 1
            /\ \A j \in 1..Len(old) + 1 :
                 new[j] = IF j < i THEN old[j] ELSE IF j = i THEN scan.new_path ELSE old[j - 1]
            /\ \A l \in Lists : l # scan.list => rel'[l] = rel[l]
<1>1. scan # Null /\ scan.at \notin DOMAIN rel[scan.list]
  BY DEF AcceptNew, Scanning
<1>2. scan.list \in Lists /\ rel[scan.list] \in Seq(Paths) /\ rel \in [Lists -> Seq(Paths)]
  BY <1>1, ScanTypes DEF TypeOK
<1>3. scan.at = Len(rel[scan.list]) + 1 /\ scan.insert_at + 1 \in 1..Len(rel[scan.list]) + 1
  <2>1. /\ scan.at \in Nat \ {0} /\ scan.insert_at \in Nat /\ scan.insert_at < scan.at
        /\ Len(rel[scan.list]) \in Nat /\ DOMAIN rel[scan.list] = 1..Len(rel[scan.list])
        /\ scan.at <= Len(rel[scan.list]) + 1
    BY <1>1, ScanTypes
  <2>2. scan.at = Len(rel[scan.list]) + 1
    BY <1>1, <2>1
  <2>3. QED
    BY <2>1, <2>2
<1>4. rel' = [rel EXCEPT ![scan.list] =
                InsertAt(rel[scan.list], scan.insert_at + 1, scan.new_path)]
  BY DEF AcceptNew
<1>5. rel'[scan.list] = InsertAt(rel[scan.list], scan.insert_at + 1, scan.new_path)
  BY <1>2, <1>4
<1>6. scan.new_path \in Paths
  BY <1>1, ScanTypes
<1>7. /\ rel'[scan.list] \in Seq(Paths) /\ Len(rel'[scan.list]) = Len(rel[scan.list]) + 1
      /\ \A j \in 1..Len(rel[scan.list]) + 1 :
           rel'[scan.list][j] = IF j < scan.insert_at + 1 THEN rel[scan.list][j]
                                ELSE IF j = scan.insert_at + 1 THEN scan.new_path
                                ELSE rel[scan.list][j - 1]
  <2> DEFINE s == rel[scan.list]  i == scan.insert_at + 1  e == scan.new_path
  <2>1. s \in Seq(Paths) /\ i \in 1..Len(s) + 1 /\ e \in Paths
    BY <1>2, <1>3, <1>6
  <2>2. rel'[scan.list] = InsertAt(s, i, e)
    BY <1>5
  <2> HIDE DEF s, i, e
  <2>3. /\ InsertAt(s, i, e) \in Seq(Paths) /\ Len(InsertAt(s, i, e)) = Len(s) + 1
        /\ \A j \in 1..Len(s) + 1 :
             InsertAt(s, i, e)[j] = IF j < i THEN s[j] ELSE IF j = i THEN e ELSE s[j - 1]
    BY <2>1, InsertAtProperties
  <2>4. QED
    BY <2>2, <2>3 DEF s, i, e
<1>8. rel' \in [Lists -> Seq(Paths)]
  <2>1. InsertAt(rel[scan.list], scan.insert_at + 1, scan.new_path) \in Seq(Paths)
    BY <1>5, <1>7
  <2>2. QED
    BY <1>2, <1>4, <2>1
<1>9. \A l \in Lists : l # scan.list => rel'[l] = rel[l]
  BY <1>2, <1>4
<1>10. QED
  BY <1>3, <1>7, <1>8, <1>9, Zenon

LEMMA TypeInit == Init => TypeOK
<1> SUFFICES ASSUME Init PROVE TypeOK
  OBVIOUS
<1>1. rel \in [Lists -> Seq(Paths)] /\ offered \in [Lists -> SUBSET Paths]
  BY DEF Init
<1>2. slack \in [Lists -> (Nat \ {0}) \X (Nat \ {0})] /\ \A l \in Lists : slack[l][1] >= slack[l][2]
  BY DEF Init
<1>3. QED
  BY <1>1, <1>2, BoundAssumption DEF Init, TypeOK

LEMMA TypeStep == TypeOK /\ [Next]_vars => TypeOK'
<1> SUFFICES ASSUME TypeOK, [Next]_vars PROVE TypeOK'
  OBVIOUS
<1> DEFINE Slacks == /\ slack' \in [Lists -> (Nat \ {0}) \X (Nat \ {0})]
                     /\ \A l \in Lists : slack'[l][1] >= slack'[l][2]
<1>a. ASSUME scan # Null, AddFuzz PROVE Slacks
  BY <1>a, AddFuzzProperties DEF Fuzzes
<1>b. ASSUME UNCHANGED slack PROVE Slacks
  BY <1>b DEF TypeOK
<1>1. ASSUME NEW list \in Lists, NEW p \in Paths, Offer(list, p) PROVE TypeOK'
  <2>1. scan' \in Scans /\ scan'.insert_at < scan'.at /\ scan'.at <= Len(rel'[scan'.list]) + 1
    <3>1. Len(rel[list]) \in Nat
      BY LenProperties DEF TypeOK
    <3>2. QED
      BY <1>1, <3>1 DEF Offer, Scans
  <2>2. offered' \in [Lists -> SUBSET Paths]
    BY <1>1 DEF Offer, TypeOK
  <2>3. offers' \in 0..MaxOffers
    BY <1>1, BoundAssumption DEF Offer, TypeOK
  <2>4. Slacks
    BY <1>1, <1>b DEF Offer
  <2>5. QED
    BY <1>1, <2>1, <2>2, <2>3, <2>4 DEF Offer, TypeOK
<1>2. CASE RemoveOld
  <2>1. scan # Null /\ AddFuzz /\ scan' = scan /\ scan.at \in DOMAIN rel[scan.list]
    BY <1>2 DEF RemoveOld, Scanning
  <2>2. rel' \in [Lists -> Seq(Paths)] /\ Len(rel'[scan.list]) = Len(rel[scan.list]) - 1
    BY <1>2, RemoveOldList
  <2>3. scan'.at <= Len(rel'[scan'.list]) + 1
    BY <2>1, <2>2, ScanTypes
  <2>4. scan' \in Scans /\ scan'.insert_at < scan'.at
    BY <2>1, ScanTypes
  <2>5. Slacks
    BY <2>1, <1>a
  <2>6. QED
    BY <1>2, <2>2, <2>3, <2>4, <2>5 DEF RemoveOld, Scanning, TypeOK
<1>3. CASE KeepOld
  <2>1. scan # Null /\ scan.at \in DOMAIN rel[scan.list] /\ rel' = rel
    BY <1>3 DEF KeepOld, Scanning
  <2>2. /\ scan' \in Scans /\ scan'.list = scan.list /\ scan'.at = scan.at + 1
        /\ scan'.insert_at \in {scan.at, scan.insert_at}
    <3>1. PICK i \in {scan.at, scan.insert_at} :
            scan' = [scan EXCEPT !.at = scan.at + 1, !.insert_at = i]
      BY <1>3 DEF KeepOld
    <3>2. scan \in Scans /\ scan.at \in Nat \ {0} /\ scan.insert_at \in Nat
      BY <2>1, ScanTypes
    <3>3. i \in Nat /\ scan.at + 1 \in Nat \ {0}
      BY <3>2
    <3>4. QED
      BY <3>1, <3>2, <3>3 DEF Scans
  <2>3. scan'.insert_at < scan'.at /\ scan'.at <= Len(rel'[scan'.list]) + 1
    BY <2>1, <2>2, ScanTypes
  <2>4. Slacks
    BY <1>3, <1>b DEF KeepOld
  <2>5. QED
    BY <1>3, <2>2, <2>3, <2>4 DEF KeepOld, Scanning, TypeOK
<1>4. CASE RejectNew
  <2>1. Slacks
    BY <1>4, <1>a DEF RejectNew, Scanning
  <2>2. QED
    BY <1>4, <2>1 DEF RejectNew, Scanning, TypeOK
<1>5. CASE AcceptNew
  <2>1. rel' \in [Lists -> Seq(Paths)]
    BY <1>5, AcceptNewList
  <2>2. Slacks
    BY <1>5, <1>b DEF AcceptNew
  <2>3. QED
    BY <1>5, <2>1, <2>2 DEF AcceptNew, Scanning, TypeOK
<1>6. CASE SetCheapest
  BY <1>6 DEF SetCheapest, TypeOK
<1>7. CASE UNCHANGED vars
  BY <1>7 DEF vars, TypeOK
<1>8. QED
  BY <1>1, <1>2, <1>3, <1>4, <1>5, <1>6, <1>7 DEF Next

\* The two lists hold paths, and a scan under way stands inside its list.
THEOREM TypeCorrect == Spec => []TypeOK
<1>1. QED
  BY TypeInit, TypeStep, PTL DEF Spec

------------------------------------------------------------------------------
(* The lists stay sorted by total cost *)

SortedInv == TypeOK /\ SortedByTotal /\ InsertedInOrder

Sorted(s) == \A i, j \in DOMAIN s : i < j => s[i].total_cost <= s[j].total_cost

LEMMA SortedInit == Init => SortedInv
BY TypeInit DEF Init, SortedInv, SortedByTotal, InsertedInOrder

LEMMA SortedStep == SortedInv /\ [Next]_vars => SortedInv'
<1> SUFFICES ASSUME SortedInv, [Next]_vars PROVE SortedInv'
  OBVIOUS
<1>1. TypeOK /\ SortedByTotal /\ InsertedInOrder /\ TypeOK'
  BY TypeStep DEF SortedInv
<1> SUFFICES SortedByTotal' /\ InsertedInOrder'
  BY <1>1 DEF SortedInv
<1>2. \A l \in Lists : Sorted(rel[l])
  BY <1>1 DEF SortedByTotal, Sorted
<1>3. ASSUME \A l \in Lists : Sorted(rel'[l]) PROVE SortedByTotal'
  BY <1>3 DEF SortedByTotal, Sorted
<1>4. ASSUME NEW list \in Lists, NEW p \in Paths, Offer(list, p)
      PROVE  SortedByTotal' /\ InsertedInOrder'
  <2>1. rel' = rel /\ scan'.at = 1
    BY <1>4 DEF Offer
  <2>2. QED
    BY <1>2, <1>3, <2>1 DEF InsertedInOrder
<1>5. CASE RemoveOld
  <2> DEFINE old == rel[scan.list]  new == rel'[scan.list]
  <2>1. scan # Null /\ scan' = scan /\ scan.at \in 1..Len(old)
    BY <1>1, <1>5, ScanTypes DEF RemoveOld, Scanning
  <2>2. /\ new \in Seq(Paths) /\ Len(new) = Len(old) - 1
        /\ \A j \in 1..Len(old) - 1 : new[j] = IF j < scan.at THEN old[j] ELSE old[j + 1]
        /\ \A l \in Lists : l # scan.list => rel'[l] = rel[l]
    BY <1>1, <1>5, RemoveOldList
  <2>3. /\ scan.list \in Lists /\ Len(old) \in Nat /\ DOMAIN old = 1..Len(old)
        /\ scan.at \in Nat \ {0}
    BY <1>1, <2>1, ScanTypes
  <2>4. Sorted(old)
    BY <1>2, <2>3
  <2>5. DOMAIN new = 1..Len(old) - 1
    BY <2>2, LenProperties
  <2>6. \A i \in 1..scan.at - 1 : new[i] = old[i]
    BY <2>1, <2>2, <2>3
  <2> HIDE DEF old, new
  <2>7. Sorted(new)
    <3> SUFFICES ASSUME NEW i \in DOMAIN new, NEW j \in DOMAIN new, i < j
                 PROVE  new[i].total_cost <= new[j].total_cost
      BY DEF Sorted
    <3> DEFINE Place(k) == IF k < scan.at THEN k ELSE k + 1
    <3>1. new[i] = old[Place(i)] /\ new[j] = old[Place(j)]
      BY <2>2, <2>5
    <3>2. Place(i) \in DOMAIN old /\ Place(j) \in DOMAIN old /\ Place(i) < Place(j)
      BY <2>3, <2>5
    <3> HIDE DEF Place
    <3>3. QED
      BY <2>4, <3>1, <3>2 DEF Sorted
  <2>8. SortedByTotal'
    BY <1>2, <1>3, <2>2, <2>7 DEF new
  <2>9. InsertedInOrder'
    BY <1>1, <2>1, <2>6 DEF InsertedInOrder, old, new
  <2>10. QED
    BY <2>8, <2>9
<1>6. CASE KeepOld
  <2> DEFINE list == rel[scan.list]  cost(i) == list[i].total_cost
             newcost == scan.new_path.total_cost
  <2>1. scan # Null /\ rel' = rel /\ scan.at \in DOMAIN list
    BY <1>6 DEF KeepOld, Scanning
  <2>2. /\ scan.list \in Lists /\ DOMAIN list = 1..Len(list) /\ Len(list) \in Nat
        /\ scan.at \in Nat \ {0} /\ scan.insert_at \in Nat /\ list \in Seq(Paths)
        /\ scan.insert_at < scan.at /\ scan \in Scans
    BY <1>1, <2>1, ScanTypes
  <2>3. /\ scan'.list = scan.list /\ scan'.at = scan.at + 1 /\ scan'.new_path = scan.new_path
        /\ scan'.insert_at = IF newcost >= cost(scan.at) THEN scan.at ELSE scan.insert_at
    BY <1>6, <2>2 DEF KeepOld, InsertAfter, Old, Scans
  <2>4. \A i \in 1..scan.at - 1 : IF i <= scan.insert_at THEN cost(i) <= newcost ELSE cost(i) > newcost
    BY <1>1, <2>1 DEF InsertedInOrder
  <2>5. \A i \in 1..scan.at - 1 : cost(i) <= cost(scan.at)
    BY <1>2, <2>1, <2>2 DEF Sorted
  <2>6. newcost \in Nat /\ \A i \in 1..Len(list) : cost(i) \in Nat
    <3>1. scan.new_path \in Paths /\ \A i \in 1..Len(list) : list[i] \in Paths
      BY <1>1, <2>1, <2>2, ScanTypes, ElementOfSeq
    <3>2. QED
      BY <3>1, PathTypes
  <2>7. ASSUME NEW i \in 1..scan.at
        PROVE  IF i <= scan'.insert_at THEN cost(i) <= newcost ELSE cost(i) > newcost
    <3>1. i \in 1..scan.at - 1 \/ i = scan.at
      BY <2>2
    <3>2. i \in 1..Len(list) /\ scan.at \in 1..Len(list)
      BY <2>1, <2>2
    <3> HIDE DEF cost, newcost, list
    <3>3. QED
      BY <2>2, <2>3, <2>4, <2>5, <2>6, <3>1, <3>2
  <2>8. InsertedInOrder'
    BY <2>1, <2>2, <2>3, <2>7 DEF InsertedInOrder
  <2>9. QED
    BY <1>2, <1>3, <2>1, <2>8
<1>7. CASE RejectNew
  <2>1. rel' = rel /\ scan' = Null
    BY <1>7 DEF RejectNew
  <2>2. QED
    BY <1>2, <1>3, <2>1 DEF InsertedInOrder
<1>8. CASE AcceptNew
  <2> DEFINE old == rel[scan.list]  new == rel'[scan.list]  at == scan.insert_at + 1
             newcost == scan.new_path.total_cost
  <2>1. scan # Null /\ scan' = Null
    BY <1>8 DEF AcceptNew, Scanning
  <2>2. /\ new \in Seq(Paths) /\ Len(new) = Len(old) + 1
        /\ at \in 1..Len(old) + 1 /\ scan.at = Len(old) + 1
        /\ \A j \in 1..Len(old) + 1 :
             new[j] = IF j < at THEN old[j] ELSE IF j = at THEN scan.new_path ELSE old[j - 1]
        /\ \A l \in Lists : l # scan.list => rel'[l] = rel[l]
    BY <1>1, <1>8, AcceptNewList
  <2>3. /\ scan.list \in Lists /\ Len(old) \in Nat /\ DOMAIN old = 1..Len(old) /\ old \in Seq(Paths)
        /\ scan.insert_at \in Nat
    BY <1>1, <2>1, ScanTypes
  <2>4. \A i \in 1..Len(old) : IF i < at THEN old[i].total_cost <= newcost
                                         ELSE old[i].total_cost > newcost
    <3>1. \A i \in 1..scan.at - 1 : IF i <= scan.insert_at THEN old[i].total_cost <= newcost
                                                          ELSE old[i].total_cost > newcost
      BY <1>1, <2>1 DEF InsertedInOrder
    <3> HIDE DEF old, newcost
    <3>2. QED
      BY <2>2, <2>3, <3>1
  <2>5. newcost \in Nat /\ \A i \in 1..Len(old) : old[i].total_cost \in Nat
    <3>1. scan.new_path \in Paths /\ \A i \in 1..Len(old) : old[i] \in Paths
      BY <1>1, <2>1, <2>3, ScanTypes, ElementOfSeq
    <3>2. QED
      BY <3>1, PathTypes
  <2>6. Sorted(old) /\ DOMAIN new = 1..Len(old) + 1
    BY <1>2, <2>2, <2>3, LenProperties
  <2> HIDE DEF old, new, at, newcost
  <2>7. Sorted(new)
    <3> SUFFICES ASSUME NEW i \in DOMAIN new, NEW j \in DOMAIN new, i < j
                 PROVE  new[i].total_cost <= new[j].total_cost
      BY DEF Sorted
    <3>1. i \in 1..Len(old) + 1 /\ j \in 1..Len(old) + 1
      BY <2>6
    <3>2. CASE j < at
      <4>1. new[i] = old[i] /\ new[j] = old[j] /\ i \in DOMAIN old /\ j \in DOMAIN old
        BY <2>2, <2>3, <3>1, <3>2
      <4>2. QED
        BY <2>6, <4>1 DEF Sorted
    <3>3. CASE j = at
      <4>1. new[i] = old[i] /\ new[j] = scan.new_path /\ i \in 1..Len(old) /\ i < at
        BY <2>2, <2>3, <3>1, <3>3
      <4>2. QED
        BY <2>4, <4>1 DEF newcost
    <3>4. CASE j > at /\ i = at
      <4>1. new[i] = scan.new_path /\ new[j] = old[j - 1] /\ j - 1 \in 1..Len(old) /\ ~(j - 1 < at)
        BY <2>2, <2>3, <3>1, <3>4
      <4>2. old[j - 1].total_cost > newcost
        BY <2>4, <4>1
      <4>3. QED
        BY <2>5, <4>1, <4>2 DEF newcost
    <3>5. CASE j > at /\ i # at
      <4> DEFINE Place(k) == IF k < at THEN k ELSE k - 1
      <4>1. new[i] = old[Place(i)] /\ new[j] = old[Place(j)]
        BY <2>2, <3>1, <3>5
      <4>2. Place(i) \in DOMAIN old /\ Place(j) \in DOMAIN old /\ Place(i) <= Place(j)
        BY <2>2, <2>3, <3>1, <3>5
      <4> HIDE DEF Place
      <4>3. QED
        BY <2>3, <2>5, <2>6, <4>1, <4>2 DEF Sorted
    <3>6. QED
      BY <2>2, <2>3, <3>1, <3>2, <3>3, <3>4, <3>5
  <2>8. QED
    BY <1>2, <1>3, <2>1, <2>2, <2>7 DEF InsertedInOrder, new
<1>9. CASE SetCheapest
  <2>1. rel' = rel /\ scan' = scan
    BY <1>9 DEF SetCheapest
  <2>2. QED
    BY <1>1, <1>2, <1>3, <2>1 DEF InsertedInOrder
<1>10. CASE UNCHANGED vars
  <2>1. rel' = rel /\ scan' = scan
    BY <1>10 DEF vars
  <2>2. QED
    BY <1>1, <1>2, <1>3, <2>1 DEF InsertedInOrder
<1>11. QED
  BY <1>4, <1>5, <1>6, <1>7, <1>8, <1>9, <1>10 DEF Next

\* add_path keeps both lists sorted by total cost, through removals in the middle of a
\* scan and whatever the fuzzy comparisons say: add_path_precheck and
\* get_cheapest_parallel_safe_total_inner rely on it.
THEOREM StaysSorted == Spec => []ListsSorted
<1>1. SortedInv => ListsSorted
  BY DEF SortedInv, ListsSorted
<1>2. QED
  BY SortedInit, SortedStep, <1>1, PTL DEF Spec

------------------------------------------------------------------------------
(* Nothing worth having is lost *)

\* What one comparison establishes: k is as good as q, up to one fuzz factor.
AsGood(list, k, q) ==
  /\ ~Over(k.total_cost, q.total_cost, STD_FUZZ_FACTOR)
  /\ IF list = "partial_pathlist" THEN IsPrefix(q.pathkeys, k.pathkeys)
     ELSE /\ k.required_outer \subseteq q.required_outer
          /\ IsPrefix(EffectiveKeys(q), EffectiveKeys(k))
          /\ NoMoreDemanding(k, q)
          /\ CONSIDER_PATH_STARTUP_COST(q) => ~Over(k.startup_cost, q.startup_cost, STD_FUZZ_FACTOR)

\* What the order of two lists of keys comes to.
LEMMA KeysCompared ==
  ASSUME NEW S, NEW s \in Seq(S), NEW t \in Seq(S)
  PROVE  /\ compare_pathkeys(s, t) \in {"equal", "better1"} => IsPrefix(t, s)
         /\ compare_pathkeys(s, t) \in {"equal", "better2"} => IsPrefix(s, t)
         /\ compare_pathkeys(s, t) \in {"equal", "better1", "better2", "different"}
BY PrefixReflexive DEF compare_pathkeys, IsStrictPrefix

\* What the fuzzy comparison of costs comes to, from either side.
LEMMA CostsCompared ==
  ASSUME NEW p \in Paths, NEW q \in Paths
  PROVE  LET costs == compare_path_costs_fuzzily(p, q, STD_FUZZ_FACTOR)
         IN /\ costs \in {"equal", "better1"} =>
                 /\ ~Over(p.total_cost, q.total_cost, STD_FUZZ_FACTOR)
                 /\ CONSIDER_PATH_STARTUP_COST(q) =>
                      ~Over(p.startup_cost, q.startup_cost, STD_FUZZ_FACTOR)
            /\ costs \in {"equal", "better2"} =>
                 /\ ~Over(q.total_cost, p.total_cost, STD_FUZZ_FACTOR)
                 /\ CONSIDER_PATH_STARTUP_COST(p) =>
                      ~Over(q.startup_cost, p.startup_cost, STD_FUZZ_FACTOR)
            /\ costs \in {"equal", "better1", "better2", "different"}
<1> DEFINE Asym(a, b) == Over(a, b, STD_FUZZ_FACTOR) => ~Over(b, a, STD_FUZZ_FACTOR)
<1>1. ASSUME NEW a \in Nat, NEW b \in Nat PROVE Asym(a, b)
  <2>1. Over(a, b, STD_FUZZ_FACTOR) => b < a
    BY OverIsDearer, StdFuzz
  <2>2. Over(b, a, STD_FUZZ_FACTOR) => a < b
    BY OverIsDearer, StdFuzz
  <2>3. QED
    BY <2>1, <2>2
<1>2. Asym(p.total_cost, q.total_cost) /\ Asym(p.startup_cost, q.startup_cost)
  BY <1>1, PathTypes
<1> DEFINE costs == compare_path_costs_fuzzily(p, q, STD_FUZZ_FACTOR)
           Dearer(a, b) == Over(a.total_cost, b.total_cost, STD_FUZZ_FACTOR)
           Later(a, b)  == Over(a.startup_cost, b.startup_cost, STD_FUZZ_FACTOR)
           Redeemed(a, b) == CONSIDER_PATH_STARTUP_COST(a) /\ Later(b, a)
<1>3. CASE Dearer(p, q)
  <2>1. costs = IF Redeemed(p, q) THEN "different" ELSE "better2"
    BY <1>3 DEF compare_path_costs_fuzzily
  <2>2. QED
    BY <1>2, <1>3, <2>1
<1>4. CASE ~Dearer(p, q) /\ Dearer(q, p)
  <2>1. costs = IF Redeemed(q, p) THEN "different" ELSE "better1"
    BY <1>4 DEF compare_path_costs_fuzzily
  <2>2. QED
    BY <1>2, <1>4, <2>1
<1>5. CASE ~Dearer(p, q) /\ ~Dearer(q, p)
  <2>1. costs = IF Later(p, q) THEN "better2" ELSE IF Later(q, p) THEN "better1" ELSE "equal"
    BY <1>5 DEF compare_path_costs_fuzzily
  <2>2. ~(Later(p, q) /\ Later(q, p))
    BY <1>2
  <2>3. QED
    BY <1>5, <2>1, <2>2
<1>6. QED
  BY <1>3, <1>4, <1>5

LEMMA PartialCostsCompared ==
  ASSUME NEW p \in Paths, NEW q \in Paths
  PROVE  /\ PartialCosts(p, q) \in {"equal", "better1"} =>
              ~Over(p.total_cost, q.total_cost, STD_FUZZ_FACTOR)
         /\ PartialCosts(p, q) \in {"equal", "better2"} =>
              ~Over(q.total_cost, p.total_cost, STD_FUZZ_FACTOR)
         /\ PartialCosts(p, q) \in {"equal", "better1", "better2"}
<1>1. Over(p.total_cost, q.total_cost, STD_FUZZ_FACTOR) => q.total_cost < p.total_cost
  BY OverIsDearer, PathTypes, StdFuzz
<1>2. Over(q.total_cost, p.total_cost, STD_FUZZ_FACTOR) => p.total_cost < q.total_cost
  BY OverIsDearer, PathTypes, StdFuzz
<1>3. QED
  BY <1>1, <1>2, PathTypes DEF PartialCosts

\* A path is removed only for one as good.
LEMMA RemovedForAsGood ==
  ASSUME NEW list \in Lists, NEW new \in Paths, NEW old \in Paths, Removes(list, new, old)
  PROVE  AsGood(list, new, old)
<1>1. CASE list = "partial_pathlist"
  <2>1. partial_remove_old(new, old)
    BY <1>1 DEF Removes
  <2>2. /\ compare_pathkeys(new.pathkeys, old.pathkeys) \in {"equal", "better1"}
        /\ PartialCosts(new, old) \in {"equal", "better1"}
    BY <2>1, KeysCompared, PathTypes DEF partial_remove_old
  <2>3. QED
    BY <1>1, <2>2, KeysCompared, PartialCostsCompared, PathTypes DEF AsGood
<1>2. CASE list = "pathlist"
  <2> DEFINE costs == compare_path_costs_fuzzily(new, old, STD_FUZZ_FACTOR)
             keys  == compare_pathkeys(EffectiveKeys(new), EffectiveKeys(old))
  <2>1. Dominates(new, old, costs, keys) \/ (FullTie(new, old, costs, keys) /\ TieBreak(new, old))
    BY <1>2 DEF Removes, remove_old
  <2>2. keys \in {"equal", "better1", "better2", "different"}
    BY KeysCompared, PathTypes
  <2>3. costs \in {"equal", "better1"} /\ keys \in {"equal", "better1"}
    <3> HIDE DEF costs, keys
    <3>1. QED
      BY <2>1, <2>2 DEF Dominates, FullTie
  <2>4. IsPrefix(EffectiveKeys(old), EffectiveKeys(new))
    BY <2>3, KeysCompared, PathTypes
  <2>5. /\ ~Over(new.total_cost, old.total_cost, STD_FUZZ_FACTOR)
        /\ CONSIDER_PATH_STARTUP_COST(old) =>
             ~Over(new.startup_cost, old.startup_cost, STD_FUZZ_FACTOR)
    BY <2>3, CostsCompared
  <2>6. new.required_outer \subseteq old.required_outer
    <3> HIDE DEF costs, keys
    <3>1. QED
      BY <2>1 DEF Dominates, FullTie
  <2>7. NoMoreDemanding(new, old)
    <3>1. CASE Dominates(new, old, costs, keys)
      <4> HIDE DEF costs, keys
      <4>1. QED
        BY <3>1 DEF Dominates
    <3>2. CASE FullTie(new, old, costs, keys) /\ TieBreak(new, old)
      <4>1. new.required_outer = old.required_outer
        BY <3>2 DEF FullTie
      <4>2. new.rows = old.rows
        BY <4>1, RowsAssumption
      <4>3. QED
        BY <3>2, <4>2, PathTypes DEF TieBreak, NoMoreDemanding
    <3>3. QED
      BY <2>1, <3>1, <3>2
  <2>8. QED
    BY <1>2, <2>4, <2>5, <2>6, <2>7 DEF AsGood
<1>3. QED
  BY <1>1, <1>2 DEF Lists

\* A path is turned away only for one as good.
LEMMA RejectedForAsGood ==
  ASSUME NEW list \in Lists, NEW new \in Paths, NEW old \in Paths, Rejects(list, new, old)
  PROVE  AsGood(list, old, new)
<1>1. CASE list = "partial_pathlist"
  <2>1. partial_reject_new(new, old)
    BY <1>1 DEF Rejects
  <2>2. /\ compare_pathkeys(new.pathkeys, old.pathkeys) \in {"equal", "better2"}
        /\ PartialCosts(new, old) \in {"equal", "better2"}
    BY <2>1, KeysCompared, PathTypes DEF partial_reject_new
  <2>3. QED
    BY <1>1, <2>2, KeysCompared, PartialCostsCompared, PathTypes DEF AsGood
<1>2. CASE list = "pathlist"
  <2> DEFINE costs == compare_path_costs_fuzzily(new, old, STD_FUZZ_FACTOR)
             keys  == compare_pathkeys(EffectiveKeys(new), EffectiveKeys(old))
  <2>1. \/ Dominates(old, new, Flip(costs), Flip(keys))
        \/ FullTie(new, old, costs, keys) /\ ~TieBreak(new, old)
    BY <1>2 DEF Rejects, reject_new
  <2>2. /\ keys \in {"equal", "better1", "better2", "different"}
        /\ costs \in {"equal", "better1", "better2", "different"}
    BY KeysCompared, CostsCompared, PathTypes
  <2>3. costs \in {"equal", "better2"} /\ keys \in {"equal", "better2"}
    <3> HIDE DEF costs, keys
    <3>1. QED
      BY <2>1, <2>2 DEF Dominates, FullTie, Flip
  <2>4. IsPrefix(EffectiveKeys(new), EffectiveKeys(old))
    BY <2>3, KeysCompared, PathTypes
  <2>5. /\ ~Over(old.total_cost, new.total_cost, STD_FUZZ_FACTOR)
        /\ CONSIDER_PATH_STARTUP_COST(new) =>
             ~Over(old.startup_cost, new.startup_cost, STD_FUZZ_FACTOR)
    BY <2>3, CostsCompared
  <2>6. old.required_outer \subseteq new.required_outer
    <3> HIDE DEF costs, keys
    <3>1. QED
      BY <2>1 DEF Dominates, FullTie
  <2>7. NoMoreDemanding(old, new)
    <3>1. CASE Dominates(old, new, Flip(costs), Flip(keys))
      <4> HIDE DEF costs, keys
      <4>1. QED
        BY <3>1 DEF Dominates
    <3>2. CASE FullTie(new, old, costs, keys) /\ ~TieBreak(new, old)
      <4>1. new.required_outer = old.required_outer
        BY <3>2 DEF FullTie
      <4>2. new.rows = old.rows
        BY <4>1, RowsAssumption
      <4>3. new.parallel_safe => old.parallel_safe
        BY <3>2, PathTypes DEF TieBreak
      <4>4. QED
        BY <4>2, <4>3, PathTypes DEF NoMoreDemanding
    <3>3. QED
      BY <2>1, <3>1, <3>2
  <2>8. QED
    BY <1>2, <2>4, <2>5, <2>6, <2>7 DEF AsGood
<1>3. QED
  BY <1>1, <1>2 DEF Lists

LEMMA MatchesItself ==
  ASSUME NEW list \in Lists, NEW p \in Paths, NEW f \in Fuzzes
  PROVE  Matches(list, p, p, f)
BY PathTypes, PrefixReflexive, NotDearerIsWithin DEF Matches, NoMoreDemanding

LEMMA MatchesWider ==
  ASSUME NEW list \in Lists, NEW k \in Paths, NEW p \in Paths, NEW f \in Fuzzes,
         Matches(list, k, p, f)
  PROVE  Matches(list, k, p, Times(f, STD_FUZZ_FACTOR))
BY PathTypes, StdFuzz, WithinWider DEF Matches

\* Replacing a match by a path as good costs one fuzz factor.
LEMMA MatchesThrough ==
  ASSUME NEW list \in Lists, NEW p \in Paths, NEW q \in Paths, NEW k \in Paths,
         NEW f \in Fuzzes, Matches(list, q, p, f), AsGood(list, k, q)
  PROVE  Matches(list, k, p, Times(f, STD_FUZZ_FACTOR))
<1>1. ~Over(k.total_cost, p.total_cost, Times(f, STD_FUZZ_FACTOR))
  BY PathTypes, StdFuzz, WithinTransitive DEF Matches, AsGood
<1>2. CASE list = "partial_pathlist"
  <2>1. IsPrefix(p.pathkeys, k.pathkeys)
    BY <1>2, PathTypes, PrefixTransitive DEF Matches, AsGood
  <2>2. QED
    BY <1>1, <1>2, <2>1 DEF Matches
<1>3. CASE list # "partial_pathlist"
  <2>1. k.required_outer \subseteq p.required_outer /\ q.required_outer \subseteq p.required_outer
    BY <1>3 DEF Matches, AsGood
  <2>2. IsPrefix(EffectiveKeys(p), EffectiveKeys(k))
    BY <1>3, PathTypes, PrefixTransitive DEF Matches, AsGood
  <2>3. NoMoreDemanding(k, p)
    BY <1>3, PathTypes DEF Matches, AsGood, NoMoreDemanding
  <2>4. StartupCounts(p) => ~Over(k.startup_cost, p.startup_cost, Times(f, STD_FUZZ_FACTOR))
    <3>1. StartupCounts(p) => CONSIDER_PATH_STARTUP_COST(q)
      BY <2>1 DEF StartupCounts, CONSIDER_PATH_STARTUP_COST
    <3>2. StartupCounts(p) => /\ ~Over(q.startup_cost, p.startup_cost, f)
                              /\ ~Over(k.startup_cost, q.startup_cost, STD_FUZZ_FACTOR)
      BY <1>3, <3>1 DEF Matches, AsGood
    <3>3. QED
      BY <3>2, PathTypes, StdFuzz, WithinTransitive
  <2>5. QED
    BY <1>1, <1>3, <2>1, <2>2, <2>3, <2>4 DEF Matches
<1>4. QED
  BY <1>2, <1>3

OfferedInv == TypeOK /\ OfferedHeld

\* Matching depends on the state through what set the costs of starting up aside.
LEMMA MatchesStays ==
  ASSUME UNCHANGED <<consider_startup, consider_param_startup>>,
         NEW list, NEW k, NEW p, NEW f
  PROVE  Matches(list, k, p, f)' <=> Matches(list, k, p, f)
BY DEF Matches, StartupCounts

LEMMA OfferedInit == Init => OfferedInv
BY TypeInit DEF Init, OfferedInv, OfferedHeld

LEMMA HeldPaths ==
  ASSUME TypeOK, NEW list \in Lists
  PROVE  Held(list) \subseteq Paths
<1>1. ToSet(rel[list]) \subseteq Paths
  BY ToSetMembers, ElementOfSeq DEF TypeOK
<1>2. scan # Null => scan.new_path \in Paths
  BY ScanTypes
<1>3. QED
  BY <1>1, <1>2 DEF Held

LEMMA OfferedStep == OfferedInv /\ [Next]_vars => OfferedInv'
<1> SUFFICES ASSUME OfferedInv, [Next]_vars PROVE OfferedInv'
  OBVIOUS
<1>1. TypeOK /\ TypeOK' /\ OfferedHeld
  BY TypeStep DEF OfferedInv
<1>2. UNCHANGED <<consider_startup, consider_param_startup>>
  BY DEF Next, Offer, RemoveOld, KeepOld, RejectNew, AcceptNew, Scanning, SetCheapest, vars
<1>3. SUFFICES ASSUME NEW list \in Lists, NEW p \in offered'[list]
      PROVE  \E kept \in Held(list)' : Matches(list, kept, p, slack'[list])
  <2>1. OfferedHeld'
    BY <1>2, <1>3, MatchesStays DEF OfferedHeld
  <2>2. QED
    BY <1>1, <2>1 DEF OfferedInv
<1>4. p \in Paths /\ slack[list] \in Fuzzes /\ slack'[list] \in Fuzzes
  BY <1>1, SlackType DEF TypeOK, Fuzzes
<1>5. ASSUME p \in offered[list]
      PROVE  \E kept \in Held(list) : Matches(list, kept, p, slack[list])
  BY <1>1, <1>5 DEF OfferedHeld
<1>6. ASSUME p \in offered[list], slack'[list] = slack[list], Held(list) \subseteq Held(list)'
      PROVE  \E kept \in Held(list)' : Matches(list, kept, p, slack'[list])
  BY <1>5, <1>6
<1>7. ASSUME NEW l \in Lists, NEW new \in Paths, Offer(l, new)
      PROVE  \E kept \in Held(list)' : Matches(list, kept, p, slack'[list])
  <2>1. /\ rel' = rel /\ slack' = slack /\ scan = Null
        /\ scan'.list = l /\ scan'.new_path = new /\ scan' # Null
        /\ offered' = [offered EXCEPT ![l] = @ \cup {new}]
    <3>1. scan' \in Scans
      BY <1>7 DEF Offer, Scans
    <3>2. QED
      BY <1>7, <3>1, BoundAssumption DEF Offer
  <2>2. Held(list) \subseteq Held(list)'
    BY <2>1 DEF Held
  <2>3. CASE p \in offered[list]
    BY <1>6, <2>1, <2>2, <2>3
  <2>4. CASE p \notin offered[list]
    <3>1. l = list /\ p = new
      BY <1>1, <2>1, <2>4 DEF TypeOK
    <3>2. new \in Held(list)'
      BY <2>1, <3>1 DEF Held
    <3>3. Matches(list, new, p, slack'[list])
      BY <1>4, <3>1, MatchesItself
    <3>4. QED
      BY <3>2, <3>3
  <2>5. QED
    BY <2>3, <2>4
<1>8. CASE RemoveOld
  <2> DEFINE old == rel[scan.list][scan.at]  new == scan.new_path
  <2>1. /\ scan # Null /\ scan' = scan /\ offered' = offered /\ AddFuzz
        /\ scan.at \in 1..Len(rel[scan.list]) /\ Removes(scan.list, new, old)
    BY <1>1, <1>8, ScanTypes DEF RemoveOld, Scanning, Old
  <2>2. scan.list \in Lists /\ new \in Paths /\ rel[scan.list] \in Seq(Paths) /\ old \in Paths
    BY <1>1, <2>1, ScanTypes, ElementOfSeq
  <2>3. AsGood(scan.list, new, old)
    BY <2>1, <2>2, RemovedForAsGood
  <2>4. \A l \in Lists : l # scan.list => rel'[l] = rel[l]
    BY <1>1, <1>8, RemoveOldList
  <2>5. PICK kept \in Held(list) : Matches(list, kept, p, slack[list])
    BY <1>5, <2>1
  <2>6. kept \in Paths
    BY <1>1, HeldPaths
  <2>7. CASE list # scan.list
    <3>1. Held(list)' = Held(list)
      BY <2>1, <2>4, <2>7 DEF Held
    <3>2. slack'[list] = slack[list]
      BY <1>1, <2>1, <2>7, AddFuzzProperties
    <3>3. QED
      BY <2>5, <3>1, <3>2
  <2>8. CASE list = scan.list
    <3>1. slack'[list] = Times(slack[list], STD_FUZZ_FACTOR)
      BY <1>1, <2>1, <2>8, AddFuzzProperties
    <3>2. new \in Held(list)'
      BY <2>1, <2>8 DEF Held
    <3>3. CASE kept = old
      <4>1. Matches(list, new, p, slack'[list])
        BY <1>4, <2>2, <2>3, <2>5, <2>8, <3>1, <3>3, MatchesThrough
      <4>2. QED
        BY <3>2, <4>1
    <3>4. CASE kept # old
      <4>1. Matches(list, kept, p, slack'[list])
        BY <1>4, <2>5, <2>6, <3>1, MatchesWider
      <4>2. kept \in Held(list)'
        <5>1. CASE kept \in ToSet(rel[list])
          <6>1. PICK i \in 1..Len(rel[list]) : kept = rel[list][i]
            BY <2>2, <2>8, <5>1, ToSetMembers
          <6>2. i # scan.at
            BY <2>8, <3>4, <6>1
          <6>3. /\ rel'[list] \in Seq(Paths) /\ Len(rel'[list]) = Len(rel[list]) - 1
                /\ \A j \in 1..Len(rel[list]) - 1 :
                     rel'[list][j] = IF j < scan.at THEN rel[list][j] ELSE rel[list][j + 1]
            BY <1>1, <1>8, <2>8, RemoveOldList
          <6>4. \E j \in 1..Len(rel'[list]) : kept = rel'[list][j]
            <7>1. Len(rel[list]) \in Nat
              BY <2>2, <2>8, LenProperties
            <7>2. CASE i < scan.at
              <8>1. i \in 1..Len(rel[list]) - 1
                BY <2>1, <2>8, <7>1, <7>2
              <8>2. QED
                BY <6>1, <6>3, <7>2, <8>1
            <7>3. CASE i > scan.at
              <8>1. /\ i - 1 \in 1..Len(rel[list]) - 1 /\ ~(i - 1 < scan.at) /\ (i - 1) + 1 = i
                BY <2>1, <2>8, <7>1, <7>3
              <8>2. kept = rel'[list][i - 1]
                BY <6>1, <6>3, <8>1
              <8>3. QED
                BY <6>3, <8>1, <8>2
            <7>4. QED
              BY <2>1, <6>2, <7>2, <7>3
          <6>5. kept \in ToSet(rel'[list])
            BY <6>3, <6>4, ToSetMembers
          <6>6. QED
            BY <6>5 DEF Held
        <5>2. CASE kept \notin ToSet(rel[list])
          <6>1. kept = new
            BY <2>5, <5>2 DEF Held
          <6>2. QED
            BY <3>2, <6>1
        <5>3. QED
          BY <5>1, <5>2
      <4>3. QED
        BY <4>1, <4>2
    <3>5. QED
      BY <3>3, <3>4
  <2>9. QED
    BY <2>7, <2>8
<1>9. CASE KeepOld
  <2>1. /\ rel' = rel /\ slack' = slack /\ offered' = offered /\ scan # Null
        /\ scan'.list = scan.list /\ scan'.new_path = scan.new_path /\ scan' # Null
    <3>1. scan # Null /\ scan \in Scans
      BY <1>1, <1>9, ScanTypes DEF KeepOld, Scanning
    <3>2. PICK i \in {scan.at, scan.insert_at} :
            scan' = [scan EXCEPT !.at = scan.at + 1, !.insert_at = i]
      BY <1>9 DEF KeepOld
    <3>3. scan' \in Scans /\ scan'.list = scan.list /\ scan'.new_path = scan.new_path
      <4>1. i \in Nat /\ scan.at + 1 \in Nat \ {0}
        BY <3>1, <3>2 DEF Scans
      <4>2. QED
        BY <3>1, <3>2, <4>1 DEF Scans
    <3>4. QED
      BY <1>9, <3>1, <3>3, BoundAssumption DEF KeepOld, Scanning
  <2>2. Held(list)' = Held(list)
    BY <2>1 DEF Held
  <2>3. QED
    BY <1>6, <2>1, <2>2
<1>10. CASE RejectNew
  <2> DEFINE old == rel[scan.list][scan.at]  new == scan.new_path
  <2>1. /\ scan # Null /\ scan' = Null /\ offered' = offered /\ AddFuzz /\ rel' = rel
        /\ scan.at \in 1..Len(rel[scan.list]) /\ Rejects(scan.list, new, old)
    BY <1>1, <1>10, ScanTypes DEF RejectNew, Scanning, Old
  <2>2. scan.list \in Lists /\ new \in Paths /\ rel[scan.list] \in Seq(Paths) /\ old \in Paths
    BY <1>1, <2>1, ScanTypes, ElementOfSeq
  <2>3. AsGood(scan.list, old, new)
    BY <2>1, <2>2, RejectedForAsGood
  <2>4. PICK kept \in Held(list) : Matches(list, kept, p, slack[list])
    BY <1>5, <2>1
  <2>5. kept \in Paths
    BY <1>1, HeldPaths
  <2>6. Held(list)' = ToSet(rel[list])
    BY <2>1 DEF Held
  <2>7. CASE list # scan.list
    <3>1. slack'[list] = slack[list] /\ Held(list) = ToSet(rel[list])
      BY <1>1, <2>1, <2>7, AddFuzzProperties DEF Held
    <3>2. QED
      BY <2>4, <2>6, <3>1
  <2>8. CASE list = scan.list
    <3>1. slack'[list] = Times(slack[list], STD_FUZZ_FACTOR)
      BY <1>1, <2>1, <2>8, AddFuzzProperties
    <3>2. CASE kept \in ToSet(rel[list])
      <4>1. Matches(list, kept, p, slack'[list])
        BY <1>4, <2>4, <2>5, <3>1, MatchesWider
      <4>2. QED
        BY <2>6, <3>2, <4>1
    <3>3. CASE kept \notin ToSet(rel[list])
      <4>1. kept = new
        BY <2>4, <3>3 DEF Held
      <4>2. Matches(list, old, p, slack'[list])
        BY <1>4, <2>2, <2>3, <2>4, <2>8, <3>1, <4>1, MatchesThrough
      <4>3. old \in ToSet(rel[list])
        BY <2>1, <2>2, <2>8, ToSetMembers
      <4>4. QED
        BY <2>6, <4>2, <4>3
    <3>4. QED
      BY <3>2, <3>3
  <2>9. QED
    BY <2>7, <2>8
<1>11. CASE AcceptNew
  <2>1. scan # Null /\ scan' = Null /\ offered' = offered /\ slack' = slack
    BY <1>11 DEF AcceptNew, Scanning
  <2>2. Held(list) \subseteq Held(list)'
    <3>1. CASE list # scan.list
      <4>1. rel'[list] = rel[list]
        BY <1>1, <1>11, <3>1, AcceptNewList
      <4>2. QED
        BY <2>1, <3>1, <4>1 DEF Held
    <3>2. CASE list = scan.list
      <4> DEFINE s == rel[list]  t == rel'[list]  at == scan.insert_at + 1
      <4>1. /\ t \in Seq(Paths) /\ Len(t) = Len(s) + 1 /\ at \in 1..Len(s) + 1
            /\ \A j \in 1..Len(s) + 1 :
                 t[j] = IF j < at THEN s[j] ELSE IF j = at THEN scan.new_path ELSE s[j - 1]
        BY <1>1, <1>11, <3>2, AcceptNewList
      <4>2. s \in Seq(Paths) /\ Len(s) \in Nat
        BY <1>1, <2>1, <3>2, ScanTypes
      <4>3. scan.new_path \in ToSet(t)
        <5> HIDE DEF s, t, at
        <5>1. at \in 1..Len(t) /\ t[at] = scan.new_path
          BY <4>1, <4>2
        <5>2. QED
          BY <4>1, <5>1, ToSetMembers
      <4>4. ToSet(s) \subseteq ToSet(t)
        <5> SUFFICES ASSUME NEW k \in ToSet(s) PROVE k \in ToSet(t)
          OBVIOUS
        <5>1. PICK i \in 1..Len(s) : k = s[i]
          BY <4>2, ToSetMembers
        <5> HIDE DEF s, t, at
        <5>2. CASE i < at
          <6>1. i \in 1..Len(t) /\ t[i] = s[i]
            BY <4>1, <4>2, <5>2
          <6>2. QED
            BY <4>1, <5>1, <6>1, ToSetMembers
        <5>3. CASE ~(i < at)
          <6>1. i + 1 \in 1..Len(s) + 1 /\ ~(i + 1 < at) /\ i + 1 # at /\ (i + 1) - 1 = i
            BY <4>1, <4>2, <5>3
          <6>2. t[i + 1] = s[i] /\ i + 1 \in 1..Len(t)
            BY <4>1, <6>1
          <6>3. QED
            BY <4>1, <5>1, <6>2, ToSetMembers
        <5>4. QED
          BY <5>2, <5>3
      <4>5. QED
        BY <2>1, <3>2, <4>3, <4>4 DEF Held
    <3>3. QED
      BY <3>1, <3>2
  <2>3. QED
    BY <1>6, <2>1, <2>2
<1>12. CASE SetCheapest \/ UNCHANGED vars
  <2>1. rel' = rel /\ scan' = scan /\ offered' = offered /\ slack' = slack
    BY <1>12 DEF SetCheapest, vars
  <2>2. Held(list)' = Held(list)
    BY <2>1 DEF Held
  <2>3. QED
    BY <1>6, <2>1, <2>2
<1>13. QED
  BY <1>7, <1>8, <1>9, <1>10, <1>11, <1>12 DEF Next

\* Whatever paths are offered, in whatever order, every path ever offered has a path in
\* the list that is as good in every respect, up to one fuzz factor for each path that
\* add_path or add_partial_path has removed or turned away.
THEOREM NothingLost == Spec => []OfferedMatched
<1>1. OfferedInv => OfferedMatched
  BY DEF OfferedInv, OfferedHeld, OfferedMatched, Held
<1>2. QED
  BY OfferedInit, OfferedStep, <1>1, PTL DEF Spec

------------------------------------------------------------------------------
(* The prechecks *)

LEMMA OverMonotone ==
  ASSUME NEW a \in Nat, NEW b \in Nat, NEW c \in Nat, NEW d \in Nat, NEW f \in Fuzzes,
         Over(a, b, f), a <= c, d <= b
  PROVE  Over(c, d, f)
<1>1. a * f[2] <= c * f[2] /\ d * f[1] <= b * f[1]
  BY ProductMonotone DEF Fuzzes
<1>2. a * f[2] \in Nat /\ c * f[2] \in Nat /\ d * f[1] \in Nat /\ b * f[1] \in Nat
  BY DEF Fuzzes
<1>3. QED
  BY <1>1, <1>2 DEF Over

LEMMA MinOfPlaces ==
  ASSUME NEW I \in SUBSET Nat, I # {}
  PROVE  Min(I) \in I /\ \A i \in I : Min(I) <= i
<1> DEFINE R == OpToRel(<, Nat)
<1>1. PICK m \in I : \A i \in I : <<i, m>> \notin R
  BY NatLessThanWellFounded, WFMin
<1>2. \A i \in I : m <= i
  <2>1. \A i \in I : ~(i < m)
    BY <1>1 DEF OpToRel
  <2>2. QED
    BY <2>1
<1>3. QED
  BY <1>2 DEF Min

\* The precheck finds a hopeless path exactly if there is one fuzzily cheaper: that it
\* stops at the first path that is not loses nothing, as the list is sorted.
LEMMA PrecheckFinds ==
  ASSUME SortedInv, NEW p, p.total_cost \in Nat
  PROVE  add_path_precheck(p) <=>
           ~\E i \in 1..Len(rel["pathlist"]) :
               /\ Over(p.total_cost, rel["pathlist"][i].total_cost, STD_FUZZ_FACTOR)
               /\ Hopeless(p, rel["pathlist"][i])
<1> DEFINE list == rel["pathlist"]
           over(i) == Over(p.total_cost, list[i].total_cost, STD_FUZZ_FACTOR)
           I == {i \in 1..Len(list) : ~over(i)}
           stop == IF I # {} THEN Min(I) ELSE 0
           seen == IF stop = 0 THEN DOMAIN list ELSE 1..stop - 1
<1>1. /\ list \in Seq(Paths) /\ Len(list) \in Nat /\ DOMAIN list = 1..Len(list)
      /\ \A i \in 1..Len(list) : list[i] \in Paths /\ list[i].total_cost \in Nat
  <2>1. list \in Seq(Paths)
    BY DEF SortedInv, TypeOK, Lists
  <2>2. QED
    BY <2>1, LenProperties, ElementOfSeq, PathTypes
<1>2. \A i, j \in 1..Len(list) : i < j => list[i].total_cost <= list[j].total_cost
  BY <1>1 DEF SortedInv, SortedByTotal, Lists
<1>3. \A i, j \in 1..Len(list) : i < j /\ over(j) => over(i)
  BY <1>1, <1>2, OverMonotone, StdFuzz
<1>4. add_path_precheck(p) <=> \A i \in seen : ~Hopeless(p, list[i])
  BY DEF add_path_precheck, SelectInSeq
<1>5. seen = {i \in 1..Len(list) : over(i)}
  <2>1. CASE I = {}
    BY <1>1, <2>1
  <2>2. CASE I # {}
    <3>1. I \in SUBSET Nat
      OBVIOUS
    <3>2. Min(I) \in I /\ \A i \in I : Min(I) <= i
      BY <2>2, <3>1, MinOfPlaces
    <3>3. stop \in I /\ (\A i \in I : stop <= i) /\ stop \in 1..Len(list) /\ seen = 1..stop - 1
      BY <2>2, <3>2
    <3> HIDE DEF stop, seen, over, list
    <3>4. \A i \in 1..stop - 1 : i \in 1..Len(list) /\ over(i)
      BY <1>1, <3>3
    <3>5. \A i \in 1..Len(list) : over(i) => i < stop
      <4> SUFFICES ASSUME NEW i \in 1..Len(list), over(i), ~(i < stop) PROVE FALSE
        OBVIOUS
      <4>1. ~over(stop)
        BY <3>3
      <4>2. i = stop \/ stop < i
        BY <1>1, <3>3
      <4>3. QED
        BY <1>3, <3>3, <4>1, <4>2
    <3>6. QED
      BY <1>1, <3>3, <3>4, <3>5
  <2>3. QED
    BY <2>1, <2>2
<1> HIDE DEF seen, list, over
<1>6. QED
  BY <1>4, <1>5 DEF over, list

LEMMA InList ==
  ASSUME TypeOK, NEW l \in Lists, NEW i \in 1..Len(rel[l])
  PROVE  rel[l][i] \in ToSet(rel[l]) /\ rel[l][i] \in Paths
<1>1. rel[l] \in Seq(Paths)
  BY DEF TypeOK
<1>2. QED
  BY <1>1, ToSetMembers, ElementOfSeq

\* A path that is fuzzily dearer than one of the list and hopeless beside it is turned
\* away by that one, and so is any that costs still more.
LEMMA HopelessIsRejected ==
  ASSUME NEW p \in Paths, NEW q \in Paths, NEW k \in Paths,
         Over(p.total_cost, k.total_cost, STD_FUZZ_FACTOR), Hopeless(p, k),
         q.startup_cost >= p.startup_cost, q.total_cost >= p.total_cost,
         q.pathkeys = p.pathkeys, q.required_outer = p.required_outer,
         q.parallel_safe => k.parallel_safe
  PROVE  reject_new(q, k)
<1> DEFINE costs == compare_path_costs_fuzzily(q, k, STD_FUZZ_FACTOR)
           keys == compare_pathkeys(EffectiveKeys(q), EffectiveKeys(k))
<1>1. Over(q.total_cost, k.total_cost, STD_FUZZ_FACTOR)
  BY OverMonotone, PathTypes, StdFuzz
<1>2. ~(CONSIDER_PATH_STARTUP_COST(q) /\ Over(k.startup_cost, q.startup_cost, STD_FUZZ_FACTOR))
  <2>1. CASE Over(p.startup_cost, k.startup_cost, STD_FUZZ_FACTOR)
    <3>1. k.startup_cost < p.startup_cost
      BY <2>1, OverIsDearer, PathTypes, StdFuzz
    <3>2. k.startup_cost <= q.startup_cost
      BY <3>1, PathTypes
    <3>3. QED
      BY <3>2, NotDearerIsWithin, PathTypes, StdFuzz
  <2>2. CASE ~CONSIDER_PATH_STARTUP_COST(p)
    BY <2>2 DEF CONSIDER_PATH_STARTUP_COST
  <2>3. QED
    BY <2>1, <2>2 DEF Hopeless
<1>3. costs = "better2"
  BY <1>1, <1>2 DEF compare_path_costs_fuzzily
<1>4. keys \in {"equal", "better2"}
  BY DEF Hopeless, pathkeys_contained_in, EffectiveKeys
<1>5. k.required_outer = q.required_outer /\ k.rows = q.rows
  BY RowsAssumption DEF Hopeless
<1>6. NoMoreDemanding(k, q)
  BY <1>5, PathTypes DEF NoMoreDemanding
<1> HIDE DEF costs, keys
<1>7. Dominates(k, q, Flip(costs), Flip(keys))
  BY <1>3, <1>4, <1>5, <1>6 DEF Dominates, Flip
<1>8. QED
  BY <1>7 DEF reject_new, costs, keys

\* What a refusal by add_partial_path_precheck rests on.
LEMMA PartialPrecheckFinds ==
  ASSUME SortedInv, NEW p \in Paths, p.required_outer = {}, ~add_partial_path_precheck(p)
  PROVE  \/ \E k \in ToSet(rel["partial_pathlist"]) : partial_reject_new(p, k)
         \/ \E k \in ToSet(rel["pathlist"]) :
              k.total_cost < p.total_cost /\ IsPrefix(p.pathkeys, k.pathkeys)
<1> DEFINE list == rel["partial_pathlist"]
           keys(old) == compare_pathkeys(p.pathkeys, old.pathkeys)
           Worse(old)  == PartialCosts(p, old) = "better2" /\ keys(old) \notin {"different", "better1"}
           Better(old) == PartialCosts(p, old) = "better1" /\ keys(old) \notin {"different", "better2"}
           I == {i \in 1..Len(list) : Worse(list[i]) \/ Better(list[i])}
           stop == IF I # {} THEN Min(I) ELSE 0
           late == [p EXCEPT !.startup_cost = p.total_cost]
<1>1. TypeOK /\ list \in Seq(Paths) /\ {"pathlist", "partial_pathlist"} = Lists
  BY DEF SortedInv, TypeOK, Lists
<1>2. ~(IF stop # 0 THEN Better(list[stop]) ELSE add_path_precheck(late))
  BY DEF add_partial_path_precheck, SelectInSeq
<1>3. CASE I # {}
  <2>1. stop \in I
    <3>1. I \in SUBSET Nat
      OBVIOUS
    <3> HIDE DEF I
    <3>2. QED
      BY <1>3, <3>1, MinOfPlaces
  <2>2. PICK i \in 1..Len(list) : i = stop /\ (Worse(list[i]) \/ Better(list[i])) /\ i # 0
    <3> HIDE DEF stop, Worse, Better
    <3>1. QED
      BY <2>1
  <2>3. Worse(list[i])
    BY <1>2, <2>2
  <2>4. list[i] \in ToSet(list) /\ list[i] \in Paths
    BY <1>1, InList
  <2>5. keys(list[i]) \in {"equal", "better2"}
    BY <2>3, <2>4, KeysCompared, PathTypes
  <2>6. partial_reject_new(p, list[i])
    BY <2>3, <2>5 DEF partial_reject_new
  <2>7. QED
    BY <2>4, <2>6
<1>4. CASE I = {}
  <2>1. ~add_path_precheck(late)
    BY <1>2, <1>4
  <2>2. /\ late.total_cost = p.total_cost /\ late.pathkeys = p.pathkeys
        /\ late.required_outer = p.required_outer
    BY PathsAssumption
  <2> HIDE DEF late
  <2>3. PICK i \in 1..Len(rel["pathlist"]) :
          /\ Over(p.total_cost, rel["pathlist"][i].total_cost, STD_FUZZ_FACTOR)
          /\ Hopeless(late, rel["pathlist"][i])
    BY <2>1, <2>2, PathTypes, PrecheckFinds
  <2> DEFINE k == rel["pathlist"][i]
  <2>4. k \in ToSet(rel["pathlist"]) /\ k \in Paths
    BY <1>1, InList
  <2>5. k.total_cost < p.total_cost
    BY <2>3, <2>4, OverIsDearer, PathTypes, StdFuzz
  <2>6. EffectiveKeys(late) = p.pathkeys /\ EffectiveKeys(k) = k.pathkeys
    BY <2>2, <2>3 DEF Hopeless, EffectiveKeys
  <2>7. compare_pathkeys(p.pathkeys, k.pathkeys) \in {"equal", "better2"}
    BY <2>3, <2>6 DEF Hopeless, pathkeys_contained_in
  <2>8. IsPrefix(p.pathkeys, k.pathkeys)
    BY <2>4, <2>7, KeysCompared, PathTypes
  <2>9. QED
    BY <2>4, <2>5, <2>8
<1>5. QED
  BY <1>3, <1>4

LEMMA PrecheckInList == SortedInv => PrecheckSound
<1> SUFFICES ASSUME SortedInv, scan = Null PROVE PrecheckSound
  BY DEF PrecheckSound
<1> DEFINE kept == ToSet(rel["pathlist"])
           partial == ToSet(rel["partial_pathlist"])
           CouldBe(q, p) == /\ q.startup_cost >= p.startup_cost /\ q.total_cost >= p.total_cost
                            /\ q.pathkeys = p.pathkeys /\ q.required_outer = p.required_outer
                            /\ \A k \in kept : q.parallel_safe => k.parallel_safe
           Hopes == {p \in Paths : add_path_precheck(p)}
<1>1. TypeOK /\ rel["pathlist"] \in Seq(Paths)
  BY DEF SortedInv, TypeOK, Lists
<1>2. kept \subseteq Paths
  BY <1>1, ToSetMembers, ElementOfSeq
<1>3. ASSUME NEW p \in Paths
      PROVE  p \in Hopes <=>
               ~\E k \in kept : Over(p.total_cost, k.total_cost, STD_FUZZ_FACTOR) /\ Hopeless(p, k)
  <2>1. p \in Hopes <=>
          ~\E i \in 1..Len(rel["pathlist"]) :
              /\ Over(p.total_cost, rel["pathlist"][i].total_cost, STD_FUZZ_FACTOR)
              /\ Hopeless(p, rel["pathlist"][i])
    BY PrecheckFinds, PathTypes
  <2>2. \A k : k \in kept <=> \E i \in 1..Len(rel["pathlist"]) : k = rel["pathlist"][i]
    BY <1>1, ToSetMembers
  <2> HIDE DEF kept, Hopes
  <2>3. QED
    BY <2>1, <2>2
<1>4. ASSUME NEW p \in Paths, p \notin Hopes, NEW q \in Paths, CouldBe(q, p)
      PROVE  \E k \in kept : reject_new(q, k)
  <2>1. PICK k \in kept : Over(p.total_cost, k.total_cost, STD_FUZZ_FACTOR) /\ Hopeless(p, k)
    BY <1>3, <1>4
  <2>2. k \in Paths
    BY <1>2
  <2>3. reject_new(q, k)
    BY <1>4, <2>1, <2>2, HopelessIsRejected
  <2>4. QED
    BY <2>3
<1>5. ASSUME NEW p \in Paths, p.parallel_safe, p.required_outer = {}, ~add_partial_path_precheck(p)
      PROVE  \/ \E k \in partial : partial_reject_new(p, k)
             \/ \E k \in kept : k.total_cost < p.total_cost /\ IsPrefix(p.pathkeys, k.pathkeys)
  BY <1>5, PartialPrecheckFinds
<1>6. QED
  BY <1>3, <1>4, <1>5 DEF PrecheckSound

\* add_path_precheck turns a path away only if add_path would, whatever its costs turn out
\* to be above the bounds it was asked about; add_partial_path_precheck only if
\* add_partial_path would or a serial path is cheaper and as well ordered.
THEOREM PrecheckTurnsAwayRightly == Spec => []PrecheckSound
<1>1. QED
  BY SortedInit, SortedStep, PrecheckInList, PTL DEF Spec

------------------------------------------------------------------------------
(* The searches of a list *)

\* Costs are compared without a fuzz: any two paths one way or the other, and transitively.
LEMMA CostsOrdered ==
  ASSUME NEW criterion
  PROVE  /\ \A p, q \in Paths : compare_path_costs(p, q, criterion) \in {-1, 0, 1}
         /\ \A p, q \in Paths : compare_path_costs(p, q, criterion) = -compare_path_costs(q, p, criterion)
         /\ \A p, q, r \in Paths :
              compare_path_costs(p, q, criterion) <= 0 /\ compare_path_costs(q, r, criterion) <= 0 =>
                compare_path_costs(p, r, criterion) <= 0
<1>1. \A p \in Paths : p.startup_cost \in Nat /\ p.total_cost \in Nat
  BY PathTypes
<1>2. CASE criterion = "STARTUP_COST"
  BY <1>1, <1>2 DEF compare_path_costs
<1>3. CASE criterion # "STARTUP_COST"
  BY <1>1, <1>3 DEF compare_path_costs
<1>4. QED
  BY <1>2, <1>3

LEMMA HalfCostsOrdered ==
  LET Half(p, q) == compare_fractional_path_costs(p, q, <<1, 2>>)
  IN /\ \A p, q \in Paths : Half(p, q) <= 0 \/ Half(q, p) <= 0
     /\ \A p, q, r \in Paths : Half(p, q) <= 0 /\ Half(q, r) <= 0 => Half(p, r) <= 0
<1> DEFINE Cost(p) == p.startup_cost * 2 + 1 * (p.total_cost - p.startup_cost)
           Half(p, q) == compare_fractional_path_costs(p, q, <<1, 2>>)
<1>1. \A p \in Paths : Cost(p) \in Int
  BY PathTypes
<1>2. \A p, q \in Paths : Half(p, q) <= 0 <=> Cost(p) <= Cost(q)
  <2>1. ASSUME NEW p \in Paths, NEW q \in Paths
        PROVE  Half(p, q) = LET d == Cost(p) - Cost(q) IN CASE d < 0 -> -1 [] d > 0 -> 1 [] OTHER -> 0
    BY DEF compare_fractional_path_costs
  <2> HIDE DEF Cost, Half
  <2>2. QED
    BY <1>1, <2>1
<1> HIDE DEF Cost, Half
<1>3. QED
  BY <1>1, <1>2 DEF Half

\* A search in one pass finds a least path of those that fit, if paths can be compared.
LEMMA SearchFinds ==
  ASSUME NEW paths \in Seq(Paths), NEW Good, NEW Cheap,
         \A p, q \in Paths : <<p, q>> \in Cheap \/ <<q, p>> \in Cheap,
         \A p, q, r \in Paths : <<p, q>> \in Cheap /\ <<q, r>> \in Cheap => <<p, r>> \in Cheap,
         NEW f, f[0] = Null,
         \A i \in 1..Len(paths) :
           f[i] = IF f[i - 1] # Null /\ <<f[i - 1], paths[i]>> \in Cheap THEN f[i - 1]
                  ELSE IF paths[i] \in Good THEN paths[i] ELSE f[i - 1]
  PROVE  LET fit == {p \in ToSet(paths) : p \in Good}
         IN IF fit = {} THEN f[Len(paths)] = Null
            ELSE f[Len(paths)] \in fit /\ \A p \in fit : <<f[Len(paths)], p>> \in Cheap
<1> DEFINE Fit(n) == {p \in Paths : p \in Good /\ \E j \in 1..n : p = paths[j]}
           Right(n) == IF Fit(n) = {} THEN f[n] = Null
                       ELSE f[n] \in Fit(n) /\ \A p \in Fit(n) : <<f[n], p>> \in Cheap
           RightAt == {n \in 0..Len(paths) : Right(n)}
<1>1. Len(paths) \in Nat /\ \A i \in 1..Len(paths) : paths[i] \in Paths
  BY LenProperties, ElementOfSeq
<1>2. 0 \in RightAt
  BY <1>1
<1>3. ASSUME NEW n \in 1..Len(paths), n - 1 \in RightAt PROVE n \in RightAt
  <2>1. /\ paths[n] \in Paths /\ n \in 0..Len(paths) /\ Right(n - 1)
        /\ \A j \in 1..n : j = n \/ j \in 1..n - 1
        /\ \A j \in 1..n - 1 : j \in 1..n
        /\ n \in 1..n
    BY <1>1, <1>3
  <2>2. Fit(n) = IF paths[n] \in Good THEN Fit(n - 1) \cup {paths[n]} ELSE Fit(n - 1)
    BY <2>1
  <2>3. Fit(n - 1) \subseteq Paths /\ Null \notin Paths
    BY BoundAssumption
  <2>4. f[n] = IF f[n - 1] # Null /\ <<f[n - 1], paths[n]>> \in Cheap THEN f[n - 1]
               ELSE IF paths[n] \in Good THEN paths[n] ELSE f[n - 1]
    OBVIOUS
  <2>5. Right(n - 1)
    BY <2>1
  <2> HIDE DEF Fit
  <2>6. Right(n)
    <3>1. CASE Fit(n - 1) = {}
      <4>1. f[n - 1] = Null
        BY <2>5, <3>1
      <4>2. f[n] = IF paths[n] \in Good THEN paths[n] ELSE Null
        BY <2>4, <4>1
      <4>3. paths[n] \in Good => <<paths[n], paths[n]>> \in Cheap
        BY <2>1
      <4>4. QED
        BY <2>2, <3>1, <4>2, <4>3
    <3>2. CASE Fit(n - 1) # {}
      <4>1. /\ f[n - 1] \in Paths /\ f[n - 1] \in Fit(n - 1) /\ f[n - 1] # Null
            /\ \A p \in Fit(n - 1) : <<f[n - 1], p>> \in Cheap /\ p \in Paths
        BY <2>3, <2>5, <3>2
      <4>2. CASE <<f[n - 1], paths[n]>> \in Cheap
        BY <2>2, <2>4, <4>1, <4>2
      <4>3. CASE <<f[n - 1], paths[n]>> \notin Cheap
        <5>1. <<paths[n], f[n - 1]>> \in Cheap /\ <<paths[n], paths[n]>> \in Cheap
          BY <2>1, <4>1, <4>3
        <5>2. \A p \in Fit(n - 1) : <<paths[n], p>> \in Cheap
          BY <2>1, <4>1, <5>1
        <5>3. QED
          BY <2>2, <2>4, <4>1, <4>3, <5>1, <5>2
      <4>4. QED
        BY <4>2, <4>3
    <3>3. QED
      BY <3>1, <3>2
  <2>7. QED
    BY <2>1, <2>6
<1>4. Right(Len(paths))
  <2>1. \A n \in 1..Len(paths) : n - 1 \in RightAt => n \in RightAt
    BY <1>3
  <2> HIDE DEF RightAt
  <2>2. \A n \in 0..Len(paths) : n \in RightAt
    BY <1>1, <1>2, <2>1, Induction
  <2>3. Len(paths) \in RightAt
    BY <1>1, <2>2
  <2>4. QED
    BY <2>3 DEF RightAt
<1>5. Fit(Len(paths)) = {p \in ToSet(paths) : p \in Good}
  BY <1>1, ToSetMembers
<1> HIDE DEF Fit
<1>6. QED
  BY <1>4, <1>5

\* The recursions of the two searches: f tells what is matched after each path of the list.
PathkeysMatched(f, paths, keys, outer, criterion, safe) ==
  /\ f[Len(paths)] = get_cheapest_path_for_pathkeys(paths, keys, outer, criterion, safe)
  /\ f[0] = Null
  /\ \A i \in 1..Len(paths) :
       f[i] = IF f[i - 1] # Null /\ compare_path_costs(f[i - 1], paths[i], criterion) <= 0
              THEN f[i - 1]
              ELSE IF Qualifies(paths[i], keys, outer, safe) THEN paths[i] ELSE f[i - 1]
FractionalMatched(f, paths, keys, outer, fraction) ==
  /\ f[Len(paths)] = get_cheapest_fractional_path_for_pathkeys(paths, keys, outer, fraction)
  /\ f[0] = Null
  /\ \A i \in 1..Len(paths) :
       f[i] = IF f[i - 1] # Null /\ compare_fractional_path_costs(f[i - 1], paths[i], fraction) <= 0
              THEN f[i - 1]
              ELSE IF Qualifies(paths[i], keys, outer, FALSE) THEN paths[i] ELSE f[i - 1]

LEMMA PathkeysSteps ==
  ASSUME NEW paths \in Seq(Paths), NEW keys, NEW outer, NEW criterion, NEW safe
  PROVE  \E f : PathkeysMatched(f, paths, keys, outer, criterion, safe)
<1> DEFINE N == Len(paths)
           S == Paths \cup {Null}
           Match(m, i) == IF m # Null /\ compare_path_costs(m, paths[i], criterion) <= 0 THEN m
                          ELSE IF Qualifies(paths[i], keys, outer, safe) THEN paths[i] ELSE m
           Matching(f) == [i \in 0..N |-> IF i = 0 THEN Null ELSE Match(f[i - 1], i)]
           matched == CHOOSE f : f = Matching(f)
           step == [i \in 1..N |-> [m \in S |-> Match(m, i)]]
<1>1. get_cheapest_path_for_pathkeys(paths, keys, outer, criterion, safe) = matched[N]
  BY DEF get_cheapest_path_for_pathkeys, Search
<1>2. N \in Nat /\ \A i \in 1..N : paths[i] \in S
  BY LenProperties, ElementOfSeq
<1>3. \A m \in S, i \in 1..N : Match(m, i) \in S
  BY <1>2
<1> HIDE DEF N, S, Match
<1>4. \E f : f = Matching(f)
  <2>1. step \in [1..N -> [S -> S]] /\ \A i \in 1..N, m \in S : step[i][m] = Match(m, i)
    <3> DEFINE At(i) == [m \in S |-> Match(m, i)]
    <3>1. \A i \in 1..N : At(i) \in [S -> S] /\ \A m \in S : At(i)[m] = Match(m, i)
      BY <1>3
    <3> HIDE DEF At
    <3>2. step = [i \in 1..N |-> At(i)]
      BY DEF At
    <3> HIDE DEF step
    <3>3. QED
      BY <3>1, <3>2
  <2>2. Null \in S
    BY DEF S
  <2> HIDE DEF step
  <2>3. PICK g \in [0..N -> S] : g[0] = Null /\ \A i \in 1..N : g[i] = step[i][g[i - 1]]
    <3>1. N \in Nat /\ Null \in S /\ step \in [1..N -> [S -> S]]
      BY <1>2, <2>1, <2>2
    <3>2. Recurses(N, S, Null, step)
      BY <3>1, Recursion
    <3>3. QED
      BY <3>2 DEF Recurses
  <2>4. \A i \in 0..N : i # 0 => i \in 1..N /\ i - 1 \in 0..N
    BY <1>2
  <2>5. \A i \in 0..N : g[i] = IF i = 0 THEN Null ELSE Match(g[i - 1], i)
    BY <2>1, <2>3, <2>4
  <2>6. g = Matching(g)
    BY <2>5
  <2>7. QED
    BY <2>6
<1>5. matched = Matching(matched)
  BY <1>4
<1> HIDE DEF matched
<1>6. matched[0] = Null /\ \A i \in 1..N : matched[i] = Match(matched[i - 1], i)
  <2>1. 0 \in 0..N /\ \A i \in 1..N : i \in 0..N /\ i # 0
    BY <1>2
  <2>2. \A i \in 0..N : Matching(matched)[i] = IF i = 0 THEN Null ELSE Match(matched[i - 1], i)
    OBVIOUS
  <2> HIDE DEF Matching
  <2>3. QED
    BY <1>5, <2>1, <2>2
<1>7. QED
  BY <1>1, <1>6 DEF N, Match, PathkeysMatched

LEMMA FractionalSteps ==
  ASSUME NEW paths \in Seq(Paths), NEW keys, NEW outer, NEW fraction
  PROVE  \E f : FractionalMatched(f, paths, keys, outer, fraction)
<1> DEFINE N == Len(paths)
           S == Paths \cup {Null}
           Match(m, i) == IF m # Null /\ compare_fractional_path_costs(m, paths[i], fraction) <= 0 THEN m
                          ELSE IF Qualifies(paths[i], keys, outer, FALSE) THEN paths[i] ELSE m
           Matching(f) == [i \in 0..N |-> IF i = 0 THEN Null ELSE Match(f[i - 1], i)]
           matched == CHOOSE f : f = Matching(f)
           step == [i \in 1..N |-> [m \in S |-> Match(m, i)]]
<1>1. get_cheapest_fractional_path_for_pathkeys(paths, keys, outer, fraction) = matched[N]
  BY DEF get_cheapest_fractional_path_for_pathkeys, Search
<1>2. N \in Nat /\ \A i \in 1..N : paths[i] \in S
  BY LenProperties, ElementOfSeq
<1>3. \A m \in S, i \in 1..N : Match(m, i) \in S
  BY <1>2
<1> HIDE DEF N, S, Match
<1>4. \E f : f = Matching(f)
  <2>1. step \in [1..N -> [S -> S]] /\ \A i \in 1..N, m \in S : step[i][m] = Match(m, i)
    <3> DEFINE At(i) == [m \in S |-> Match(m, i)]
    <3>1. \A i \in 1..N : At(i) \in [S -> S] /\ \A m \in S : At(i)[m] = Match(m, i)
      BY <1>3
    <3> HIDE DEF At
    <3>2. step = [i \in 1..N |-> At(i)]
      BY DEF At
    <3> HIDE DEF step
    <3>3. QED
      BY <3>1, <3>2
  <2>2. Null \in S
    BY DEF S
  <2> HIDE DEF step
  <2>3. PICK g \in [0..N -> S] : g[0] = Null /\ \A i \in 1..N : g[i] = step[i][g[i - 1]]
    <3>1. N \in Nat /\ Null \in S /\ step \in [1..N -> [S -> S]]
      BY <1>2, <2>1, <2>2
    <3>2. Recurses(N, S, Null, step)
      BY <3>1, Recursion
    <3>3. QED
      BY <3>2 DEF Recurses
  <2>4. \A i \in 0..N : i # 0 => i \in 1..N /\ i - 1 \in 0..N
    BY <1>2
  <2>5. \A i \in 0..N : g[i] = IF i = 0 THEN Null ELSE Match(g[i - 1], i)
    BY <2>1, <2>3, <2>4
  <2>6. g = Matching(g)
    BY <2>5
  <2>7. QED
    BY <2>6
<1>5. matched = Matching(matched)
  BY <1>4
<1> HIDE DEF matched
<1>6. matched[0] = Null /\ \A i \in 1..N : matched[i] = Match(matched[i - 1], i)
  <2>1. 0 \in 0..N /\ \A i \in 1..N : i \in 0..N /\ i # 0
    BY <1>2
  <2>2. \A i \in 0..N : Matching(matched)[i] = IF i = 0 THEN Null ELSE Match(matched[i - 1], i)
    OBVIOUS
  <2> HIDE DEF Matching
  <2>3. QED
    BY <1>5, <2>1, <2>2
<1>7. QED
  BY <1>1, <1>6 DEF N, Match, FractionalMatched

LEMMA MatchedPaths ==
  ASSUME NEW paths \in Seq(Paths), NEW f, f[0] = Null,
         \A i \in 1..Len(paths) : f[i] = f[i - 1] \/ f[i] = paths[i]
  PROVE  \A i \in 0..Len(paths) : f[i] = Null \/ f[i] \in Paths
<1> DEFINE Known == {i \in 0..Len(paths) : f[i] = Null \/ f[i] \in Paths}
<1>1. Len(paths) \in Nat /\ \A i \in 1..Len(paths) : paths[i] \in Paths
  BY LenProperties, ElementOfSeq
<1>2. 0 \in Known
  BY <1>1
<1>3. \A i \in 1..Len(paths) : i - 1 \in Known => i \in Known
  BY <1>1
<1> HIDE DEF Known
<1>4. \A i \in 0..Len(paths) : i \in Known
  BY <1>1, <1>2, <1>3, Induction
<1>5. QED
  BY <1>4 DEF Known

LEMMA KeysContained ==
  ASSUME NEW S, NEW s \in Seq(S), NEW t \in Seq(S)
  PROVE  pathkeys_contained_in(s, t) <=> IsPrefix(s, t)
<1>1. Len(s) \in Nat /\ Len(t) \in Nat
  BY LenProperties
<1>2. IsPrefix(s, t) /\ IsPrefix(t, s) => s = t
  <2>1. SUFFICES ASSUME IsPrefix(s, t), IsPrefix(t, s) PROVE s = t
    OBVIOUS
  <2>2. Len(s) <= Len(t) /\ \A i \in 1..Len(s) : s[i] = t[i]
    BY <2>1, PrefixByElements
  <2>3. Len(t) <= Len(s)
    BY <2>1, PrefixByElements
  <2>4. Len(s) = Len(t)
    BY <1>1, <2>2, <2>3
  <2>5. QED
    BY <2>2, <2>4, SeqEqual
<1>3. IsPrefix(s, s)
  BY PrefixReflexive
<1>4. CASE s = t
  BY <1>3, <1>4 DEF pathkeys_contained_in, compare_pathkeys
<1>5. CASE s # t /\ IsPrefix(t, s)
  <2>1. IsStrictPrefix(t, s)
    BY <1>5 DEF IsStrictPrefix
  <2>2. ~IsStrictPrefix(s, t)
    BY <1>2, <1>5 DEF IsStrictPrefix
  <2>3. compare_pathkeys(s, t) = "better1"
    BY <1>5, <2>1, <2>2 DEF compare_pathkeys
  <2>4. QED
    BY <1>2, <1>5, <2>3 DEF pathkeys_contained_in
<1>6. CASE s # t /\ ~IsPrefix(t, s)
  <2>1. ~IsStrictPrefix(t, s) /\ (IsStrictPrefix(s, t) <=> IsPrefix(s, t))
    BY <1>6 DEF IsStrictPrefix
  <2>2. compare_pathkeys(s, t) = IF IsPrefix(s, t) THEN "better2" ELSE "different"
    BY <1>6, <2>1 DEF compare_pathkeys
  <2>3. QED
    BY <2>2 DEF pathkeys_contained_in
<1>7. QED
  BY <1>4, <1>5, <1>6

\* A path qualifies if it is as well ordered as asked for, and needs no more.
LEMMA QualifiesMeans ==
  ASSUME NEW p \in Paths, NEW keys \in Seq(PathKeys), NEW outer, NEW safe \in BOOLEAN
  PROVE  Qualifies(p, keys, outer, safe) <=>
           IsPrefix(keys, p.pathkeys) /\ p.required_outer \subseteq outer /\ (safe => p.parallel_safe)
<1>1. p.pathkeys \in Seq(PathKeys)
  BY PathTypes
<1>2. pathkeys_contained_in(keys, p.pathkeys) <=> IsPrefix(keys, p.pathkeys)
  BY <1>1, KeysContained
<1>3. QED
  BY <1>2 DEF Qualifies

------------------------------------------------------------------------------
(* What set_cheapest has chosen after some of the paths *)

LeastOf(best, seen, criterion) ==
  IF seen = {} THEN best = Null
  ELSE best \in seen /\ \A p \in seen : compare_path_costs(best, p, criterion) <= 0

LeastParamOf(best, seen) ==
  IF seen = {} THEN best = Null
  ELSE /\ best \in seen
       /\ \A p \in seen :
            /\ ~(p.required_outer \subseteq best.required_outer /\ p.required_outer # best.required_outer)
            /\ p.required_outer = best.required_outer => compare_path_costs(best, p, "TOTAL_COST") <= 0

LEMMA LeastKept ==
  ASSUME NEW seen \in SUBSET Paths, NEW path \in Paths, NEW best, NEW criterion,
         LeastOf(best, seen, criterion)
  PROVE  LeastOf(IF best = Null \/ Supersedes(path, best, criterion) THEN path ELSE best,
                 seen \cup {path}, criterion)
<1> DEFINE Cmp(p, q) == compare_path_costs(p, q, criterion)
           new == IF best = Null \/ Supersedes(path, best, criterion) THEN path ELSE best
<1>1. /\ \A p, q \in Paths : Cmp(p, q) \in {-1, 0, 1} /\ Cmp(p, q) = -Cmp(q, p)
      /\ \A p, q, r \in Paths : Cmp(p, q) <= 0 /\ Cmp(q, r) <= 0 => Cmp(p, r) <= 0
  BY CostsOrdered
<1>2. Null \notin seen /\ seen \subseteq Paths
  BY BoundAssumption
<1>3. best \in Paths /\ Supersedes(path, best, criterion) => Cmp(best, path) >= 0
  <2>1. Supersedes(path, best, criterion) => Cmp(best, path) > 0 \/ Cmp(best, path) = 0
    BY DEF Supersedes
  <2> HIDE DEF Cmp
  <2>2. Cmp(best, path) > 0 \/ Cmp(best, path) = 0 => Cmp(best, path) >= 0 \/ best \notin Paths
    BY <1>1
  <2>3. QED
    BY <2>1, <2>2
<1>4. ~Supersedes(path, best, criterion) => ~(Cmp(best, path) > 0)
  BY DEF Supersedes
<1> HIDE DEF Cmp
<1>5. Cmp(path, path) <= 0
  BY <1>1
<1>6. CASE seen = {}
  BY <1>5, <1>6 DEF LeastOf, Cmp
<1>7. CASE seen # {} /\ Supersedes(path, best, criterion)
  <2>1. best \in Paths /\ best \in seen /\ new = path /\ \A p \in seen : Cmp(best, p) <= 0
    BY <1>2, <1>7 DEF LeastOf, Cmp
  <2>2. Cmp(path, best) <= 0
    BY <1>1, <1>3, <1>7, <2>1
  <2>3. \A p \in seen : Cmp(path, p) <= 0
    BY <1>1, <1>2, <2>1, <2>2
  <2>4. QED
    BY <1>5, <2>1, <2>3 DEF LeastOf, Cmp
<1>8. CASE seen # {} /\ ~Supersedes(path, best, criterion)
  <2>1. best \in Paths /\ best \in seen /\ new = best /\ \A p \in seen : Cmp(best, p) <= 0
    BY <1>2, <1>8 DEF LeastOf, Cmp
  <2>2. Cmp(best, path) <= 0
    BY <1>1, <1>4, <1>8, <2>1
  <2>3. QED
    BY <2>1, <2>2 DEF LeastOf, Cmp
<1>9. QED
  BY <1>6, <1>7, <1>8

LEMMA LeastParamKept ==
  ASSUME NEW seen \in SUBSET Paths, NEW path \in Paths, NEW best, LeastParamOf(best, seen)
  PROVE  LeastParamOf(IF BetterParam(path, best) THEN path ELSE best, seen \cup {path})
<1> DEFINE Cmp(p, q) == compare_path_costs(p, q, "TOTAL_COST")
           Outer(p) == p.required_outer
<1>1. /\ \A p, q \in Paths : Cmp(p, q) \in {-1, 0, 1} /\ Cmp(p, q) = -Cmp(q, p)
      /\ \A p, q, r \in Paths : Cmp(p, q) <= 0 /\ Cmp(q, r) <= 0 => Cmp(p, r) <= 0
  BY CostsOrdered
<1>2. Null \notin seen /\ seen \subseteq Paths
  BY BoundAssumption
<1>3. best # Null =>
        (BetterParam(path, best) <=>
           \/ Outer(path) # Outer(best) /\ Outer(path) \subseteq Outer(best)
           \/ Outer(path) = Outer(best) /\ Cmp(path, best) < 0)
  BY DEF BetterParam, bms_subset_compare
<1> HIDE DEF Cmp
<1>4. Cmp(path, path) <= 0
  BY <1>1
<1>5. CASE seen = {}
  BY <1>4, <1>5 DEF LeastParamOf, BetterParam, Cmp
<1>6. ASSUME seen # {}
      PROVE  /\ best \in Paths /\ best \in seen /\ best # Null
             /\ \A p \in seen : /\ ~(Outer(p) \subseteq Outer(best) /\ Outer(p) # Outer(best))
                                /\ Outer(p) = Outer(best) => Cmp(best, p) <= 0
  BY <1>2, <1>6 DEF LeastParamOf, Cmp
<1>7. CASE seen # {} /\ BetterParam(path, best)
  <2>1. \A p \in seen : ~(Outer(p) \subseteq Outer(path) /\ Outer(p) # Outer(path))
    BY <1>3, <1>6, <1>7
  <2>2. \A p \in seen : Outer(p) = Outer(path) => Cmp(path, p) <= 0
    <3>1. SUFFICES ASSUME NEW p \in seen, Outer(p) = Outer(path) PROVE Cmp(path, p) <= 0
      OBVIOUS
    <3>2. Outer(path) = Outer(best) /\ Cmp(path, best) < 0
      BY <1>3, <1>6, <1>7, <3>1
    <3>3. Cmp(best, p) <= 0 /\ Cmp(path, best) <= 0
      BY <1>1, <1>6, <1>7, <3>1, <3>2
    <3>4. QED
      BY <1>1, <1>2, <1>6, <1>7, <3>3
  <2>3. QED
    BY <1>4, <1>7, <2>1, <2>2 DEF LeastParamOf, Cmp
<1>8. CASE seen # {} /\ ~BetterParam(path, best)
  <2>1. ~(Outer(path) \subseteq Outer(best) /\ Outer(path) # Outer(best))
    BY <1>3, <1>6, <1>8
  <2>2. Outer(path) = Outer(best) => Cmp(best, path) <= 0
    BY <1>1, <1>3, <1>6, <1>8
  <2>3. QED
    BY <1>6, <1>8, <2>1, <2>2 DEF LeastParamOf, Cmp
<1>9. QED
  BY <1>5, <1>7, <1>8

Plain(seen) == {p \in seen : p.required_outer = {}}
ChoicesSoFar == [startup : Paths \cup {Null}, total : Paths \cup {Null}, best_param : Paths \cup {Null},
            params : Seq(Paths)]

\* Of the paths seen: the least unparameterised ones, all parameterised ones and, as long as
\* there are no others, the best of these.
ChosenOf(c, seen) ==
  /\ c \in ChoicesSoFar
  /\ LeastOf(c.startup, Plain(seen), "STARTUP_COST") /\ LeastOf(c.total, Plain(seen), "TOTAL_COST")
  /\ ToSet(c.params) = seen \ Plain(seen)
  /\ Plain(seen) = {} => LeastParamOf(c.best_param, seen)

LEMMA VisitKeeps ==
  ASSUME NEW seen \in SUBSET Paths, NEW path \in Paths, NEW c, ChosenOf(c, seen)
  PROVE  ChosenOf(Visit(c, path), seen \cup {path})
<1> DEFINE v == Visit(c, path)
<1>1. /\ c.startup \in Paths \cup {Null} /\ c.total \in Paths \cup {Null}
      /\ c.best_param \in Paths \cup {Null} /\ c.params \in Seq(Paths)
      /\ c = [startup |-> c.startup, total |-> c.total, best_param |-> c.best_param, params |-> c.params]
  BY DEF ChosenOf, ChoicesSoFar
<1>2. CASE path.required_outer # {}
  <2>1. /\ v.startup = c.startup /\ v.total = c.total /\ v.params = Append(c.params, path)
        /\ v.best_param = IF c.total = Null /\ BetterParam(path, c.best_param) THEN path ELSE c.best_param
        /\ v \in ChoicesSoFar
    <3>1. v = [startup |-> c.startup, total |-> c.total, params |-> Append(c.params, path),
               best_param |-> IF c.total = Null /\ BetterParam(path, c.best_param) THEN path ELSE c.best_param]
      BY <1>1, <1>2 DEF Visit
    <3>2. Append(c.params, path) \in Seq(Paths)
      BY <1>1, AppendProperties
    <3>3. QED
      BY <1>1, <3>1, <3>2 DEF ChoicesSoFar
  <2>2. Plain(seen \cup {path}) = Plain(seen)
    BY <1>2 DEF Plain
  <2>3. ToSet(v.params) = ToSet(c.params) \cup {path}
    <3>1. /\ v.params \in Seq(Paths) /\ Len(v.params) = Len(c.params) + 1 /\ Len(c.params) \in Nat
          /\ \A i \in 1..Len(c.params) : v.params[i] = c.params[i]
          /\ v.params[Len(c.params) + 1] = path
      BY <1>1, <2>1, AppendProperties, LenProperties
    <3>2. \A x : x \in ToSet(v.params) <=> x \in ToSet(c.params) \/ x = path
      <4>1. \A i \in 1..Len(v.params) : i = Len(c.params) + 1 \/ i \in 1..Len(c.params)
        BY <3>1
      <4>2. \A i \in 1..Len(c.params) : i \in 1..Len(v.params)
        BY <3>1
      <4>3. Len(c.params) + 1 \in 1..Len(v.params)
        BY <3>1
      <4>4. \A x : (x \in ToSet(v.params) <=> \E i \in 1..Len(v.params) : x = v.params[i])
                   /\ (x \in ToSet(c.params) <=> \E i \in 1..Len(c.params) : x = c.params[i])
        BY <1>1, <3>1, ToSetMembers
      <4>5. QED
        BY <3>1, <4>1, <4>2, <4>3, <4>4
    <3>3. QED
      BY <3>2
  <2>4. Plain(seen) = {} => LeastParamOf(v.best_param, seen \cup {path})
    <3>1. SUFFICES ASSUME Plain(seen) = {} PROVE LeastParamOf(v.best_param, seen \cup {path})
      OBVIOUS
    <3>2. c.total = Null /\ LeastParamOf(c.best_param, seen)
      BY <3>1 DEF ChosenOf, LeastOf
    <3>3. v.best_param = IF BetterParam(path, c.best_param) THEN path ELSE c.best_param
      BY <2>1, <3>2
    <3>4. QED
      BY <3>2, <3>3, LeastParamKept
  <2>5. ToSet(v.params) = (seen \cup {path}) \ Plain(seen \cup {path})
    BY <1>2, <2>2, <2>3 DEF ChosenOf, Plain
  <2>6. QED
    BY <2>1, <2>2, <2>4, <2>5 DEF ChosenOf
<1>3. CASE path.required_outer = {}
  <2> DEFINE Next_(best, criterion) == IF best = Null \/ Supersedes(path, best, criterion) THEN path ELSE best
  <2>1. /\ v.startup = Next_(c.startup, "STARTUP_COST") /\ v.total = Next_(c.total, "TOTAL_COST")
        /\ v.params = c.params /\ v \in ChoicesSoFar
    <3>1. v = [startup |-> Next_(c.startup, "STARTUP_COST"), total |-> Next_(c.total, "TOTAL_COST"),
               params |-> c.params, best_param |-> c.best_param]
      BY <1>1, <1>3 DEF Visit
    <3>2. QED
      BY <1>1, <3>1 DEF ChoicesSoFar
  <2>2. Plain(seen \cup {path}) = Plain(seen) \cup {path}
    BY <1>3 DEF Plain
  <2>3. Plain(seen) \in SUBSET Paths
    BY DEF Plain
  <2>4. LeastOf(v.startup, Plain(seen \cup {path}), "STARTUP_COST")
    <3>1. LeastOf(c.startup, Plain(seen), "STARTUP_COST")
      BY DEF ChosenOf
    <3>2. LeastOf(Next_(c.startup, "STARTUP_COST"), Plain(seen) \cup {path}, "STARTUP_COST")
      BY <2>3, <3>1, LeastKept
    <3>3. QED
      BY <2>1, <2>2, <3>2
  <2>5. LeastOf(v.total, Plain(seen \cup {path}), "TOTAL_COST")
    <3>1. LeastOf(c.total, Plain(seen), "TOTAL_COST")
      BY DEF ChosenOf
    <3>2. LeastOf(Next_(c.total, "TOTAL_COST"), Plain(seen) \cup {path}, "TOTAL_COST")
      BY <2>3, <3>1, LeastKept
    <3>3. QED
      BY <2>1, <2>2, <3>2
  <2>6. ToSet(v.params) = (seen \cup {path}) \ Plain(seen \cup {path})
    BY <1>3, <2>1 DEF ChosenOf, Plain
  <2>7. QED
    BY <2>1, <2>2, <2>4, <2>5, <2>6 DEF ChosenOf
<1>4. QED
  BY <1>2, <1>3

\* The loop of set_cheapest, taken to the end.
LEMMA SetCheapestChooses ==
  ASSUME NEW list \in Seq(Paths)
  PROVE  \E c : /\ ChosenOf(c, ToSet(list))
                /\ set_cheapest(list) =
                     [cheapest_startup_path |-> c.startup,
                      cheapest_total_path |-> IF c.total = Null THEN c.best_param ELSE c.total,
                      cheapest_parameterized_paths |->
                        IF c.total = Null THEN c.params ELSE <<c.total>> \o c.params]
<1> DEFINE N == Len(list)
           nothing == [startup |-> Null, total |-> Null, best_param |-> Null, params |-> <<>>]
           Visits(f) == [i \in 0..N |-> IF i = 0 THEN nothing ELSE Visit(f[i - 1], list[i])]
           visited == CHOOSE f : f = Visits(f)
           At(i) == [c \in ChoicesSoFar |-> Visit(c, list[i])]
           step == [i \in 1..N |-> At(i)]
           Seen(n) == {p \in Paths : \E i \in 1..n : p = list[i]}
<1>1. set_cheapest(list) =
        LET c == visited[N]
        IN [cheapest_startup_path |-> c.startup,
            cheapest_total_path |-> IF c.total = Null THEN c.best_param ELSE c.total,
            cheapest_parameterized_paths |-> IF c.total = Null THEN c.params ELSE <<c.total>> \o c.params]
  BY DEF set_cheapest
<1>2. N \in Nat /\ \A i \in 1..N : list[i] \in Paths
  BY LenProperties, ElementOfSeq
<1>3. nothing \in ChoicesSoFar
  BY EmptySeq DEF ChoicesSoFar
<1>4. \A c \in ChoicesSoFar, i \in 1..N : Visit(c, list[i]) \in ChoicesSoFar
  <2>1. ASSUME NEW c \in ChoicesSoFar, NEW path \in Paths PROVE Visit(c, path) \in ChoicesSoFar
    <3>1. /\ c.startup \in Paths \cup {Null} /\ c.total \in Paths \cup {Null}
          /\ c.best_param \in Paths \cup {Null} /\ c.params \in Seq(Paths)
          /\ c = [startup |-> c.startup, total |-> c.total, best_param |-> c.best_param, params |-> c.params]
      BY DEF ChoicesSoFar
    <3>2. Append(c.params, path) \in Seq(Paths)
      BY <3>1, AppendProperties
    <3>3. CASE path.required_outer # {}
      <4>1. Visit(c, path) =
              [startup |-> c.startup, total |-> c.total, params |-> Append(c.params, path),
               best_param |-> IF c.total = Null /\ BetterParam(path, c.best_param) THEN path ELSE c.best_param]
        BY <3>1, <3>3 DEF Visit
      <4>2. QED
        BY <3>1, <3>2, <4>1 DEF ChoicesSoFar
    <3>4. CASE path.required_outer = {}
      <4> DEFINE Next_(best, criterion) ==
            IF best = Null \/ Supersedes(path, best, criterion) THEN path ELSE best
      <4>1. Visit(c, path) =
              [startup |-> Next_(c.startup, "STARTUP_COST"), total |-> Next_(c.total, "TOTAL_COST"),
               params |-> c.params, best_param |-> c.best_param]
        BY <3>1, <3>4 DEF Visit
      <4>2. QED
        BY <3>1, <4>1 DEF ChoicesSoFar
    <3>5. QED
      BY <3>3, <3>4
  <2>2. QED
    BY <1>2, <2>1
<1> HIDE DEF N, nothing
<1>5. \E f : f = Visits(f)
  <2>1. /\ step \in [1..N -> [ChoicesSoFar -> ChoicesSoFar]]
        /\ \A i \in 1..N, c \in ChoicesSoFar : step[i][c] = Visit(c, list[i])
    <3>1. \A i \in 1..N : /\ At(i) \in [ChoicesSoFar -> ChoicesSoFar]
                          /\ \A c \in ChoicesSoFar : At(i)[c] = Visit(c, list[i])
      BY <1>4
    <3> HIDE DEF At
    <3>2. step = [i \in 1..N |-> At(i)]
      BY DEF At
    <3> HIDE DEF step
    <3>3. QED
      BY <3>1, <3>2
  <2> HIDE DEF step
  <2>2. Recurses(N, ChoicesSoFar, nothing, step)
    BY <1>2, <1>3, <2>1, Recursion
  <2>3. PICK g \in [0..N -> ChoicesSoFar] : g[0] = nothing /\ \A i \in 1..N : g[i] = step[i][g[i - 1]]
    BY <2>2 DEF Recurses
  <2>4. \A i \in 0..N : i # 0 => i \in 1..N /\ i - 1 \in 0..N
    BY <1>2
  <2>5. \A i \in 0..N : g[i] = IF i = 0 THEN nothing ELSE Visit(g[i - 1], list[i])
    BY <2>1, <2>3, <2>4
  <2>6. g = Visits(g)
    BY <2>5
  <2>7. QED
    BY <2>6
<1>6. visited = Visits(visited)
  BY <1>5
<1> HIDE DEF visited
<1>7. visited[0] = nothing /\ \A i \in 1..N : visited[i] = Visit(visited[i - 1], list[i])
  <2>1. 0 \in 0..N /\ \A i \in 1..N : i \in 0..N /\ i # 0
    BY <1>2
  <2>2. \A i \in 0..N : Visits(visited)[i] = IF i = 0 THEN nothing ELSE Visit(visited[i - 1], list[i])
    OBVIOUS
  <2> HIDE DEF Visits
  <2>3. QED
    BY <1>6, <2>1, <2>2
<1> DEFINE Right == {n \in 0..N : ChosenOf(visited[n], Seen(n))}
<1>8. \A n \in 0..N : n \in Right
  <2>1. 0 \in Right
    <3>1. Seen(0) = {} /\ 0 \in 0..N
      BY <1>2
    <3>2. Plain({}) = {}
      BY DEF Plain
    <3>3. ToSet(nothing.params) = {}
      BY DEF nothing, ToSet
    <3>4. ChosenOf(nothing, {})
      BY <1>3, <3>2, <3>3 DEF nothing, ChosenOf, LeastOf, LeastParamOf
    <3>5. QED
      BY <1>7, <3>1, <3>4
  <2>2. \A n \in 1..N : n - 1 \in Right => n \in Right
    <3>1. SUFFICES ASSUME NEW n \in 1..N, n - 1 \in Right PROVE n \in Right
      OBVIOUS
    <3>2. Seen(n) = Seen(n - 1) \cup {list[n]}
      <4>1. /\ \A j \in 1..n : j = n \/ j \in 1..n - 1
            /\ \A j \in 1..n - 1 : j \in 1..n
            /\ n \in 1..n
        BY <1>2
      <4>2. QED
        BY <1>2, <4>1
    <3>3. Seen(n - 1) \in SUBSET Paths /\ ChosenOf(visited[n - 1], Seen(n - 1)) /\ list[n] \in Paths
      BY <1>2, <3>1
    <3> HIDE DEF Seen
    <3>4. ChosenOf(Visit(visited[n - 1], list[n]), Seen(n - 1) \cup {list[n]})
      BY <3>3, VisitKeeps
    <3>5. n \in 0..N
      BY <1>2
    <3>6. QED
      BY <1>7, <3>2, <3>4, <3>5
  <2> HIDE DEF Right
  <2>3. QED
    BY <1>2, <2>1, <2>2, Induction
<1>9. Seen(N) = ToSet(list)
  BY <1>2, ToSetMembers DEF N
<1>10. N \in 0..N
  BY <1>2
<1>11. QED
  BY <1>1, <1>8, <1>9, <1>10 DEF N

\* So its choices are right.
LEMMA CheapestIsRight ==
  ASSUME rel["pathlist"] \in Seq(Paths), rel["pathlist"] # <<>>,
         cheapest = set_cheapest(rel["pathlist"])
  PROVE  CheapestRight
<1> DEFINE kept == ToSet(rel["pathlist"])
           total == cheapest.cheapest_total_path
<1>1. PICK c : /\ ChosenOf(c, kept)
               /\ cheapest = [cheapest_startup_path |-> c.startup,
                              cheapest_total_path |-> IF c.total = Null THEN c.best_param ELSE c.total,
                              cheapest_parameterized_paths |->
                                IF c.total = Null THEN c.params ELSE <<c.total>> \o c.params]
  BY SetCheapestChooses
<1>2. kept # {} /\ kept \subseteq Paths
  <2>1. /\ Len(rel["pathlist"]) \in Nat /\ \A i \in 1..Len(rel["pathlist"]) : rel["pathlist"][i] \in Paths
        /\ 1 \in 1..Len(rel["pathlist"])
    BY LenProperties, ElementOfSeq, EmptySeq
  <2>2. \A x : x \in kept <=> \E i \in 1..Len(rel["pathlist"]) : x = rel["pathlist"][i]
    BY ToSetMembers
  <2> HIDE DEF kept
  <2>3. rel["pathlist"][1] \in kept
    BY <2>1, <2>2
  <2>4. QED
    BY <2>1, <2>2, <2>3
<1> HIDE DEF kept
<1>3. Plain(kept) \subseteq kept /\ Null \notin kept /\ Plain(kept) = {p \in kept : p.required_outer = {}}
  BY <1>2, BoundAssumption DEF Plain
<1>4. \A p, q \in kept :
        /\ compare_path_costs(p, q, "TOTAL_COST") <= 0 => ~(compare_path_costs(q, p, "TOTAL_COST") < 0)
        /\ compare_path_costs(p, q, "STARTUP_COST") <= 0 => ~(compare_path_costs(q, p, "STARTUP_COST") < 0)
  <2>1. ASSUME NEW p \in kept, NEW q \in kept, NEW criterion
        PROVE  compare_path_costs(p, q, criterion) <= 0 => ~(compare_path_costs(q, p, criterion) < 0)
    <3>1. /\ compare_path_costs(p, q, criterion) \in {-1, 0, 1}
          /\ compare_path_costs(q, p, criterion) = -compare_path_costs(p, q, criterion)
      BY <1>2, CostsOrdered
    <3>2. QED
      BY <3>1
  <2>2. QED
    BY <2>1
<1>5. c.params \in Seq(Paths) /\ ToSet(c.params) = kept \ Plain(kept)
  BY <1>1 DEF ChosenOf, ChoicesSoFar
<1>6. CASE Plain(kept) = {}
  <2>1. c.total = Null /\ c.startup = Null /\ LeastParamOf(c.best_param, kept)
    BY <1>1, <1>6 DEF ChosenOf, LeastOf
  <2>2. /\ total = c.best_param /\ cheapest.cheapest_startup_path = Null
        /\ cheapest.cheapest_parameterized_paths = c.params
    BY <1>1, <2>1
  <2>3. /\ total \in kept
        /\ \A p \in kept :
             /\ ~(p.required_outer \subseteq total.required_outer /\ p.required_outer # total.required_outer)
             /\ p.required_outer = total.required_outer => ~(compare_path_costs(p, total, "TOTAL_COST") < 0)
    BY <1>2, <1>4, <2>1, <2>2 DEF LeastParamOf
  <2>4. QED
    BY <1>3, <1>5, <1>6, <2>2, <2>3 DEF CheapestRight, kept
<1>7. CASE Plain(kept) # {}
  <2>1. /\ c.total \in Plain(kept) /\ c.startup \in Plain(kept) /\ c.total # Null
        /\ \A p \in Plain(kept) : /\ compare_path_costs(c.total, p, "TOTAL_COST") <= 0
                                  /\ compare_path_costs(c.startup, p, "STARTUP_COST") <= 0
    BY <1>1, <1>3, <1>7 DEF ChosenOf, LeastOf
  <2>2. /\ total = c.total /\ cheapest.cheapest_startup_path = c.startup
        /\ cheapest.cheapest_parameterized_paths = <<c.total>> \o c.params
    BY <1>1, <2>1
  <2> DEFINE params == <<c.total>> \o c.params
  <2>3. params[1] = c.total /\ ToSet(params) = {c.total} \cup ToSet(c.params)
    <3>1. <<c.total>> \in Seq(Paths) /\ Len(<<c.total>>) = 1 /\ <<c.total>>[1] = c.total
      BY <1>2, <1>3, <2>1
    <3>2. /\ params \in Seq(Paths) /\ Len(params) = 1 + Len(c.params)
          /\ \A i \in 1..Len(params) : params[i] = IF i <= 1 THEN c.total ELSE c.params[i - 1]
      BY <1>5, <3>1, ConcatProperties
    <3>3. Len(c.params) \in Nat
      BY <1>5, LenProperties
    <3> HIDE DEF params
    <3>4. /\ 1 \in 1..Len(params) /\ params[1] = c.total
          /\ \A i \in 1..Len(c.params) : i + 1 \in 1..Len(params) /\ params[i + 1] = c.params[i]
          /\ \A i \in 1..Len(params) : i = 1 \/ (i - 1 \in 1..Len(c.params) /\ params[i] = c.params[i - 1])
      <4>1. 1 \in 1..Len(params) /\ params[1] = c.total
        BY <3>2, <3>3
      <4>2. \A i \in 1..Len(c.params) : i + 1 \in 1..Len(params) /\ ~(i + 1 <= 1) /\ (i + 1) - 1 = i
        BY <3>2, <3>3
      <4>3. \A i \in 1..Len(params) : i = 1 \/ (i - 1 \in 1..Len(c.params) /\ ~(i <= 1))
        BY <3>2, <3>3
      <4>4. \A i \in 1..Len(c.params) : params[i + 1] = c.params[i]
        BY <3>2, <4>2
      <4>5. \A i \in 1..Len(params) : i = 1 \/ params[i] = c.params[i - 1]
        BY <3>2, <4>3
      <4>6. QED
        BY <4>1, <4>2, <4>3, <4>4, <4>5
    <3>5. \A x : (x \in ToSet(params) <=> \E i \in 1..Len(params) : x = params[i])
                 /\ (x \in ToSet(c.params) <=> \E i \in 1..Len(c.params) : x = c.params[i])
      BY <1>5, <3>2, ToSetMembers
    <3>6. \A x : x \in ToSet(params) <=> x = c.total \/ x \in ToSet(c.params)
      BY <3>4, <3>5
    <3>7. QED
      BY <3>4, <3>6
  <2>4. ToSet(cheapest.cheapest_parameterized_paths) = (kept \ Plain(kept)) \cup (Plain(kept) \cap {total})
    BY <1>5, <2>1, <2>2, <2>3
  <2>5. \A p \in Plain(kept) : /\ ~(compare_path_costs(p, total, "TOTAL_COST") < 0)
                               /\ ~(compare_path_costs(p, cheapest.cheapest_startup_path, "STARTUP_COST") < 0)
    BY <1>3, <1>4, <2>1, <2>2
  <2> HIDE DEF params
  <2>6. QED
    BY <1>3, <1>7, <2>1, <2>2, <2>3, <2>4, <2>5 DEF CheapestRight, kept, params
<1>8. QED
  BY <1>6, <1>7

\* And the searches of the list return what they look for.
LEMMA LookupIsRight ==
  ASSUME SortedInv
  PROVE  LookupRight
<1> DEFINE list == rel["pathlist"]
<1>1. list \in Seq(Paths)
  BY DEF SortedInv, TypeOK, Lists
<1>2. Len(list) \in Nat /\ DOMAIN list = 1..Len(list) /\ \A i \in 1..Len(list) : list[i] \in Paths
  BY <1>1, LenProperties, ElementOfSeq
<1>3. \A x : x \in ToSet(list) <=> \E i \in 1..Len(list) : x = list[i]
  BY <1>1, ToSetMembers
<1>4. \A i, j \in 1..Len(list) : i < j => list[i].total_cost <= list[j].total_cost
  BY <1>2 DEF SortedInv, SortedByTotal, Lists
<1>5. \A keys \in {p.pathkeys : p \in Paths} : keys \in Seq(PathKeys)
  BY PathTypes
<1> HIDE DEF list
<1> DEFINE Fit(keys, outer, safe) ==
             {q \in ToSet(list) : /\ IsPrefix(keys, q.pathkeys) /\ q.required_outer \subseteq outer
                                  /\ safe => q.parallel_safe}
           Good(keys, outer, safe) == {q \in Paths : Qualifies(q, keys, outer, safe)}
<1>6. ASSUME NEW keys \in Seq(PathKeys), NEW outer, NEW safe \in BOOLEAN
      PROVE  /\ Fit(keys, outer, safe) = {q \in ToSet(list) : q \in Good(keys, outer, safe)}
             /\ \A i \in 1..Len(list) :
                  Qualifies(list[i], keys, outer, safe) <=> list[i] \in Good(keys, outer, safe)
  <2>1. \A q \in Paths : Qualifies(q, keys, outer, safe) <=>
          IsPrefix(keys, q.pathkeys) /\ q.required_outer \subseteq outer /\ (safe => q.parallel_safe)
    BY <1>6, QualifiesMeans
  <2>2. QED
    BY <1>2, <1>3, <2>1
<1>7. ASSUME NEW keys \in Seq(PathKeys), NEW outer, NEW criterion, NEW safe \in BOOLEAN
      PROVE  LET found == get_cheapest_path_for_pathkeys(list, keys, outer, criterion, safe)
             IN IF Fit(keys, outer, safe) = {} THEN found = Null
                ELSE /\ found \in Fit(keys, outer, safe)
                     /\ \A p \in Fit(keys, outer, safe) : compare_path_costs(found, p, criterion) <= 0
  <2> DEFINE Cheap == {r \in Paths \X Paths : compare_path_costs(r[1], r[2], criterion) <= 0}
             good == Good(keys, outer, safe)
             fit == {q \in ToSet(list) : q \in good}
  <2>1. PICK f : PathkeysMatched(f, list, keys, outer, criterion, safe)
    BY <1>1, PathkeysSteps
  <2>2. /\ Fit(keys, outer, safe) = fit
        /\ \A i \in 1..Len(list) : Qualifies(list[i], keys, outer, safe) <=> list[i] \in good
    BY <1>6, <1>7
  <2>3. \A p, q : <<p, q>> \in Cheap <=> p \in Paths /\ q \in Paths /\ compare_path_costs(p, q, criterion) <= 0
    OBVIOUS
  <2>4. /\ \A p, q \in Paths : <<p, q>> \in Cheap \/ <<q, p>> \in Cheap
        /\ \A p, q, r \in Paths : <<p, q>> \in Cheap /\ <<q, r>> \in Cheap => <<p, r>> \in Cheap
    <3>1. /\ \A p, q \in Paths : compare_path_costs(p, q, criterion) \in {-1, 0, 1}
          /\ \A p, q \in Paths : compare_path_costs(p, q, criterion) = -compare_path_costs(q, p, criterion)
          /\ \A p, q, r \in Paths :
               compare_path_costs(p, q, criterion) <= 0 /\ compare_path_costs(q, r, criterion) <= 0 =>
                 compare_path_costs(p, r, criterion) <= 0
      BY CostsOrdered
    <3>2. \A p, q \in Paths : compare_path_costs(p, q, criterion) <= 0 \/ compare_path_costs(q, p, criterion) <= 0
      BY <3>1
    <3> HIDE DEF Cheap
    <3>3. QED
      BY <2>3, <3>1, <3>2
  <2> HIDE DEF Cheap, good
  <2>5. \A i \in 0..Len(list) : f[i] = Null \/ f[i] \in Paths
    BY <1>1, <2>1, MatchedPaths DEF PathkeysMatched
  <2>6. \A i \in 1..Len(list) :
          f[i] = IF f[i - 1] # Null /\ <<f[i - 1], list[i]>> \in Cheap THEN f[i - 1]
                 ELSE IF list[i] \in good THEN list[i] ELSE f[i - 1]
    <3>1. \A i \in 1..Len(list) : i - 1 \in 0..Len(list)
      BY <1>2
    <3>2. QED
      BY <1>2, <2>1, <2>2, <2>3, <2>5, <3>1 DEF PathkeysMatched
  <2>7. IF fit = {} THEN f[Len(list)] = Null
        ELSE f[Len(list)] \in fit /\ \A p \in fit : <<f[Len(list)], p>> \in Cheap
    BY <1>1, <2>1, <2>4, <2>6, SearchFinds DEF PathkeysMatched
  <2> HIDE DEF fit
  <2>8. QED
    BY <2>1, <2>2, <2>3, <2>7 DEF PathkeysMatched
<1>8. ASSUME NEW keys \in Seq(PathKeys), NEW outer
      PROVE  LET found == get_cheapest_fractional_path_for_pathkeys(list, keys, outer, <<1, 2>>)
             IN IF Fit(keys, outer, FALSE) = {} THEN found = Null
                ELSE /\ found \in Fit(keys, outer, FALSE)
                     /\ \A p \in Fit(keys, outer, FALSE) : compare_fractional_path_costs(found, p, <<1, 2>>) <= 0
  <2> DEFINE half == <<1, 2>>
             Half(p, q) == compare_fractional_path_costs(p, q, half)
             Cheap == {r \in Paths \X Paths : Half(r[1], r[2]) <= 0}
             good == Good(keys, outer, FALSE)
             fit == {q \in ToSet(list) : q \in good}
  <2>1. /\ \A p, q \in Paths : Half(p, q) <= 0 \/ Half(q, p) <= 0
        /\ \A p, q, r \in Paths : Half(p, q) <= 0 /\ Half(q, r) <= 0 => Half(p, r) <= 0
    BY HalfCostsOrdered
  <2> HIDE DEF half
  <2>2. PICK f : FractionalMatched(f, list, keys, outer, half)
    BY <1>1, FractionalSteps
  <2>3. /\ Fit(keys, outer, FALSE) = fit
        /\ \A i \in 1..Len(list) : Qualifies(list[i], keys, outer, FALSE) <=> list[i] \in good
    BY <1>6, <1>8
  <2>4. \A p, q : <<p, q>> \in Cheap <=> p \in Paths /\ q \in Paths /\ Half(p, q) <= 0
    OBVIOUS
  <2> HIDE DEF Cheap, good, Half
  <2>6. /\ \A p, q \in Paths : <<p, q>> \in Cheap \/ <<q, p>> \in Cheap
        /\ \A p, q, r \in Paths : <<p, q>> \in Cheap /\ <<q, r>> \in Cheap => <<p, r>> \in Cheap
    BY <2>1, <2>4
  <2>7. \A i \in 0..Len(list) : f[i] = Null \/ f[i] \in Paths
    BY <1>1, <2>2, MatchedPaths DEF FractionalMatched
  <2>8. \A i \in 1..Len(list) :
          f[i] = IF f[i - 1] # Null /\ <<f[i - 1], list[i]>> \in Cheap THEN f[i - 1]
                 ELSE IF list[i] \in good THEN list[i] ELSE f[i - 1]
    <3>1. \A i \in 1..Len(list) : i - 1 \in 0..Len(list)
      BY <1>2
    <3>2. QED
      BY <1>2, <2>2, <2>3, <2>4, <2>7, <3>1 DEF FractionalMatched, Half
  <2>9. IF fit = {} THEN f[Len(list)] = Null
        ELSE f[Len(list)] \in fit /\ \A p \in fit : <<f[Len(list)], p>> \in Cheap
    BY <1>1, <2>2, <2>6, <2>8, SearchFinds DEF FractionalMatched
  <2> HIDE DEF fit
  <2>10. QED
    BY <2>2, <2>3, <2>4, <2>9 DEF FractionalMatched, Half, half
\* The first of the sorted list that fits is the cheapest.
<1> DEFINE inner == get_cheapest_parallel_safe_total_inner(list)
           plain == {p \in ToSet(list) : p.parallel_safe /\ p.required_outer = {}}
<1>9. IF plain = {} THEN inner = Null
      ELSE inner \in plain /\ \A p \in plain : inner.total_cost <= p.total_cost
  <2> DEFINE Safe(p) == p.parallel_safe /\ p.required_outer = {}
             I == {i \in 1..Len(list) : Safe(list[i])}
             at == SelectInSeq(list, Safe)
  <2>1. at = (IF I # {} THEN Min(I) ELSE 0) /\ I \in SUBSET Nat
    BY <1>2 DEF SelectInSeq
  <2>2. inner = IF at = 0 THEN Null ELSE list[at]
    BY DEF get_cheapest_parallel_safe_total_inner
  <2> HIDE DEF at
  <2>3. \A p : p \in plain <=> \E i \in I : p = list[i]
    BY <1>3
  <2> HIDE DEF inner, plain
  <2>4. CASE I = {}
    BY <2>1, <2>2, <2>3, <2>4
  <2>5. CASE I # {}
    <3>1. at \in I /\ (\A i \in I : at <= i) /\ at # 0
      <4>1. at \in I /\ \A i \in I : at <= i
        <5> HIDE DEF I
        <5>1. Min(I) \in I /\ \A i \in I : Min(I) <= i
          BY <2>1, <2>5, MinOfPlaces
        <5>2. QED
          BY <2>1, <2>5, <5>1
      <4>2. QED
        BY <4>1
    <3>2. inner = list[at] /\ inner \in plain
      BY <2>2, <2>3, <3>1
    <3>3. \A i \in I : list[at].total_cost <= list[i].total_cost
      <4>1. SUFFICES ASSUME NEW i \in I PROVE list[at].total_cost <= list[i].total_cost
        OBVIOUS
      <4>2. at = i \/ at < i
        BY <3>1
      <4>3. list[at].total_cost \in Nat
        BY <1>2, <3>1, PathTypes
      <4>4. QED
        BY <1>4, <3>1, <4>2, <4>3
    <3>4. QED
      BY <2>3, <3>2, <3>3
  <2>6. QED
    BY <2>4, <2>5
<1> HIDE DEF Fit, inner, plain
<1>10. QED
  BY <1>5, <1>7, <1>8, <1>9 DEF LookupRight, list, Fit, inner, plain

\* Once set_cheapest has run, the list stays as it was.
ChoiceInv ==
  /\ SortedInv
  /\ cheapest # Null =>
       scan = Null /\ rel["pathlist"] # <<>> /\ cheapest = set_cheapest(rel["pathlist"])

LEMMA ChoiceStep == ChoiceInv /\ [Next]_vars => ChoiceInv'
<1>1. SUFFICES ASSUME ChoiceInv, [Next]_vars PROVE ChoiceInv'
  OBVIOUS
<1>2. SortedInv'
  BY <1>1, SortedStep DEF ChoiceInv
<1> DEFINE Kept == cheapest # Null =>
             scan = Null /\ rel["pathlist"] # <<>> /\ cheapest = set_cheapest(rel["pathlist"])
<1>3. Kept
  BY <1>1 DEF ChoiceInv
<1>4. Kept'
  <2>1. CASE SetCheapest
    BY <2>1 DEF SetCheapest
  <2>2. CASE \E list \in Lists, p \in Paths : Offer(list, p)
    BY <2>2 DEF Offer
  <2>3. CASE RemoveOld \/ KeepOld \/ RejectNew \/ AcceptNew
    <3>1. scan # Null /\ cheapest' = cheapest
      BY <2>3 DEF RemoveOld, KeepOld, RejectNew, AcceptNew, Scanning
    <3>2. QED
      BY <1>3, <3>1
  <2>4. CASE UNCHANGED vars
    BY <1>3, <2>4 DEF vars
  <2>5. QED
    BY <1>1, <2>1, <2>2, <2>3, <2>4 DEF Next
<1>5. QED
  BY <1>2, <1>4 DEF ChoiceInv

\* Every choice made from a finished list is right: the least paths by either cost that
\* set_cheapest leaves, or a cheapest one of a least parameterisation, and whatever the
\* searches for an order, a parameterisation or a safe path return.
THEOREM ChoicesAreLeast == Spec => []ChoicesRight
<1>1. Init => ChoiceInv
  BY SortedInit DEF Init, ChoiceInv
<1>2. ASSUME ChoiceInv PROVE ChoicesRight
  <2>1. LookupRight
    BY <1>2, LookupIsRight DEF ChoiceInv
  <2>2. CheapestRight
    <3>1. CASE cheapest = Null
      BY <3>1 DEF CheapestRight
    <3>2. CASE cheapest # Null
      <4>1. rel["pathlist"] \in Seq(Paths)
        BY <1>2 DEF ChoiceInv, SortedInv, TypeOK, Lists
      <4>2. rel["pathlist"] # <<>> /\ cheapest = set_cheapest(rel["pathlist"])
        BY <1>2, <3>2 DEF ChoiceInv
      <4>3. QED
        BY <4>1, <4>2, CheapestIsRight
    <3>3. QED
      BY <3>1, <3>2
  <2>3. QED
    BY <2>1, <2>2 DEF ChoicesRight
<1>3. ChoiceInv => ChoicesRight
  BY <1>2
<1>4. QED
  BY <1>1, <1>3, ChoiceStep, PTL DEF Spec

==============================================================================
