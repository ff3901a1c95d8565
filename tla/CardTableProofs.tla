--------------------------- MODULE CardTableProofs ---------------------------
(***************************************************************************)
(* The hash table of CardTable is a map, for all texts, hash functions,    *)
(* widths of int and comments.  The invariant that makes it one is         *)
(* ChainsSound: an entry sits in the bucket of its hash, once.             *)
(*                                                                         *)
(* What a comment of pairs asks for is what the planner goes on with, for  *)
(* as many.  The invariant is StoreInv: after i turns of the loop that     *)
(* fills the table, get answers as the first i pairs of the comment alone  *)
(* would have it.                                                          *)
(***************************************************************************)
EXTENDS CardTable, FiniteSetTheorems, TLAPS

Sound(chain) == \A p, o \in DOMAIN chain : chain[p].key = chain[o].key => p = o

------------------------------------------------------------------------------
(* Numbers.                                                                *)

\* The size of a printed cardinality is a number.
LEMMA SizeIsNat == ASSUME NEW t \in Nat PROVE Size(t) \in Nat
<1> DEFINE D == {d \in 0..9 : d = 0 \/ t \div 1000 >= 10^d}
<1>0. 0 \in Int /\ 9 \in Int
  OBVIOUS
<1>1. IsFiniteSet(0..9)
  BY <1>0, FS_Interval
<1>2. IsFiniteSet(D)
  BY <1>1, FS_Subset
<1>3. Cardinality(D) \in Nat
  BY <1>2, FS_CardinalityType
<1> QED
  BY <1>3 DEF Size

\* A printed cardinality is a number of thousandths.
LEMMA PrintedIsNat == ASSUME NEW c \in Nat, NEW t \in Printed(c) PROVE t \in Nat
  BY DEF Printed

\* An estimate is a number of rows.
LEMMA RowsAreNat == ASSUME NEW t \in Nat PROVE clamp_row_est(t) \in Nat
  BY DEF clamp_row_est

\* A remainder is an index below the size.
LEMMA ModInRange == ASSUME NEW h \in Nat, NEW n \in Nat \ {0} PROVE h % n \in 0..(n - 1)
  OBVIOUS

\* A key's bucket is one of the table's.
LEMMA HashInTable ==
  ASSUME TypeOK, Usable, NEW k \in Keys
  PROVE  hash(k) \in DOMAIN entries
<1>0. hash_bytes[k] \in Hashes
  BY DEF TypeOK
<1>a. hash_bytes[k] \in Nat
  BY <1>0, NumbersAssumption
<1>b. table_size \in Nat \ {0}
  BY DEF TypeOK, Usable
<1>2. hash_bytes[k] % table_size \in 0..(table_size - 1)
  BY <1>a, <1>b, ModInRange
<1> QED
  BY <1>2 DEF hash, TypeOK

\* The count the decoder leaves in card_num is a number.
LEMMA CardNumIsNat ==
  ASSUME NEW jo \in Comments
  PROVE  csonJsonObj2Struct(jo, CardReplaceAnchor, Card_Replace_Anchor_ref_tbl).card_num \in Nat
<1> DEFINE T == Card_Replace_Anchor_ref_tbl
           it == CHOOSE item \in T : item.count = "card_num"
           A == Succeeds("REAL", jo["card"].arr)
<1>1. ~ \E item \in T : item.field = "card_num"
  BY DEF Card_Replace_Anchor_ref_tbl
<1>2. it.field = "card" /\ it.of = "REAL" /\ it.type = "ARRAY"
  <2>1. \E item \in T : item.count = "card_num"
    BY DEF Card_Replace_Anchor_ref_tbl
  <2>2. it \in T /\ it.count = "card_num"
    BY <2>1
  <2> QED
    BY <2>2 DEF Card_Replace_Anchor_ref_tbl
<1>3. csonJsonObj2Struct(jo, CardReplaceAnchor, T).card_num
        = CountOf(jo, it, CardReplaceAnchor.card_num)
  BY <1>1 DEF csonJsonObj2Struct, CardReplaceAnchor
<1>4. CASE Decodes(jo, it)
  <2>1. "card" \in DOMAIN jo /\ typeof(jo["card"]) = "ARRAY"
    BY <1>2, <1>4 DEF Decodes
  <2>a. Len(jo["card"].arr) \in Nat /\ DOMAIN jo["card"].arr = 1..Len(jo["card"].arr)
    BY <2>1, CommentsAssumption
  <2>b. IsFiniteSet(1..Len(jo["card"].arr))
    BY <2>a, FS_Interval
  <2>2. IsFiniteSet(A)
    BY <2>a, <2>b, FS_Subset DEF Succeeds
  <2>3. Cardinality(A) \in Nat
    BY <2>2, FS_CardinalityType
  <2> QED
    BY <1>2, <1>3, <1>4, <2>3 DEF CountOf, successCount
<1>5. CASE ~Decodes(jo, it)
  BY <1>3, <1>5 DEF CountOf, CardReplaceAnchor
<1> QED
  BY <1>4, <1>5

------------------------------------------------------------------------------
(* Chains.                                                                 *)

\* Position finds the entry of a key if there is one.
LEMMA PositionFinds ==
  ASSUME NEW chain \in Seq(Entry), Sound(chain), NEW key
  PROVE  /\ Position(chain, key) # 0 =>
              /\ Position(chain, key) \in DOMAIN chain
              /\ chain[Position(chain, key)].key = key
         /\ Position(chain, key) = 0 => \A p \in DOMAIN chain : chain[p].key # key
<1>1. CASE \E p \in DOMAIN chain : chain[p].key = key
  <2>1. PICK p \in DOMAIN chain : chain[p].key = key
    BY <1>1
  <2>2. \A o \in 1..(p - 1) : chain[o].key # key
    BY <2>1 DEF Sound
  <2>3. /\ Position(chain, key) \in DOMAIN chain
        /\ chain[Position(chain, key)].key = key
    BY <1>1, <2>1, <2>2 DEF Position
  <2> QED
    BY <2>3
<1>2. CASE ~ \E p \in DOMAIN chain : chain[p].key = key
  BY <1>2 DEF Position
<1> QED
  BY <1>1, <1>2

\* A key has one position in a sound chain.
LEMMA PositionIs ==
  ASSUME NEW chain \in Seq(Entry), Sound(chain), NEW p \in DOMAIN chain
  PROVE  Position(chain, chain[p].key) = p
<1>1. Position(chain, chain[p].key) # 0
  BY PositionFinds
<1> QED
  BY <1>1, PositionFinds DEF Sound

\* PutIn in the two cases of the search.
LEMMA PutInCases ==
  ASSUME NEW chain \in Seq(Entry), Sound(chain), NEW key \in Keys, NEW v \in Nat
  PROVE  LET new == PutIn(chain, key, v)
             p   == Position(chain, key)
         IN /\ new \in Seq(Entry)
            /\ p # 0 => /\ p \in DOMAIN chain /\ Len(new) = Len(chain)
                        /\ \A o \in DOMAIN chain : new[o].key = chain[o].key
                        /\ \A o \in DOMAIN chain : o # p => new[o] = chain[o]
                        /\ new[p].key = key /\ new[p].value = v
            /\ p = 0 => /\ Len(new) = Len(chain) + 1
                        /\ new[1].key = key /\ new[1].value = v
                        /\ \A o \in DOMAIN chain : new[o + 1] = chain[o]
                        /\ \A o \in DOMAIN chain : chain[o].key # key
<1> DEFINE p == Position(chain, key)
           e == create_entry(key, v)
<1>1. e \in Entry /\ e.key = key /\ e.value = v
  BY SizeIsNat DEF create_entry, Entry
<1>2. CASE p # 0
  <2>1. p \in DOMAIN chain /\ chain[p].key = key
    BY <1>2, PositionFinds
  <2>2. PutIn(chain, key, v) = [chain EXCEPT ![p].value = v]
    BY <1>2 DEF PutIn
  <2>5. chain[p] \in Entry
    BY <2>1
  <2>3. [chain[p] EXCEPT !.value = v] \in Entry
    BY <2>5 DEF Entry
  <2>4. [chain EXCEPT ![p].value = v] \in Seq(Entry)
    BY <2>1, <2>3
  <2>6. \A o \in DOMAIN chain : chain[o] \in [key : Keys, value : Nat, room : Nat]
    <3> TAKE o \in DOMAIN chain
    <3>1. chain[o] \in Entry
      OBVIOUS
    <3> QED
      BY <3>1 DEF Entry
  <2> QED
    BY <1>2, <2>1, <2>2, <2>4, <2>6
<1>3. CASE p = 0
  <2>1. PutIn(chain, key, v) = <<e>> \o chain
    BY <1>3 DEF PutIn
  <2>2. \A o \in DOMAIN chain : chain[o].key # key
    BY <1>3, PositionFinds
  <2> QED
    BY <1>1, <1>3, <2>1, <2>2
<1> QED
  BY <1>2, <1>3

\* put keeps a chain sound and brings in no key but its own.
LEMMA PutInSound ==
  ASSUME NEW chain \in Seq(Entry), Sound(chain), NEW key \in Keys, NEW v \in Nat
  PROVE  /\ Sound(PutIn(chain, key, v))
         /\ \A p \in DOMAIN PutIn(chain, key, v) :
              \/ PutIn(chain, key, v)[p].key = key
              \/ \E o \in DOMAIN chain : PutIn(chain, key, v)[p].key = chain[o].key
<1> DEFINE new == PutIn(chain, key, v)
<1>1. CASE Position(chain, key) # 0
  <2>1. /\ DOMAIN new = DOMAIN chain
        /\ \A o \in DOMAIN chain : new[o].key = chain[o].key
    BY <1>1, PutInCases
  <2> QED
    BY <2>1 DEF Sound
<1>2. CASE Position(chain, key) = 0
  <2>1. /\ new \in Seq(Entry) /\ Len(new) = Len(chain) + 1 /\ new[1].key = key
        /\ \A o \in DOMAIN chain : new[o + 1] = chain[o]
        /\ \A o \in DOMAIN chain : chain[o].key # key
    BY <1>2, PutInCases
  <2>2. \A p \in DOMAIN new : p # 1 => /\ p - 1 \in DOMAIN chain
                                       /\ new[p].key = chain[p - 1].key
    <3> TAKE p \in DOMAIN new
    <3> HAVE p # 1
    <3>1. p - 1 \in DOMAIN chain
      BY <2>1
    <3>2. new[(p - 1) + 1] = chain[p - 1]
      BY <2>1, <3>1
    <3> QED
      BY <2>1, <3>1, <3>2
  <2>3. Sound(new)
    <3> SUFFICES ASSUME NEW p \in DOMAIN new, NEW o \in DOMAIN new, new[p].key = new[o].key
                 PROVE  p = o
      BY DEF Sound
    <3>1. CASE p = 1 \/ o = 1
      BY <2>1, <2>2, <3>1
    <3>2. CASE p # 1 /\ o # 1
      <4>1. p - 1 = o - 1
        BY <2>2, <3>2 DEF Sound
      <4> QED
        BY <2>1, <4>1
    <3> QED
      BY <3>1, <3>2
  <2> QED
    BY <2>1, <2>2, <2>3
<1> QED
  BY <1>1, <1>2

\* get after put: the value put for the key, what it was for any other.
LEMMA GetAfterPut ==
  ASSUME NEW chain \in Seq(Entry), Sound(chain), NEW key \in Keys, NEW v \in Nat,
         NEW k \in Keys
  PROVE  GetFrom(PutIn(chain, key, v), k) = IF k = key THEN v ELSE GetFrom(chain, k)
<1> DEFINE new == PutIn(chain, key, v)
           q   == Position(new, k)
<1>1. new \in Seq(Entry) /\ Sound(new)
  BY PutInCases, PutInSound
<1>2. CASE Position(chain, key) # 0
  <2> DEFINE p == Position(chain, key)
  <2>1. /\ p \in DOMAIN chain /\ DOMAIN new = DOMAIN chain
        /\ \A o \in DOMAIN chain : new[o].key = chain[o].key
        /\ \A o \in DOMAIN chain : o # p => new[o] = chain[o]
        /\ new[p].key = key /\ new[p].value = v
    BY <1>2, PutInCases
  <2>2. CASE k = key
    <3>1. q = p
      BY <1>1, <2>1, <2>2, PositionIs
    <3> QED
      BY <1>2, <2>1, <2>2, <3>1 DEF GetFrom
  <2>3. CASE k # key /\ q # 0
    <3>1. q \in DOMAIN chain /\ chain[q].key = k /\ q # p
      BY <1>1, <2>1, <2>3, PositionFinds
    <3>2. Position(chain, k) = q
      BY <3>1, PositionIs
    <3> QED
      BY <2>1, <2>3, <3>1, <3>2 DEF GetFrom
  <2>4. CASE k # key /\ q = 0
    <3>1. \A o \in DOMAIN chain : chain[o].key # k
      BY <1>1, <2>1, <2>4, PositionFinds
    <3>2. Position(chain, k) = 0
      BY <3>1, PositionFinds
    <3> QED
      BY <2>4, <3>2 DEF GetFrom
  <2> QED
    BY <2>2, <2>3, <2>4
<1>3. CASE Position(chain, key) = 0
  <2>1. /\ Len(new) = Len(chain) + 1 /\ new[1].key = key /\ new[1].value = v
        /\ \A o \in DOMAIN chain : new[o + 1] = chain[o]
    BY <1>3, PutInCases
  <2>2. CASE k = key
    <3>1. q = 1
      BY <1>1, <2>1, <2>2, PositionIs
    <3> QED
      BY <2>1, <2>2, <3>1 DEF GetFrom
  <2>3. CASE k # key /\ q # 0
    <3>1. q \in DOMAIN new /\ new[q].key = k
      BY <1>1, <2>3, PositionFinds
    <3>2. q - 1 \in DOMAIN chain
      BY <1>1, <2>1, <2>3, <3>1
    <3>3. new[(q - 1) + 1] = chain[q - 1] /\ (q - 1) + 1 = q
      BY <1>1, <2>1, <3>1, <3>2
    <3>4. Position(chain, k) = q - 1
      BY <3>1, <3>2, <3>3, PositionIs
    <3>5. Position(chain, k) # 0
      BY <3>2, <3>4
    <3> QED
      BY <2>3, <3>3, <3>4, <3>5 DEF GetFrom
  <2>4. CASE k # key /\ q = 0
    <3>1. \A o \in DOMAIN chain : o + 1 \in DOMAIN new
      BY <1>1, <2>1
    <3>2. \A o \in DOMAIN chain : chain[o].key # k
      BY <1>1, <2>1, <2>4, <3>1, PositionFinds
    <3>3. Position(chain, k) = 0
      BY <3>2, PositionFinds
    <3> QED
      BY <2>4, <3>3 DEF GetFrom
  <2> QED
    BY <2>2, <2>3, <2>4
<1> QED
  BY <1>2, <1>3

------------------------------------------------------------------------------
(* The invariant.                                                          *)

\* ChainsSound, chain by chain.
LEMMA ChainsAreSound ==
  ASSUME ChainsSound, NEW b \in DOMAIN entries
  PROVE  Sound(entries[b])
  BY DEF ChainsSound, Sound

\* A new table: one empty chain for every bucket there is.
LEMMA NewTable ==
  ASSUME TypeOK, NEW jo \in Comments, anchor_handler(jo)
  PROVE  /\ table_size' \in Int /\ DOMAIN entries' = 0..(table_size' - 1)
         /\ \A b \in DOMAIN entries' : entries'[b] = <<>>
<1> DEFINE n == card_replace_anchor'.card_num
<1>1. n \in Nat
  BY CardNumIsNat DEF anchor_handler
<1>2. table_size' = IntWrap(n * n) /\ entries' = create_hashtable(table_size')
  BY DEF anchor_handler
<1>3. IntWrap(n * n) \in Int
  <2>1. 2 * INT_MAX + 2 \in Nat \ {0} /\ n * n \in Int
    BY <1>1, NumbersAssumption
  <2>2. (n * n) % (2 * INT_MAX + 2) \in Int
    BY <2>1
  <2> QED
    BY <2>1, <2>2, NumbersAssumption DEF IntWrap
<1> QED
  BY <1>2, <1>3 DEF create_hashtable

\* One put: the chain of its bucket changes, no other.
LEMMA OnePut ==
  ASSUME TypeOK, NEW key \in Keys, NEW c \in Cards, NEW t \in Printed(c), put(key, c, t)
  PROVE  /\ t \in Nat
         /\ hash(key) \in DOMAIN entries
         /\ DOMAIN entries' = DOMAIN entries
         /\ \A b \in DOMAIN entries : b # hash(key) => entries'[b] = entries[b]
         /\ entries'[hash(key)] = PutIn(entries[hash(key)], key, t)
         /\ entries[hash(key)] \in Seq(Entry)
<1>1. c \in Nat
  BY NumbersAssumption
<1>2. t \in Nat
  BY <1>1, PrintedIsNat
<1>3. hash(key) \in DOMAIN entries
  BY HashInTable DEF put
<1>4. entries' = [entries EXCEPT ![hash(key)] = PutIn(@, key, t)]
  BY DEF put
<1> QED
  BY <1>2, <1>3, <1>4 DEF TypeOK

\* Every step of a good table keeps it one.
LEMMA StepKeepsTable ==
  ASSUME TypeOK, ChainsSound, [Next]_vars
  PROVE  TypeOK' /\ ChainsSound'
<1>1. CASE \E jo \in Comments : anchor_handler(jo)
  <2>1. PICK jo \in Comments : anchor_handler(jo)
    BY <1>1
  <2>2. /\ table_size' \in Int /\ DOMAIN entries' = 0..(table_size' - 1)
        /\ \A b \in DOMAIN entries' : entries'[b] = <<>>
    BY <2>1, NewTable
  <2>3. ChainsSound'
    BY <2>2 DEF ChainsSound
  <2>4. \A b \in DOMAIN entries' : entries'[b] \in Seq(Entry)
    BY <2>2
  <2>5. /\ parses' = parses + 1 /\ i' = 0 /\ pc' = "storing"
        /\ UNCHANGED <<hash_bytes, got, estimate, tainted, crashed>>
    BY <2>1 DEF anchor_handler
  <2>6. TypeOK'
    BY <2>2, <2>4, <2>5 DEF TypeOK
  <2> QED
    BY <2>3, <2>6
<1>2. CASE \E key \in Keys, c \in Cards : \E t \in Printed(c) : put(key, c, t)
  <2>1. PICK key \in Keys, c \in Cards : \E t \in Printed(c) : put(key, c, t)
    BY <1>2
  <2>2. PICK t \in Printed(c) : put(key, c, t)
    BY <2>1
  <2> DEFINE h == hash(key)
             old == entries[h]
  <2>3. /\ t \in Nat /\ h \in DOMAIN entries /\ DOMAIN entries' = DOMAIN entries
        /\ \A b \in DOMAIN entries : b # h => entries'[b] = entries[b]
        /\ entries'[h] = PutIn(old, key, t) /\ old \in Seq(Entry)
    BY <2>2, OnePut
  <2>4. Sound(old)
    BY <2>3, ChainsAreSound
  <2>5. entries'[h] \in Seq(Entry) /\ Sound(entries'[h])
    BY <2>3, <2>4, PutInCases, PutInSound
  <2>6. \A k : hash(k)' = hash(k)
    BY <2>2 DEF put, hash
  <2>7. \A p \in DOMAIN entries'[h] : hash(entries'[h][p].key) = h
    <3> TAKE p \in DOMAIN entries'[h]
    <3>1. \/ entries'[h][p].key = key
          \/ \E o \in DOMAIN old : entries'[h][p].key = old[o].key
      BY <2>3, <2>4, PutInSound
    <3>2. \A o \in DOMAIN old : hash(old[o].key) = h
      BY <2>3 DEF ChainsSound
    <3> QED
      BY <3>1, <3>2
  <2>8. ChainsSound'
    <3> SUFFICES ASSUME NEW b \in DOMAIN entries'
                 PROVE  \A p \in DOMAIN entries'[b] :
                          /\ hash(entries'[b][p].key) = b
                          /\ \A o \in DOMAIN entries'[b] :
                               entries'[b][o].key = entries'[b][p].key => o = p
      BY <2>6 DEF ChainsSound
    <3>1. CASE b = h
      BY <2>5, <2>7, <3>1 DEF Sound
    <3>2. CASE b # h
      BY <2>3, <3>2 DEF ChainsSound
    <3> QED
      BY <3>1, <3>2
  <2>9. \A b \in DOMAIN entries' : entries'[b] \in Seq(Entry)
    BY <2>3, <2>5 DEF TypeOK
  <2>10. /\ i' = i + 1 /\ tainted' \in BOOLEAN /\ crashed' \in BOOLEAN
         /\ UNCHANGED <<hash_bytes, table_size, pc, got, estimate, parses>>
    BY <2>2 DEF put, TypeOK
  <2>11. TypeOK'
    BY <2>3, <2>9, <2>10 DEF TypeOK
  <2> QED
    BY <2>8, <2>11
<1>3. CASE \E k \in Keys, n \in OwnRows : Replace(k, n)
  <2>1. PICK k \in Keys, n \in OwnRows : Replace(k, n)
    BY <1>3
  <2>2. GetFrom(entries[hash(k)], k) \in Nat \cup {Null}
    <3>1. hash(k) \in DOMAIN entries
      BY <2>1, HashInTable DEF Replace
    <3>2. entries[hash(k)] \in Seq(Entry) /\ Sound(entries[hash(k)])
      BY <3>1, ChainsAreSound DEF TypeOK
    <3> DEFINE c == entries[hash(k)]
               p == Position(c, k)
    <3>3. p # 0 => c[p] \in Entry
      BY <3>2, PositionFinds
    <3> QED
      BY <3>3 DEF GetFrom, Entry
  <2>3. n \in Nat
    BY NumbersAssumption
  <2>4. estimate' \in [key : Keys \cup {Null}, own : Nat, rows : Nat]
    BY <2>1, <2>2, <2>3, RowsAreNat DEF Replace
  <2>5. got' \in [key : Keys \cup {Null}, card : Nat \cup {Null}]
    BY <2>1, <2>2 DEF Replace
  <2>6. UNCHANGED <<hash_bytes, tableVars, i, pc, parses, tainted, crashed>>
    BY <2>1 DEF Replace
  <2> QED
    BY <2>4, <2>5, <2>6 DEF TypeOK, ChainsSound, hash, tableVars
<1>4. CASE \E k \in Keys, n \in OwnRows : KeepOwn(k, n)
  <2>1. PICK k \in Keys, n \in OwnRows : KeepOwn(k, n)
    BY <1>4
  <2>2. n \in Nat
    BY NumbersAssumption
  <2>3. estimate' \in [key : Keys \cup {Null}, own : Nat, rows : Nat]
    BY <2>1, <2>2, RowsAreNat DEF KeepOwn
  <2>4. UNCHANGED <<hash_bytes, tableVars, i, pc, got, parses, tainted, crashed>>
    BY <2>1 DEF KeepOwn
  <2> QED
    BY <2>3, <2>4 DEF TypeOK, ChainsSound, hash, tableVars
<1>5. CASE PutCrashes \/ PutGarbage \/ Stored \/ ReplaceCrashes \/ PlannerReturns \/ UNCHANGED vars
  <2>1. UNCHANGED <<hash_bytes, table_size, entries, got, estimate, parses>>
    BY <1>5 DEF PutCrashes, PutGarbage, Stored, ReplaceCrashes, PlannerReturns, vars, tableVars
  <2>2. i \in Nat /\ pc \in {"idle", "storing", "planning"} /\ tainted \in BOOLEAN /\ crashed \in BOOLEAN
    BY DEF TypeOK
  <2>3. i' \in Nat /\ pc' \in {"idle", "storing", "planning"}
    BY <1>5, <2>2 DEF PutCrashes, PutGarbage, Stored, ReplaceCrashes, PlannerReturns, vars
  <2>4. tainted' \in BOOLEAN /\ crashed' \in BOOLEAN
    BY <1>5, <2>2 DEF PutCrashes, PutGarbage, Stored, ReplaceCrashes, PlannerReturns, vars
  <2> QED
    BY <2>1, <2>3, <2>4 DEF TypeOK, ChainsSound, hash
<1> QED
  BY <1>1, <1>2, <1>3, <1>4, <1>5 DEF Next

\* The invariant holds of the table a backend starts with.
LEMMA InitGood == ASSUME Init PROVE TypeOK /\ ChainsSound
<1>1. DOMAIN entries = 0..(table_size - 1) /\ \A b \in DOMAIN entries : entries[b] = <<>>
  BY DEF Init
<1>2. ChainsSound
  BY <1>1 DEF ChainsSound
<1>a. <<>> \in Seq(Entry)
  OBVIOUS
<1>b. \A b \in DOMAIN entries : entries[b] = <<>>
  BY <1>1
<1>3. \A b \in DOMAIN entries : entries[b] \in Seq(Entry)
  BY <1>a, <1>b
<1>4. /\ got \in [key : Keys \cup {Null}, card : Nat \cup {Null}]
      /\ estimate \in [key : Keys \cup {Null}, own : Nat, rows : Nat]
  BY DEF Init
<1>c. tainted \in BOOLEAN /\ crashed \in BOOLEAN
  BY Zenon DEF Init
<1>d. hash_bytes \in [Keys -> Hashes] /\ pc \in {"idle", "storing", "planning"}
  BY DEF Init
<1>e. table_size \in Int /\ i \in Nat /\ parses \in Nat
  BY DEF Init
<1>5. TypeOK
  BY <1>1, <1>3, <1>4, <1>c, <1>d, <1>e DEF TypeOK
<1> QED
  BY <1>2, <1>5

\* A sub-query is filed once and where get looks for it, whatever the hash
\* function, the comments and the width of an int (put, get).
THEOREM SoundChains == Spec => [](TypeOK /\ ChainsSound)
<1>1. Init => TypeOK /\ ChainsSound
  BY InitGood
<1>2. TypeOK /\ ChainsSound /\ [Next]_vars => TypeOK' /\ ChainsSound'
  BY StepKeepsTable
<1> QED
  BY <1>1, <1>2, PTL DEF Spec

------------------------------------------------------------------------------
(* Refinement.                                                             *)

\* A comment empties the map.
LEMMA HandlerClears ==
  ASSUME TypeOK, NEW jo \in Comments, anchor_handler(jo), NEW k \in Keys
  PROVE  Search(k)' = Null
<1>1. /\ table_size' \in Int /\ DOMAIN entries' = 0..(table_size' - 1)
      /\ \A b \in DOMAIN entries' : entries'[b] = <<>>
  BY NewTable
<1>2. hash_bytes' = hash_bytes
  BY DEF anchor_handler
<1>3. CASE Usable'
  <2>a. hash_bytes'[k] \in Nat /\ table_size' \in Nat \ {0}
    <3>1. hash_bytes[k] \in Hashes
      BY DEF TypeOK
    <3>2. hash_bytes[k] \in Nat
      BY <3>1, NumbersAssumption
    <3>3. table_size' \in Nat \ {0}
      BY <1>1, <1>3 DEF Usable
    <3> QED
      BY <1>2, <3>2, <3>3
  <2>1. hash(k)' \in DOMAIN entries'
    BY <1>1, <2>a, ModInRange DEF hash
  <2>2. entries'[hash(k)'] = <<>>
    BY <1>1, <2>1
  <2>3. GetFrom(<<>>, k) = Null
    BY DEF GetFrom, Position
  <2> QED
    BY <1>3, <2>2, <2>3 DEF Search
<1>4. CASE ~Usable'
  BY <1>4 DEF Search
<1> QED
  BY <1>3, <1>4

\* A put changes the map at its key and nowhere else.
LEMMA PutUpdates ==
  ASSUME TypeOK, ChainsSound, NEW key \in Keys, NEW c \in Cards, NEW t \in Printed(c),
         put(key, c, t), NEW k \in Keys
  PROVE  Search(k)' = IF k = key THEN t ELSE Search(k)
<1> DEFINE h == hash(key)
           old == entries[h]
<1>1. /\ t \in Nat /\ h \in DOMAIN entries /\ DOMAIN entries' = DOMAIN entries
      /\ \A b \in DOMAIN entries : b # h => entries'[b] = entries[b]
      /\ entries'[h] = PutIn(old, key, t) /\ old \in Seq(Entry)
  BY OnePut
<1>2. Sound(old)
  BY <1>1, ChainsAreSound
<1>3. Usable /\ Usable' /\ hash(k)' = hash(k)
  BY DEF put, hash, Usable
<1>4. Search(k) = GetFrom(entries[hash(k)], k)
  BY <1>3 DEF Search
<1>5. Search(k)' = GetFrom(entries'[hash(k)], k)
  BY <1>3 DEF Search
<1>6. CASE hash(k) = h
  BY <1>1, <1>2, <1>4, <1>5, <1>6, GetAfterPut
<1>7. CASE hash(k) # h
  <2>1. hash(k) \in DOMAIN entries
    BY <1>3, HashInTable
  <2>2. k # key
    BY <1>7
  <2> QED
    BY <1>1, <1>4, <1>5, <1>7, <2>1, <2>2
<1> QED
  BY <1>6, <1>7

\* What a step does to the map.
LEMMA StepIsMapStep ==
  ASSUME TypeOK, ChainsSound, [Next]_vars
  PROVE  [Map!Next]_(Map!vars)
<1> DEFINE M == [k \in Keys |-> Search(k)]
<1>1. CASE \E jo \in Comments : anchor_handler(jo)
  <2>1. PICK jo \in Comments : anchor_handler(jo)
    BY <1>1
  <2>2. \A k \in Keys : Search(k)' = Null
    BY <2>1, HandlerClears
  <2>3. M' = [k \in Keys |-> Null] /\ got' = got
    BY <2>1, <2>2 DEF anchor_handler
  <2> QED
    BY <2>3 DEF Map!Next, Map!Clear, Map!Empty
<1>2. CASE \E key \in Keys, c \in Cards : \E t \in Printed(c) : put(key, c, t)
  <2>1. PICK key \in Keys, c \in Cards : \E t \in Printed(c) : put(key, c, t)
    BY <1>2
  <2>2. PICK t \in Printed(c) : put(key, c, t)
    BY <2>1
  <2>3. t \in Nat /\ got' = got
    BY <2>2, OnePut DEF put
  <2>4. \A k \in Keys : Search(k)' = IF k = key THEN t ELSE Search(k)
    BY <2>2, PutUpdates
  <2>5. M' = [M EXCEPT ![key] = t] /\ M'[key] = t
    BY <2>4
  <2> QED
    BY <2>3, <2>5 DEF Map!Next, Map!Put
<1>3. CASE \E k \in Keys, n \in OwnRows : Replace(k, n)
  <2>1. PICK k \in Keys, n \in OwnRows : Replace(k, n)
    BY <1>3
  <2>2. got' = [key |-> k, card |-> Search(k)]
    BY <2>1 DEF Replace, Search
  <2>3. M' = M
    BY <2>1 DEF Replace, Search, Usable, hash, tableVars
  <2> QED
    BY <2>2, <2>3 DEF Map!Next, Map!Get
<1>4. CASE (\E k \in Keys, n \in OwnRows : KeepOwn(k, n)) \/ PutCrashes \/ PutGarbage
             \/ Stored \/ ReplaceCrashes \/ PlannerReturns \/ UNCHANGED vars
  <2>1. UNCHANGED <<hash_bytes, table_size, entries, got>>
    BY <1>4 DEF KeepOwn, PutCrashes, PutGarbage, Stored, ReplaceCrashes, PlannerReturns,
                vars, tableVars
  <2>2. M' = M
    BY <2>1 DEF Search, Usable, hash
  <2> QED
    BY <2>1, <2>2 DEF Map!vars
<1> QED
  BY <1>1, <1>2, <1>3, <1>4 DEF Next

\* A backend starts with an empty map.
LEMMA InitIsMapInit == ASSUME Init PROVE Map!Init
<1>1. \A k \in Keys : hash(k) = 0
  <2> TAKE k \in Keys
  <2>1. hash_bytes[k] \in Nat
    BY NumbersAssumption DEF Init
  <2> QED
    BY <2>1 DEF Init, hash
<1>2. \A k : GetFrom(<<>>, k) = Null
  BY DEF GetFrom, Position
<1>3. \A k \in Keys : Search(k) = Null
  BY <1>1, <1>2 DEF Search, Usable, Init
<1> QED
  BY <1>3 DEF Init, Map!Init, Map!Empty

\* The chained table implements the map from sub-queries to cardinalities:
\* no collision, repetition or earlier comment shows through (hashtable.c).
THEOREM Implements == Spec => IsMap
<1>1. Init => Map!Init
  BY InitIsMapInit
<1>2. TypeOK /\ ChainsSound /\ [Next]_vars => [Map!Next]_(Map!vars)
  BY StepIsMapStep
<1> QED
  BY <1>1, <1>2, SoundChains, PTL DEF Spec, IsMap, Map!Spec

------------------------------------------------------------------------------
(* Comments of pairs                                                       *)

Decoded(jo) == csonJsonObj2Struct(jo, CardReplaceAnchor, Card_Replace_Anchor_ref_tbl)

\* Sub-query k among the first i pairs: not there and not found, or found
\* with the cardinality of the last pair that has it.
Filed(k) ==
  \/ /\ \A p \in 1..i : Texts(comment)[p].str # k
     /\ Search(k) = Null
  \/ \E p \in 1..i : /\ Texts(comment)[p].str = k
                     /\ \A o \in 1..i : Texts(comment)[o].str = k => o <= p
                     /\ Search(k) \in Printed(Wanted(comment)[p].num)

StoreInv ==
  pc # "idle" =>
    /\ comment \in Comments
    /\ card_replace_anchor = Decoded(comment)
    /\ pc = "planning" => i = card_replace_anchor.card_num
    /\ Paired(comment) => i <= card_replace_anchor.card_num /\ \A k \in Keys : Filed(k)

------------------------------------------------------------------------------
(* Reading the comment.                                                    *)

\* When no item of an array fails, every item is stored where it was.
LEMMA AllSucceed ==
  ASSUME NEW of, NEW arr, Len(arr) \in Nat, DOMAIN arr = 1..Len(arr),
         \A k \in DOMAIN arr : ~ItemFails(of, arr[k])
  PROVE  /\ successCount(of, arr) = Len(arr)
         /\ \A n \in 1..Len(arr) : Source(of, arr, n) = n
         /\ Len(arr) # 0 =>
              parseJsonArray(of, arr) =
                [room |-> Len(arr), items |-> [n \in 1..Len(arr) |-> ItemValue(of, arr[n])]]
<1>1. Succeeds(of, arr) = 1..Len(arr)
  BY DEF Succeeds
<1>2. \A n \in Nat : Cardinality(1..n) = n
  <2> TAKE n \in Nat
  <2>1. Cardinality(1..n) = IF 1 > n THEN 0 ELSE n - 1 + 1
    BY FS_Interval
  <2>2. QED
    BY <2>1
<1>3. successCount(of, arr) = Len(arr)
  BY <1>1, <1>2 DEF successCount
<1>4. ASSUME NEW n \in 1..Len(arr) PROVE Source(of, arr, n) = n
  <2>1. ASSUME NEW k \in 1..Len(arr) PROVE Cardinality({o \in 1..Len(arr) : o <= k}) = k
    <3>1. \A o \in Int : o \in 1..Len(arr) /\ o <= k <=> o \in 1..k
      OBVIOUS
    <3>2. {o \in 1..Len(arr) : o <= k} = 1..k
      BY <3>1
    <3>3. k \in Nat
      OBVIOUS
    <3>4. QED
      BY <1>2, <3>2, <3>3, Zenon
  <2>2. Source(of, arr, n) = CHOOSE k \in 1..Len(arr) :
                               Cardinality({o \in 1..Len(arr) : o <= k}) = n
    BY <1>1 DEF Source
  <2>3. QED
    BY <2>1, <2>2
<1>5. ASSUME Len(arr) # 0
      PROVE  parseJsonArray(of, arr) =
               [room |-> Len(arr), items |-> [n \in 1..Len(arr) |-> ItemValue(of, arr[n])]]
  <2>1. 1 \in Succeeds(of, arr)
    BY <1>1, <1>5
  <2>2. parseJsonArray(of, arr) =
          [room |-> Len(arr),
           items |-> [n \in 1..Len(arr) |-> ItemValue(of, arr[Source(of, arr, n)])]]
    BY <1>3, <2>1 DEF parseJsonArray
  <2>3. [n \in 1..Len(arr) |-> ItemValue(of, arr[Source(of, arr, n)])]
          = [n \in 1..Len(arr) |-> ItemValue(of, arr[n])]
    BY <1>4
  <2>4. QED
    BY <2>2, <2>3
<1>6. QED
  BY <1>3, <1>4, <1>5

\* The arrays of a comment of pairs.
LEMMA PairedArrays ==
  ASSUME NEW jo \in Comments, Paired(jo)
  PROVE  /\ Len(Texts(jo)) \in Nat /\ Len(Wanted(jo)) = Len(Texts(jo))
         /\ DOMAIN Texts(jo) = 1..Len(Texts(jo)) /\ DOMAIN Wanted(jo) = 1..Len(Texts(jo))
         /\ \A p \in 1..Len(Texts(jo)) :
              /\ typeof(Texts(jo)[p]) = "STRING" /\ Texts(jo)[p].str \in Keys
              /\ typeof(Wanted(jo)[p]) = "REAL" /\ Wanted(jo)[p].num \in Nat
<1>1. ASSUME NEW f
      PROVE  /\ Len(ArrayOf(jo, f)) \in Nat
             /\ DOMAIN ArrayOf(jo, f) = 1..Len(ArrayOf(jo, f))
             /\ \A p \in DOMAIN ArrayOf(jo, f) :
                  /\ typeof(ArrayOf(jo, f)[p]) = "STRING" => ArrayOf(jo, f)[p].str \in Keys
                  /\ typeof(ArrayOf(jo, f)[p]) = "REAL" => ArrayOf(jo, f)[p].num \in Cards
  <2>1. CASE f \in DOMAIN jo /\ typeof(jo[f]) = "ARRAY"
    BY <2>1, CommentsAssumption DEF ArrayOf
  <2>2. CASE ~(f \in DOMAIN jo /\ typeof(jo[f]) = "ARRAY")
    <3>1. ArrayOf(jo, f) = <<>>
      BY <2>2 DEF ArrayOf
    <3>2. Len(<<>>) = 0 /\ DOMAIN <<>> = 1..0
      OBVIOUS
    <3>3. QED
      BY <3>1, <3>2
  <2>3. QED
    BY <2>1, <2>2
<1>2. Cards \subseteq Nat
  BY NumbersAssumption
<1>3. QED
  BY <1>1, <1>2 DEF Texts, Wanted, Paired

\* What the decoder makes of a comment of pairs.
LEMMA DecodedPairs ==
  ASSUME NEW jo \in Comments, Paired(jo)
  PROVE  /\ Decoded(jo).card_num = Len(Texts(jo))
         /\ Len(Texts(jo)) # 0 =>
              /\ Decoded(jo).subquery # Null
              /\ Len(Decoded(jo).subquery.items) = Len(Texts(jo))
              /\ \A p \in 1..Len(Texts(jo)) :
                   /\ Decoded(jo).subquery.items[p] = Texts(jo)[p].str
                   /\ Decoded(jo).card.items[p] = Wanted(jo)[p].num
<1> DEFINE T   == Card_Replace_Anchor_ref_tbl
           num == CHOOSE item \in T : item.count = "card_num"
           sub == CHOOSE item \in T : item.field = "subquery"
           val == CHOOSE item \in T : item.field = "card"
           n   == Len(Texts(jo))
<1>1. num.field = "card" /\ num.of = "REAL" /\ num.type = "ARRAY"
  <2>1. \E item \in T : item.count = "card_num"
    BY DEF Card_Replace_Anchor_ref_tbl
  <2>2. num \in T /\ num.count = "card_num"
    BY <2>1
  <2>3. QED
    BY <2>2 DEF Card_Replace_Anchor_ref_tbl
<1>2. sub.field = "subquery" /\ sub.of = "STRING" /\ sub.type = "ARRAY"
  <2>1. \E item \in T : item.field = "subquery"
    BY DEF Card_Replace_Anchor_ref_tbl
  <2>2. sub \in T /\ sub.field = "subquery"
    BY <2>1
  <2>3. QED
    BY <2>2 DEF Card_Replace_Anchor_ref_tbl
<1>3. val.field = "card" /\ val.of = "REAL" /\ val.type = "ARRAY"
  <2>1. \E item \in T : item.field = "card"
    BY DEF Card_Replace_Anchor_ref_tbl
  <2>2. val \in T /\ val.field = "card"
    BY <2>1
  <2>3. QED
    BY <2>2 DEF Card_Replace_Anchor_ref_tbl
<1>4. /\ Decoded(jo).card_num = CountOf(jo, num, 0)
      /\ Decoded(jo).subquery = FieldOf(jo, sub) /\ Decoded(jo).card = FieldOf(jo, val)
  <2>1. /\ ~ \E item \in T : item.field = "card_num"
        /\ \E item \in T : item.field = "subquery"
        /\ \E item \in T : item.field = "card"
    BY DEF Card_Replace_Anchor_ref_tbl
  <2>2. QED
    BY <2>1 DEF Decoded, csonJsonObj2Struct, CardReplaceAnchor
<1> HIDE DEF T, num, sub, val
<1>5. /\ n \in Nat /\ Len(Wanted(jo)) = n /\ DOMAIN Texts(jo) = 1..n /\ DOMAIN Wanted(jo) = 1..n
      /\ \A p \in 1..n : typeof(Texts(jo)[p]) = "STRING" /\ typeof(Wanted(jo)[p]) = "REAL"
  BY PairedArrays
<1>6. /\ \A p \in 1..n : ~ItemFails("STRING", Texts(jo)[p])
      /\ \A p \in 1..n : ~ItemFails("REAL", Wanted(jo)[p])
  BY <1>5 DEF ItemFails
<1>7. /\ \A p \in 1..n : ItemValue("STRING", Texts(jo)[p]) = Texts(jo)[p].str
      /\ \A p \in 1..n : ItemValue("REAL", Wanted(jo)[p]) = Wanted(jo)[p].num
  BY <1>5 DEF ItemValue, parseJsonReal
<1>8. Decoded(jo).card_num = n
  <2>1. CASE Decodes(jo, num)
    <3>1. Decoded(jo).card_num = successCount("REAL", jo["card"].arr)
      BY <1>1, <1>4, <2>1 DEF CountOf
    <3>2. Wanted(jo) = jo["card"].arr
      BY <1>1, <2>1 DEF Decodes, Wanted, ArrayOf
    <3>3. successCount("REAL", Wanted(jo)) = n
      BY <1>5, <1>6, AllSucceed
    <3>4. QED
      BY <3>1, <3>2, <3>3
  <2>2. CASE ~Decodes(jo, num)
    <3>1. Wanted(jo) = <<>>
      BY <1>1, <2>2 DEF Decodes, Wanted, ArrayOf
    <3>2. QED
      BY <1>4, <1>5, <2>2, <3>1 DEF CountOf
  <2>3. QED
    BY <2>1, <2>2
<1>9. ASSUME n # 0
      PROVE  /\ Decoded(jo).subquery # Null
             /\ Len(Decoded(jo).subquery.items) = n
             /\ \A p \in 1..n : /\ Decoded(jo).subquery.items[p] = Texts(jo)[p].str
                                /\ Decoded(jo).card.items[p] = Wanted(jo)[p].num
  <2>1. /\ "subquery" \in DOMAIN jo /\ typeof(jo["subquery"]) = "ARRAY"
        /\ "card" \in DOMAIN jo /\ typeof(jo["card"]) = "ARRAY"
    <3>1. Texts(jo) # <<>> /\ Wanted(jo) # <<>>
      BY <1>5, <1>9
    <3>2. QED
      BY <3>1 DEF Texts, Wanted, ArrayOf
  <2>2. Texts(jo) = jo["subquery"].arr /\ Wanted(jo) = jo["card"].arr
    BY <2>1 DEF Texts, Wanted, ArrayOf
  <2>3. /\ Decoded(jo).subquery = parseJsonArray("STRING", Texts(jo))
        /\ Decoded(jo).card = parseJsonArray("REAL", Wanted(jo))
    BY <1>2, <1>3, <1>4, <2>1, <2>2 DEF FieldOf, Decodes
  <2>4. Decoded(jo).subquery =
          [room |-> n, items |-> [p \in 1..n |-> ItemValue("STRING", Texts(jo)[p])]]
    BY <1>5, <1>6, <1>9, <2>3, AllSucceed
  <2>5. Decoded(jo).card =
          [room |-> n, items |-> [p \in 1..n |-> ItemValue("REAL", Wanted(jo)[p])]]
    BY <1>5, <1>6, <1>9, <2>3, AllSucceed
  <2>6. [p \in 1..n |-> ItemValue("STRING", Texts(jo)[p])] \in Seq(Keys)
    BY <1>5, <1>7, PairedArrays
  <2>7. Decoded(jo).subquery \in [room : Nat, items : Seq(Keys)]
    BY <1>5, <2>4, <2>6
  <2>8. Decoded(jo).subquery # Null
    BY <2>7, NullAssumption
  <2>9. Len([p \in 1..n |-> ItemValue("STRING", Texts(jo)[p])]) = n
    BY <1>5
  <2>10. QED
    BY <1>7, <2>4, <2>5, <2>8, <2>9
<1>10. QED
  BY <1>8, <1>9
------------------------------------------------------------------------------
(* Filling the table.                                                      *)

\* A turn of the loop files the next pair.
LEMMA PutFiles ==
  ASSUME TypeOK, ChainsSound, StoreInv,
         NEW key \in Keys, NEW c \in Cards, NEW t \in Printed(c), put(key, c, t),
         Paired(comment)
  PROVE  /\ i + 1 \in 1..Len(Texts(comment)) /\ Len(Texts(comment)) \in Nat
         /\ key = Texts(comment)[i + 1].str /\ c = Wanted(comment)[i + 1].num
         /\ \A k \in Keys : Filed(k)'
<1>1. pc = "storing" /\ i < card_replace_anchor.card_num /\ i \in Nat
  BY DEF put, Storing, TypeOK
<1>2. comment \in Comments /\ card_replace_anchor = Decoded(comment) /\ \A k \in Keys : Filed(k)
  BY <1>1 DEF StoreInv
<1>3. /\ card_replace_anchor.card_num = Len(Texts(comment)) /\ Len(Texts(comment)) \in Nat
      /\ \A p \in 1..Len(Texts(comment)) : Texts(comment)[p].str \in Keys
  BY <1>2, DecodedPairs, PairedArrays
<1>4. i + 1 \in 1..Len(Texts(comment)) /\ Len(Texts(comment)) # 0
  BY <1>1, <1>3
<1>5. key = Texts(comment)[i + 1].str /\ c = Wanted(comment)[i + 1].num
  BY <1>2, <1>4, DecodedPairs DEF put
<1>6. i' = i + 1 /\ comment' = comment
  BY DEF put
<1>7. ASSUME NEW k \in Keys PROVE Filed(k)'
  <2>1. Search(k)' = IF k = key THEN t ELSE Search(k)
    BY PutUpdates
  <2>2. 1..(i + 1) = 1..i \cup {i + 1} /\ \A o \in 1..(i + 1) : o <= i + 1
    BY <1>1
  <2>3. CASE k = key
    <3>1. Search(k)' \in Printed(Wanted(comment)[i + 1].num)
      BY <1>5, <2>1, <2>3
    <3>2. QED
      BY <1>5, <1>6, <2>2, <2>3, <3>1 DEF Filed
  <2>4. CASE k # key
    <3>1. Filed(k) /\ Search(k)' = Search(k) /\ Texts(comment)[i + 1].str # k
      BY <1>2, <1>5, <2>1, <2>4
    <3>2. QED
      BY <1>6, <2>2, <3>1 DEF Filed
  <2>5. QED
    BY <2>3, <2>4
<1>8. QED
  BY <1>3, <1>4, <1>5, <1>7

\* In a comment of pairs every card has its sub-query.
LEMMA SubqueryIsSet ==
  ASSUME TypeOK, StoreInv, Storing, Paired(comment)
  PROVE  SubqueryAt = "set"
<1>1. pc = "storing" /\ i < card_replace_anchor.card_num /\ i \in Nat
  BY DEF Storing, TypeOK
<1>2. comment \in Comments /\ card_replace_anchor = Decoded(comment)
  BY <1>1 DEF StoreInv
<1>3. card_replace_anchor.card_num = Len(Texts(comment)) /\ Len(Texts(comment)) \in Nat
  BY <1>2, DecodedPairs, PairedArrays
<1>4. /\ card_replace_anchor.subquery # Null
      /\ Len(card_replace_anchor.subquery.items) = Len(Texts(comment))
  BY <1>1, <1>2, <1>3, DecodedPairs
<1>5. QED
  BY <1>1, <1>3, <1>4 DEF SubqueryAt

LEMMA StepStores ==
  ASSUME TypeOK, ChainsSound, StoreInv, [Next]_vars
  PROVE  StoreInv'
<1>1. CASE \E jo \in Comments : anchor_handler(jo)
  <2>1. PICK jo \in Comments : anchor_handler(jo)
    BY <1>1
  <2>2. /\ comment' = jo /\ card_replace_anchor' = Decoded(jo) /\ i' = 0 /\ pc' = "storing"
    BY <2>1 DEF anchor_handler, Decoded
  <2>3. \A k \in Keys : Search(k)' = Null
    BY <2>1, HandlerClears
  <2>4. \A k \in Keys : Filed(k)'
    <3>1. \A p \in 1..0 : FALSE
      OBVIOUS
    <3>2. QED
      BY <2>2, <2>3, <3>1 DEF Filed
  <2>5. Paired(jo) => 0 <= Decoded(jo).card_num
    BY DecodedPairs, PairedArrays
  <2>6. QED
    BY <2>2, <2>4, <2>5 DEF StoreInv
<1>2. CASE \E key \in Keys, c \in Cards : \E t \in Printed(c) : put(key, c, t)
  <2>1. PICK key \in Keys, c \in Cards : \E t \in Printed(c) : put(key, c, t)
    BY <1>2
  <2>2. PICK t \in Printed(c) : put(key, c, t)
    BY <2>1
  <2>3. /\ pc = "storing" /\ UNCHANGED <<comment, card_replace_anchor, pc>> /\ i' = i + 1
    BY <2>2 DEF put, Storing
  <2>4. comment \in Comments /\ card_replace_anchor = Decoded(comment)
    BY <2>3 DEF StoreInv
  <2>5. Paired(comment) => i' <= card_replace_anchor.card_num /\ \A k \in Keys : Filed(k)'
    BY <2>2, <2>3, <2>4, PutFiles, DecodedPairs
  <2>6. QED
    BY <2>3, <2>4, <2>5 DEF StoreInv
<1>3. CASE PutGarbage
  <2>1. Storing /\ SubqueryAt = "outside"
    BY <1>3 DEF PutGarbage
  <2>2. ~Paired(comment)
    BY <2>1, SubqueryIsSet
  <2>3. pc = "storing" /\ UNCHANGED <<comment, card_replace_anchor, pc>>
    BY <1>3, <2>1 DEF PutGarbage, Storing
  <2>4. QED
    BY <2>2, <2>3 DEF StoreInv
<1>4. CASE PlannerReturns
  BY <1>4 DEF PlannerReturns, StoreInv
<1>5. CASE Stored
  <2>1. /\ pc = "storing" /\ pc' = "planning" /\ i = card_replace_anchor.card_num
        /\ UNCHANGED <<comment, card_replace_anchor, i, hash_bytes, table_size, entries>>
    BY <1>5 DEF Stored, tableVars
  <2>2. \A k \in Keys : Filed(k)' <=> Filed(k)
    BY <2>1 DEF Filed, Search, Usable, hash
  <2>3. QED
    BY <2>1, <2>2 DEF StoreInv
<1>6. CASE (\E k \in Keys, n \in OwnRows : Replace(k, n) \/ KeepOwn(k, n))
             \/ PutCrashes \/ ReplaceCrashes \/ UNCHANGED vars
  <2>1. UNCHANGED <<comment, card_replace_anchor, i, pc, hash_bytes, table_size, entries>>
    BY <1>6 DEF Replace, KeepOwn, PutCrashes, ReplaceCrashes, vars, tableVars
  <2>2. \A k \in Keys : Filed(k)' <=> Filed(k)
    BY <2>1 DEF Filed, Search, Usable, hash
  <2>3. QED
    BY <2>1, <2>2 DEF StoreInv
<1>7. QED
  BY <1>1, <1>2, <1>3, <1>4, <1>5, <1>6 DEF Next

LEMMA InitStores == ASSUME Init PROVE StoreInv
  BY DEF Init, StoreInv

------------------------------------------------------------------------------
(* The theorems.                                                           *)

\* The two roundings of a cardinality, to thousandths and to rows.
LEMMA RoundedTwice ==
  ASSUME NEW c \in Nat, NEW t \in Printed(c)
  PROVE  Close(clamp_row_est(t), c)
<1>1. t \in Nat /\ 10 * t - c <= 5 /\ c - 10 * t <= 5
  BY DEF Printed, Abs
<1>2. CASE t <= 1000
  BY <1>1, <1>2 DEF Close, clamp_row_est, Abs
<1>3. CASE t > 1000
  <2> DEFINE n == t \div 1000
             r == t % 1000
  <2>1. n \in Nat /\ r \in 0..999 /\ t = 1000 * n + r
    BY <1>1
  <2>2. clamp_row_est(t) = IF r < 500 \/ (r = 500 /\ n % 2 = 0) THEN n ELSE n + 1
    BY <1>1, <1>3 DEF clamp_row_est
  <2> HIDE DEF n, r
  <2>3. clamp_row_est(t) \in {n, n + 1}
        /\ (clamp_row_est(t) = n => r <= 500) /\ (clamp_row_est(t) = n + 1 => r >= 500)
    BY <2>1, <2>2
  <2>4. 1000 * clamp_row_est(t) - t <= 500 /\ t - 1000 * clamp_row_est(t) <= 500
    BY <2>1, <2>3
  <2>5. c > 10000
    BY <1>1, <1>3
  <2> DEFINE rows == clamp_row_est(t)
  <2>6. rows \in Int /\ 1000 * rows - t <= 500 /\ t - 1000 * rows <= 500
    BY <2>1, <2>3, <2>4
  <2> HIDE DEF rows
  <2>7. 10000 * rows - c <= 5005 /\ c - 10000 * rows <= 5005
    BY <1>1, <2>6
  <2>8. Close(rows, c)
    BY <2>5, <2>6, <2>7 DEF Close, Abs
  <2>9. QED
    BY <2>8 DEF rows
<1>4. QED
  BY <1>1, <1>2, <1>3

\* Where the sub-query is listed, the comment's cardinality is found, and
\* nothing is found where it is not.
LEMMA Found ==
  ASSUME TypeOK, StoreInv, pc = "planning", Paired(comment), NEW k \in Keys
  PROVE  IF Listed(comment, k) THEN Search(k) \in Printed(CardFor(comment, k))
                                    /\ CardFor(comment, k) \in Nat
                               ELSE Search(k) = Null
<1>1. /\ comment \in Comments /\ Filed(k)
      /\ i = card_replace_anchor.card_num /\ card_replace_anchor = Decoded(comment)
  BY DEF StoreInv
<1>2. /\ i = Len(Texts(comment)) /\ DOMAIN Texts(comment) = 1..i
      /\ i \in Nat /\ \A p \in 1..i : Wanted(comment)[p].num \in Nat
  BY <1>1, DecodedPairs, PairedArrays
<1>3. CASE \A p \in 1..i : Texts(comment)[p].str # k
  <2>1. ~Listed(comment, k)
    BY <1>2, <1>3 DEF Listed
  <2>2. QED
    BY <1>1, <1>3, <2>1 DEF Filed
<1>4. CASE ~ \A p \in 1..i : Texts(comment)[p].str # k
  <2>1. PICK p \in 1..i : /\ Texts(comment)[p].str = k
                          /\ \A o \in 1..i : Texts(comment)[o].str = k => o <= p
                          /\ Search(k) \in Printed(Wanted(comment)[p].num)
    BY <1>1, <1>4 DEF Filed
  <2>2. CardFor(comment, k) = Wanted(comment)[p].num
    <3> DEFINE Last(x) == /\ Texts(comment)[x].str = k
                          /\ \A o \in DOMAIN Texts(comment) : Texts(comment)[o].str = k => o <= x
               last == CHOOSE x \in DOMAIN Texts(comment) : Last(x)
    <3>1. p \in DOMAIN Texts(comment) /\ Last(p)
      BY <1>2, <2>1
    <3>2. last \in DOMAIN Texts(comment) /\ Last(last)
      BY <3>1
    <3>3. last = p
      BY <1>2, <3>1, <3>2
    <3>4. QED
      BY <3>3 DEF CardFor
  <2>3. Listed(comment, k)
    BY <1>2, <2>1 DEF Listed
  <2>4. QED
    BY <1>2, <2>1, <2>2, <2>3
<1>5. QED
  BY <1>3, <1>4

AskedStep ==
  estimate' # estimate /\ Paired(comment) =>
    LET e == estimate'
    IN IF card_replace_anchor.enable = 1 /\ Listed(comment, e.key)
       THEN Close(e.rows, CardFor(comment, e.key))
       ELSE e.rows = clamp_row_est(e.own)

LEMMA EstimatesAsAsked ==
  ASSUME TypeOK, StoreInv, [Next]_vars
  PROVE  AskedStep
<1> SUFFICES ASSUME estimate' # estimate, Paired(comment) PROVE AskedStep
  BY DEF AskedStep
<1>1. CASE \E k \in Keys, n \in OwnRows : Replace(k, n)
  <2>1. PICK k \in Keys, n \in OwnRows : Replace(k, n)
    BY <1>1
  <2>2. /\ pc = "planning" /\ card_replace_anchor.enable = 1
        /\ estimate' = [key |-> k, own |-> n,
                        rows |-> clamp_row_est(IF Search(k) # Null THEN Search(k) ELSE n)]
    BY <2>1 DEF Replace, Search
  <2>3. estimate'.key = k /\ estimate'.own = n
        /\ estimate'.rows = clamp_row_est(IF Search(k) # Null THEN Search(k) ELSE n)
    BY <2>2
  <2>4. CASE Listed(comment, k)
    <3>1. Search(k) \in Printed(CardFor(comment, k)) /\ CardFor(comment, k) \in Nat
      BY <2>2, <2>4, Found
    <3>2. Search(k) # Null
      BY <3>1, PrintedIsNat, NullAssumption
    <3>3. Close(estimate'.rows, CardFor(comment, k))
      BY <2>3, <3>1, <3>2, RoundedTwice
    <3>4. QED
      BY <2>2, <2>3, <2>4, <3>3 DEF AskedStep
  <2>5. CASE ~Listed(comment, k)
    <3>1. Search(k) = Null
      BY <2>2, <2>5, Found
    <3>2. QED
      BY <2>3, <2>5, <3>1 DEF AskedStep
  <2>6. QED
    BY <2>4, <2>5
<1>2. CASE \E k \in Keys, n \in OwnRows : KeepOwn(k, n)
  <2>1. PICK k \in Keys, n \in OwnRows : KeepOwn(k, n)
    BY <1>2
  <2>2. card_replace_anchor.enable # 1 /\ estimate'.rows = clamp_row_est(estimate'.own)
    BY <2>1 DEF KeepOwn
  <2>3. QED
    BY <2>2 DEF AskedStep
<1>3. CASE ~ \E k \in Keys, n \in OwnRows : Replace(k, n) \/ KeepOwn(k, n)
  <2>1. estimate' = estimate
    BY <1>3 DEF Next, anchor_handler, put, PutCrashes, PutGarbage, Stored, ReplaceCrashes,
                PlannerReturns, vars
  <2>2. QED
    BY <2>1
<1>4. QED
  BY <1>1, <1>2, <1>3

\* The rows the planner goes on with are those the comment being planned
\* asks for, up to the two roundings, and its own estimate for a sub-query it
\* does not list, whatever earlier comments and the other pairs have put in
\* the table (set_baserel_size_estimates, calc_joinrel_size_estimate).
THEOREM AsAsked == Spec => ReplacedAsAsked
<1>1. Init => TypeOK /\ ChainsSound /\ StoreInv
  BY InitGood, InitStores
<1>2. TypeOK /\ ChainsSound /\ StoreInv /\ [Next]_vars => (TypeOK /\ ChainsSound /\ StoreInv)'
  BY StepKeepsTable, StepStores
<1>3. TypeOK /\ StoreInv /\ [Next]_vars => [AskedStep]_vars
  BY EstimatesAsAsked
<1>4. ReplacedAsAsked <=> [][AskedStep]_vars
  BY DEF ReplacedAsAsked, AskedStep
<1>5. QED
  BY <1>1, <1>2, <1>3, <1>4, PTL DEF Spec

--------------------------------------------------------------------------------
(* Plain comments.                                                         *)

CleanStep == (tainted' /\ ~tainted) \/ (crashed' /\ ~crashed) => ~Plain(comment)

\* The table has the size the comment calls for.
SizeInv == pc # "idle" =>
             table_size = IntWrap(card_replace_anchor.card_num * card_replace_anchor.card_num)

\* Every entry has room for the numbers its text is still to be given.
Roomy(e) == \A o \in (i + 1)..Len(Texts(comment)) :
              Texts(comment)[o].str = e.key =>
                \A t \in Printed(Wanted(comment)[o].num) : Size(t) <= e.room
RoomInv == pc = "storing" /\ Plain(comment) =>
             \A b \in DOMAIN entries : \A q \in DOMAIN entries[b] : Roomy(entries[b][q])

PlainInv == StoreInv /\ SizeInv /\ RoomInv

\* A put allocates an entry or writes into one where it is.
LEMMA PutInRooms ==
  ASSUME NEW chain \in Seq(Entry), Sound(chain), NEW key \in Keys, NEW v \in Nat,
         NEW q \in DOMAIN PutIn(chain, key, v)
  PROVE  \/ Position(chain, key) = 0 /\ PutIn(chain, key, v)[q] = create_entry(key, v)
         \/ \E o \in DOMAIN chain : /\ PutIn(chain, key, v)[q].key = chain[o].key
                                    /\ PutIn(chain, key, v)[q].room = chain[o].room
<1> DEFINE p == Position(chain, key)
<1>1. CASE p # 0
  <2>1. p \in DOMAIN chain
    BY <1>1, PositionFinds
  <2>2. PutIn(chain, key, v) = [chain EXCEPT ![p].value = v]
    BY <1>1 DEF PutIn
  <2>3. \A o \in DOMAIN chain : chain[o] \in [key : Keys, value : Nat, room : Nat]
    <3> TAKE o \in DOMAIN chain
    <3>1. chain[o] \in Entry
      OBVIOUS
    <3>2. QED
      BY <3>1 DEF Entry
  <2>4. q \in DOMAIN chain
    BY <2>2
  <2>5. /\ PutIn(chain, key, v)[q].key = chain[q].key
        /\ PutIn(chain, key, v)[q].room = chain[q].room
    BY <2>1, <2>2, <2>3, <2>4
  <2>6. QED
    BY <2>4, <2>5
<1>2. CASE p = 0
  <2>1. PutIn(chain, key, v) = <<create_entry(key, v)>> \o chain
    BY <1>2 DEF PutIn
  <2>2. CASE q = 1
    BY <1>2, <2>1, <2>2
  <2>3. CASE q # 1
    <3>1. q - 1 \in DOMAIN chain /\ PutIn(chain, key, v)[q] = chain[q - 1]
      BY <2>1, <2>3
    <3>2. QED
      BY <3>1
  <2>4. QED
    BY <2>2, <2>3
<1>3. QED
  BY <1>1, <1>2

\* What a put makes of the entries: none but its own is new, and that only
\* when the text was not filed yet.
LEMMA PutRooms ==
  ASSUME TypeOK, ChainsSound, NEW key \in Keys, NEW c \in Cards, NEW t \in Printed(c),
         put(key, c, t), NEW b \in DOMAIN entries', NEW q \in DOMAIN entries'[b]
  PROVE  \/ Search(key) = Null /\ entries'[b][q].key = key /\ entries'[b][q].room = Size(t)
         \/ \E a \in DOMAIN entries : \E o \in DOMAIN entries[a] :
              entries'[b][q].key = entries[a][o].key /\ entries'[b][q].room = entries[a][o].room
<1> DEFINE h == hash(key)
           old == entries[h]
<1>1. /\ t \in Nat /\ h \in DOMAIN entries /\ DOMAIN entries' = DOMAIN entries
      /\ \A a \in DOMAIN entries : a # h => entries'[a] = entries[a]
      /\ entries'[h] = PutIn(old, key, t) /\ old \in Seq(Entry)
  BY OnePut
<1>2. Sound(old)
  BY <1>1, ChainsAreSound
<1>3. CASE b # h
  BY <1>1, <1>3
<1>4. CASE b = h
  <2>1. CASE Position(old, key) = 0 /\ entries'[b][q] = create_entry(key, t)
    <3>1. Usable
      BY DEF put
    <3>2. Search(key) = Null
      BY <2>1, <3>1 DEF Search, GetFrom
    <3>3. QED
      BY <2>1, <3>2 DEF create_entry
  <2>2. CASE \E o \in DOMAIN old : /\ entries'[b][q].key = old[o].key
                                   /\ entries'[b][q].room = old[o].room
    BY <1>1, <2>2
  <2>3. q \in DOMAIN PutIn(old, key, t) /\ entries'[b][q] = PutIn(old, key, t)[q]
    BY <1>1, <1>4
  <2>4. QED
    BY <1>1, <1>2, <2>1, <2>2, <2>3, PutInRooms
<1>5. QED
  BY <1>3, <1>4

\* A text that is not found is none of the pairs so far.
LEMMA NotFiled ==
  ASSUME NEW key \in Keys, Filed(key), Search(key) = Null, Paired(comment), comment \in Comments,
         i \in Nat, i <= Len(Texts(comment))
  PROVE  \A p \in 1..i : Texts(comment)[p].str # key
<1>1. ASSUME NEW p \in 1..i, Null \in Printed(Wanted(comment)[p].num) PROVE FALSE
  <2>1. Wanted(comment)[p].num \in Nat
    BY PairedArrays
  <2>2. QED
    BY <1>1, <2>1, PrintedIsNat, NullAssumption
<1>2. QED
  BY <1>1 DEF Filed

\* A put leaves every entry roomy.
LEMMA PutKeepsRooms ==
  ASSUME TypeOK, ChainsSound, StoreInv, RoomInv, Plain(comment),
         NEW key \in Keys, NEW c \in Cards, NEW t \in Printed(c), put(key, c, t)
  PROVE  RoomInv'
<1>1. Paired(comment) /\ pc = "storing" /\ i' = i + 1 /\ comment' = comment /\ i \in Nat
  BY DEF Plain, put, Storing, TypeOK
<1>2. /\ i + 1 \in 1..Len(Texts(comment)) /\ Len(Texts(comment)) \in Nat
      /\ key = Texts(comment)[i + 1].str /\ c = Wanted(comment)[i + 1].num
  BY <1>1, PutFiles
<1>3. comment \in Comments /\ Filed(key)
  BY <1>1 DEF StoreInv
<1>4. DOMAIN Texts(comment) = 1..Len(Texts(comment))
  BY <1>1, <1>3, PairedArrays
<1> SUFFICES ASSUME NEW b \in DOMAIN entries', NEW q \in DOMAIN entries'[b],
                    NEW o \in (i' + 1)..Len(Texts(comment')),
                    Texts(comment')[o].str = entries'[b][q].key,
                    NEW u \in Printed(Wanted(comment')[o].num)
             PROVE  Size(u) <= entries'[b][q].room
  BY DEF RoomInv, Roomy
<1> DEFINE e == entries'[b][q]
<1>8. /\ o \in (i + 2)..Len(Texts(comment)) /\ Texts(comment)[o].str = e.key
      /\ u \in Printed(Wanted(comment)[o].num)
  BY <1>1
<1>5. CASE Search(key) = Null /\ e.key = key /\ e.room = Size(t)
  <2>1. Earliest(comment, i + 1)
    <3>1. \A p \in 1..i : Texts(comment)[p].str # key
      BY <1>1, <1>2, <1>3, <1>5, NotFiled
    <3>2. QED
      BY <1>1, <1>2, <3>1 DEF Earliest
  <2>2. /\ i + 1 \in DOMAIN Texts(comment) /\ o \in DOMAIN Texts(comment) /\ i + 1 < o
        /\ Texts(comment)[i + 1].str = Texts(comment)[o].str
    BY <1>1, <1>2, <1>4, <1>5, <1>8
  <2>3. Shorter(Wanted(comment)[o].num, Wanted(comment)[i + 1].num)
    BY <2>1, <2>2 DEF Plain
  <2>4. QED
    BY <1>2, <1>5, <1>8, <2>3 DEF Shorter
<1>6. ASSUME NEW a \in DOMAIN entries, NEW x \in DOMAIN entries[a],
             e.key = entries[a][x].key, e.room = entries[a][x].room
      PROVE  Size(u) <= e.room
  <2>1. Roomy(entries[a][x])
    BY <1>1 DEF RoomInv
  <2>2. o \in (i + 1)..Len(Texts(comment))
    BY <1>1, <1>2, <1>8
  <2>3. QED
    BY <1>6, <1>8, <2>1, <2>2 DEF Roomy
<1>7. QED
  BY <1>5, <1>6, PutRooms

LEMMA StepRooms ==
  ASSUME TypeOK, ChainsSound, PlainInv, [Next]_vars
  PROVE  SizeInv' /\ RoomInv'
<1> USE DEF PlainInv
<1>1. CASE \E jo \in Comments : anchor_handler(jo)
  <2>1. PICK jo \in Comments : anchor_handler(jo)
    BY <1>1
  <2>2. SizeInv'
    BY <2>1 DEF anchor_handler, SizeInv
  <2>3. \A b \in DOMAIN entries' : entries'[b] = <<>>
    BY <2>1, NewTable
  <2>4. QED
    BY <2>2, <2>3 DEF RoomInv
<1>2. CASE \E key \in Keys, c \in Cards : \E t \in Printed(c) : put(key, c, t)
  <2>1. PICK key \in Keys, c \in Cards : \E t \in Printed(c) : put(key, c, t)
    BY <1>2
  <2>2. PICK t \in Printed(c) : put(key, c, t)
    BY <2>1
  <2>3. UNCHANGED <<comment, pc, card_replace_anchor, table_size>>
    BY <2>2 DEF put
  <2>4. SizeInv'
    BY <2>3 DEF SizeInv
  <2>5. CASE ~Plain(comment)
    BY <2>3, <2>4, <2>5 DEF RoomInv
  <2>6. CASE Plain(comment)
    BY <2>2, <2>4, <2>6, PutKeepsRooms
  <2>7. QED
    BY <2>5, <2>6
<1>3. CASE PutGarbage
  <2>1. Storing /\ SubqueryAt = "outside"
    BY <1>3 DEF PutGarbage
  <2>2. ~Paired(comment)
    BY <2>1, SubqueryIsSet
  <2>3. UNCHANGED <<comment, pc, card_replace_anchor, table_size>>
    BY <1>3 DEF PutGarbage, tableVars
  <2>4. ~Plain(comment)'
    BY <2>2, <2>3 DEF Plain
  <2>5. QED
    BY <2>3, <2>4 DEF SizeInv, RoomInv
<1>4. CASE PlannerReturns
  BY <1>4 DEF PlannerReturns, SizeInv, RoomInv
<1>5. CASE Stored
  <2>1. pc = "storing" /\ pc' = "planning" /\ UNCHANGED <<card_replace_anchor, table_size>>
    BY <1>5 DEF Stored, tableVars
  <2>2. QED
    BY <2>1 DEF SizeInv, RoomInv
<1>6. CASE (\E k \in Keys, n \in OwnRows : Replace(k, n) \/ KeepOwn(k, n))
             \/ PutCrashes \/ ReplaceCrashes \/ UNCHANGED vars
  <2>1. UNCHANGED <<comment, card_replace_anchor, i, pc, table_size, entries>>
    BY <1>6 DEF Replace, KeepOwn, PutCrashes, ReplaceCrashes, vars, tableVars
  <2>2. RoomInv'
    BY <2>1 DEF RoomInv, Roomy
  <2>3. QED
    BY <2>1, <2>2 DEF SizeInv
<1>7. QED
  BY <1>1, <1>2, <1>3, <1>4, <1>5, <1>6 DEF Next

\* A put overruns nothing: a number fits the buffer, and the entry it goes
\* into, old or new, has room for it.
LEMMA PlainPutIsClean ==
  ASSUME TypeOK, ChainsSound, StoreInv, RoomInv, Plain(comment),
         NEW key \in Keys, NEW c \in Cards, NEW t \in Printed(c), put(key, c, t)
  PROVE  ~(Size(t) > CHAR_LEN_FOR_NUM \/ Overruns(entries[hash(key)], key, t))
<1>1. Paired(comment) /\ pc = "storing" /\ i \in Nat
  BY DEF Plain, put, Storing, TypeOK
<1>2. /\ i + 1 \in 1..Len(Texts(comment)) /\ Len(Texts(comment)) \in Nat
      /\ key = Texts(comment)[i + 1].str /\ c = Wanted(comment)[i + 1].num
  BY <1>1, PutFiles
<1>3. DOMAIN Wanted(comment) = 1..Len(Texts(comment))
  BY <1>1, PairedArrays DEF StoreInv
<1>4. Size(t) <= CHAR_LEN_FOR_NUM /\ Size(t) \in Nat
  BY <1>2, <1>3, SizeIsNat, OnePut DEF Plain
<1>5. ~Overruns(entries[hash(key)], key, t)
  <2> DEFINE chain == entries[hash(key)]
             p     == Position(chain, key)
  <2>1. chain \in Seq(Entry) /\ Sound(chain) /\ hash(key) \in DOMAIN entries
    BY OnePut, ChainsAreSound
  <2>2. ASSUME p # 0 PROVE Size(t) <= chain[p].room /\ chain[p].room \in Nat
    <3>1. p \in DOMAIN chain /\ chain[p].key = key
      BY <2>1, <2>2, PositionFinds
    <3>2. chain[p] \in Entry
      BY <2>1, <3>1
    <3>3. Roomy(chain[p])
      BY <1>1, <2>1, <3>1 DEF RoomInv
    <3>4. i + 1 \in (i + 1)..Len(Texts(comment))
      BY <1>1, <1>2
    <3>5. Size(t) <= chain[p].room
      BY <1>2, <3>1, <3>3, <3>4 DEF Roomy
    <3>6. QED
      BY <3>2, <3>5 DEF Entry
  <2>3. QED
    BY <1>4, <2>2 DEF Overruns
<1>6. QED
  BY <1>4, <1>5, NumbersAssumption

\* The table of a plain comment can be hashed into.
LEMMA PlainIsUsable ==
  ASSUME StoreInv, SizeInv, pc # "idle", Plain(comment)
  PROVE  Usable
<1> DEFINE n == Len(Wanted(comment))
<1>1. comment \in Comments /\ Paired(comment) /\ card_replace_anchor = Decoded(comment)
  BY DEF StoreInv, Plain
<1>2. card_replace_anchor.card_num = n /\ n \in Nat /\ n # 0 /\ n * n <= INT_MAX
  BY <1>1, PairedArrays, DecodedPairs DEF Plain
<1>3. table_size = IntWrap(n * n)
  BY <1>2 DEF SizeInv
<1> HIDE DEF n
<1>4. n * n \in Nat /\ n * n # 0
  BY <1>2
<1>5. ASSUME NEW m \in Nat, m # 0, m <= INT_MAX PROVE IntWrap(m) > 0
  <2>1. m % (2 * INT_MAX + 2) = m
    BY <1>5, NumbersAssumption
  <2>2. QED
    BY <1>5, <2>1 DEF IntWrap
<1>6. QED
  BY <1>2, <1>3, <1>4, <1>5 DEF Usable

LEMMA PlainStaysClean ==
  ASSUME TypeOK, ChainsSound, PlainInv, [Next]_vars
  PROVE  CleanStep
<1> SUFFICES ASSUME Plain(comment), Next PROVE tainted' = tainted /\ (crashed' => crashed)
  BY DEF CleanStep, vars
<1> USE DEF PlainInv
<1>1. CASE \E key \in Keys, c \in Cards : \E t \in Printed(c) : put(key, c, t)
  <2>1. PICK key \in Keys, c \in Cards : \E t \in Printed(c) : put(key, c, t)
    BY <1>1
  <2>2. PICK t \in Printed(c) : put(key, c, t)
    BY <2>1
  <2>3. ~(Size(t) > CHAR_LEN_FOR_NUM \/ Overruns(entries[hash(key)], key, t))
    BY <2>2, PlainPutIsClean
  <2>4. QED
    BY <2>2, <2>3 DEF put, TypeOK
<1>2. CASE PutCrashes \/ PutGarbage
  <2>1. Storing /\ (~Usable \/ SubqueryAt # "set")
    BY <1>2 DEF PutCrashes, PutGarbage
  <2>2. SubqueryAt = "set" /\ Usable
    BY <2>1, SubqueryIsSet, PlainIsUsable DEF Plain, Storing
  <2>3. QED
    BY <2>1, <2>2
<1>3. CASE ReplaceCrashes
  BY <1>3, PlainIsUsable DEF ReplaceCrashes
<1>4. CASE (\E jo \in Comments : anchor_handler(jo)) \/ Stored \/ PlannerReturns
             \/ \E k \in Keys, n \in OwnRows : Replace(k, n) \/ KeepOwn(k, n)
  BY <1>4 DEF anchor_handler, Stored, Replace, KeepOwn, PlannerReturns
<1>5. QED
  BY <1>1, <1>2, <1>3, <1>4 DEF Next

\* For a comment with at least one pair, whose numbers fit and are no longer
\* than the first for their text, no step divides by zero, reads beyond an
\* array or overruns a stored value, whatever texts collide or are repeated
\* (store_aimodel_subquery2card, put and strcpy in utils/hashtable.c).
THEOREM PlainClean == Spec => PlainIsClean
<1>1. Init => TypeOK /\ ChainsSound /\ PlainInv
  <2>1. Init => SizeInv /\ RoomInv
    BY DEF Init, SizeInv, RoomInv
  <2>2. QED
    BY <2>1, InitGood, InitStores DEF PlainInv
<1>2. TypeOK /\ ChainsSound /\ PlainInv /\ [Next]_vars => (TypeOK /\ ChainsSound /\ PlainInv)'
  BY StepKeepsTable, StepStores, StepRooms DEF PlainInv
<1>3. TypeOK /\ ChainsSound /\ PlainInv /\ [Next]_vars => [CleanStep]_vars
  BY PlainStaysClean
<1>4. PlainIsClean <=> [][CleanStep]_vars
  BY DEF PlainIsClean, CleanStep
<1>5. QED
  BY <1>1, <1>2, <1>3, <1>4, PTL DEF Spec

==============================================================================
