------------------------------ MODULE CardTable ------------------------------
(***************************************************************************)
(* The card-replace anchor: parse_json.c reads its JSON object into a      *)
(* CardReplaceAnchor, store_aimodel_subquery2card of anchor2struct.c files *)
(* the pairs in the hash table of utils/hashtable.c, and the size          *)
(* estimates of optimizer/path/costsize.c look their sub-query up in it.   *)
(*                                                                         *)
(* A cardinality is a number of ten-thousandths of a row in the comment    *)
(* and of thousandths once it is printed with "%.3f".  The hash function   *)
(* is any function.  One comment is planned after another; what becomes of *)
(* the struct itself is AnchorSession's subject.                           *)
(***************************************************************************)
EXTENDS Cson

CONSTANTS
  Keys,             \* sub-query texts
  Cards,            \* cardinalities, in ten-thousandths of a row
  Comments,         \* JSON objects of the anchor
  Hashes,           \* values of hash_bytes
  OwnRows,          \* the planner's own estimates, in thousandths of a row
  INT_MAX,          \* the largest int
  CHAR_LEN_FOR_NUM, \* bytes a printed cardinality has room in
  MaxComments       \* bound on the comments of a session

ASSUME NullAssumption == Null \notin Keys \cup Nat \cup [room : Nat, items : Seq(Keys)]
ASSUME CommentsAssumption == \* a JSON array is a sequence; of Keys and Cards, among others
  \A jo \in Comments : \A f \in DOMAIN jo :
    typeof(jo[f]) = "ARRAY" =>
      /\ Len(jo[f].arr) \in Nat /\ DOMAIN jo[f].arr = 1..Len(jo[f].arr)
      /\ \A p \in DOMAIN jo[f].arr :
           /\ typeof(jo[f].arr[p]) = "STRING" => jo[f].arr[p].str \in Keys
           /\ typeof(jo[f].arr[p]) = "REAL" => jo[f].arr[p].num \in Cards
ASSUME NumbersAssumption ==
  /\ Cards \subseteq Nat /\ Hashes \subseteq Nat /\ OwnRows \subseteq Nat
  /\ INT_MAX \in Nat /\ CHAR_LEN_FOR_NUM \in Nat /\ MaxComments \in Nat

VARIABLES
  hash_bytes,          \* the hash function
  comment,             \* the last comment's JSON object
  card_replace_anchor, \* the struct read from it
  table_size,
  entries,             \* the chain of every bucket of "table"
  i,                   \* how many pairs the comment's loop has been through
  pc,                  \* "idle", "storing" or "planning"
  got,                 \* the last get of the table
  estimate,            \* the last size estimate
  parses,              \* comments so far
  tainted,             \* ghost: memory outside an object has been read or written
  crashed              \* the backend process is gone

tableVars == <<table_size, entries>>
vars == <<hash_bytes, comment, card_replace_anchor, tableVars, i, pc, got, estimate,
          parses, tainted, crashed>>

Card_Replace_Anchor_ref_tbl ==
  { [field |-> "enable",   type |-> "BOOL",   of |-> "NONE",   count |-> "NONE"],
    [field |-> "name",     type |-> "STRING", of |-> "NONE",   count |-> "NONE"],
    [field |-> "subquery", type |-> "ARRAY",  of |-> "STRING", count |-> "subquery_num"],
    [field |-> "card",     type |-> "ARRAY",  of |-> "REAL",   count |-> "card_num"] }

CardReplaceAnchor == [enable |-> 0, name |-> Null, subquery |-> Null, subquery_num |-> 0,
                      card |-> Null, card_num |-> 0]

------------------------------------------------------------------------------
(* Numbers.                                                                *)

Abs(n) == IF n < 0 THEN -n ELSE n

\* The value an int product wraps to.
IntWrap(n) == LET m == n % (2 * INT_MAX + 2)
              IN IF m <= INT_MAX THEN m ELSE m - (2 * INT_MAX + 2)

\* sprintf "%.3f": the nearest thousandth; a tie goes either way.
Printed(c) == {t \in {c \div 10, c \div 10 + 1} : Abs(10 * t - c) <= 5}

\* The bytes of the text, its terminator included.
Size(t) == 5 + Cardinality({d \in 0..9 : d = 0 \/ t \div 1000 >= 10^d})

\* clamp_row_est, in rows: at least one, else rint.
clamp_row_est(t) ==
  IF t <= 1000 THEN 1
  ELSE LET n == t \div 1000
           r == t % 1000
       IN IF r < 500 \/ (r = 500 /\ n % 2 = 0) THEN n ELSE n + 1

------------------------------------------------------------------------------
(* utils/hashtable.c.  A chain is the sequence of its entries, the newest  *)
(* first; "room" is what the value was allocated with.                     *)

hash(key) == hash_bytes[key] % table_size

create_entry(key, value) == [key |-> key, value |-> value, room |-> Size(value)]

\* Variant: whatever is in the bucket is taken for the key.
Position_ByBucket(chain, key) == IF chain # <<>> THEN 1 ELSE 0
\* The first entry of a chain with the key, 0 if there is none.
Position(chain, key) ==
  IF \E p \in DOMAIN chain : chain[p].key = key
  THEN CHOOSE p \in DOMAIN chain : /\ chain[p].key = key
                                   /\ \A o \in 1..(p - 1) : chain[o].key # key
  ELSE 0

\* Variant: the new entry is not linked to the chain.
PutIn_DropsRest(chain, key, value) == <<create_entry(key, value)>>
\* Variant: an entry is added whether or not the key is there.
PutIn_Always(chain, key, value) == <<create_entry(key, value)>> \o chain
PutIn(chain, key, value) ==
  LET p == Position(chain, key)
  IN IF p # 0 THEN [chain EXCEPT ![p].value = value]
              ELSE <<create_entry(key, value)>> \o chain

\* strcpy into a value that was allocated for a shorter one.
Overruns(chain, key, value) ==
  LET p == Position(chain, key)
  IN p # 0 /\ Size(value) > chain[p].room

GetFrom(chain, key) ==
  LET p == Position(chain, key)
  IN IF p # 0 THEN chain[p].value ELSE Null

\* Every access divides by table_size and reads a table calloc may have
\* refused to make for it.
Usable == table_size > 0

------------------------------------------------------------------------------
(* Reading a comment and filling the table.                                *)

\* Variant: the table of the last comment is used again.
create_hashtable_Kept(size) ==
  [b \in 0..(size - 1) |-> IF size = table_size THEN entries[b] ELSE <<>>]
create_hashtable(size) == [b \in 0..(size - 1) |-> <<>>]

anchor_handler(jo) ==
  /\ pc = "idle" /\ parses < MaxComments
  /\ parses' = parses + 1
  /\ comment' = jo
  /\ card_replace_anchor' =
       csonJsonObj2Struct(jo, CardReplaceAnchor, Card_Replace_Anchor_ref_tbl)
  /\ LET n == card_replace_anchor'.card_num
     IN /\ table_size' = IntWrap(n * n)
        /\ entries' = create_hashtable(table_size')
  /\ i' = 0
  /\ pc' = "storing"
  /\ UNCHANGED <<hash_bytes, got, estimate, tainted, crashed>>

Storing == pc = "storing" /\ i < card_replace_anchor.card_num

\* Where the loop reads card_replace_anchor->subquery[i]: "unset" is a NULL
\* left by an item that was no string, "outside" is beyond the array.
SubqueryAt == LET a == card_replace_anchor.subquery
              IN IF a = Null THEN "outside"
                 ELSE IF i < Len(a.items) THEN "set"
                 ELSE IF i < a.room THEN "unset" ELSE "outside"

\* One turn of the loop: sprintf into char[CHAR_LEN_FOR_NUM], then put.
put(key, c, t) ==
  /\ Storing /\ Usable /\ SubqueryAt = "set"
  /\ key = card_replace_anchor.subquery.items[i + 1]
  /\ c = card_replace_anchor.card.items[i + 1]
  /\ t \in Printed(c)
  /\ LET b    == hash(key)
         over == Size(t) > CHAR_LEN_FOR_NUM \/ Overruns(entries[b], key, t)
     IN /\ entries' = [entries EXCEPT ![b] = PutIn(@, key, t)]
        /\ tainted' = (tainted \/ over)
        /\ crashed' \in (IF over THEN BOOLEAN ELSE {FALSE})
  /\ i' = i + 1
  /\ UNCHANGED <<hash_bytes, comment, card_replace_anchor, table_size, pc, got, estimate, parses>>

\* Division by zero, no table, or strlen of NULL.
PutCrashes ==
  /\ Storing /\ (~Usable \/ SubqueryAt # "set")
  /\ crashed' = TRUE
  /\ tainted' = (tainted \/ SubqueryAt = "outside")
  /\ UNCHANGED <<hash_bytes, comment, card_replace_anchor, tableVars, i, pc, got, estimate, parses>>

\* What lies beyond the array happens to be a pointer to something, which is
\* no sub-query.
PutGarbage ==
  /\ Storing /\ Usable
  /\ card_replace_anchor.subquery # Null /\ SubqueryAt = "outside"
  /\ i' = i + 1
  /\ tainted' = TRUE
  /\ UNCHANGED <<hash_bytes, comment, card_replace_anchor, tableVars, pc, got, estimate,
                 parses, crashed>>

Stored ==
  /\ pc = "storing" /\ i = card_replace_anchor.card_num
  /\ pc' = "planning"
  /\ UNCHANGED <<hash_bytes, comment, card_replace_anchor, tableVars, i, got, estimate,
                 parses, tainted, crashed>>

------------------------------------------------------------------------------
(* Planning.                                                               *)

\* set_baserel_size_estimates, calc_joinrel_size_estimate: the estimate for
\* sub-query k, for which the planner's own statistics say nrows.
Replace(k, nrows) ==
  /\ pc = "planning" /\ card_replace_anchor.enable = 1 /\ Usable
  /\ LET new_rows == GetFrom(entries[hash(k)], k)
     IN /\ got' = [key |-> k, card |-> new_rows]
        /\ estimate' = [key |-> k, own |-> nrows,
                        rows |-> clamp_row_est(IF new_rows # Null THEN new_rows ELSE nrows)]
  /\ UNCHANGED <<hash_bytes, comment, card_replace_anchor, tableVars, i, pc, parses,
                 tainted, crashed>>

ReplaceCrashes ==
  /\ pc = "planning" /\ card_replace_anchor.enable = 1 /\ ~Usable
  /\ crashed' = TRUE
  /\ UNCHANGED <<hash_bytes, comment, card_replace_anchor, tableVars, i, pc, got, estimate,
                 parses, tainted>>

KeepOwn(k, nrows) ==
  /\ pc = "planning" /\ card_replace_anchor.enable # 1
  /\ estimate' = [key |-> k, own |-> nrows, rows |-> clamp_row_est(nrows)]
  /\ UNCHANGED <<hash_bytes, comment, card_replace_anchor, tableVars, i, pc, got,
                 parses, tainted, crashed>>

\* The planner hook takes the flag back; the table stays.
PlannerReturns ==
  /\ pc = "planning"
  /\ card_replace_anchor' = [card_replace_anchor EXCEPT !.enable = 0]
  /\ pc' = "idle"
  /\ UNCHANGED <<hash_bytes, comment, tableVars, i, got, estimate, parses, tainted, crashed>>

------------------------------------------------------------------------------
Init ==
  /\ hash_bytes \in [Keys -> Hashes]
  /\ comment = Null
  /\ card_replace_anchor = CardReplaceAnchor
  /\ table_size = 1 /\ entries = [b \in {0} |-> <<>>]
  /\ i = 0 /\ pc = "idle"
  /\ got = [key |-> Null, card |-> Null]
  /\ estimate = [key |-> Null, own |-> 0, rows |-> 0]
  /\ parses = 0 /\ tainted = FALSE /\ crashed = FALSE

Next ==
  /\ ~crashed
  /\ \/ \E jo \in Comments : anchor_handler(jo)
     \/ \E key \in Keys, c \in Cards : \E t \in Printed(c) : put(key, c, t)
     \/ PutCrashes \/ PutGarbage \/ Stored
     \/ \E k \in Keys, n \in OwnRows : Replace(k, n) \/ KeepOwn(k, n)
     \/ ReplaceCrashes \/ PlannerReturns

Spec == Init /\ [][Next]_vars

------------------------------------------------------------------------------
(* What a comment asks for, read from its JSON alone.                      *)

ArrayOf(jo, f) == IF f \in DOMAIN jo /\ typeof(jo[f]) = "ARRAY" THEN jo[f].arr ELSE <<>>
Texts(jo)  == ArrayOf(jo, "subquery")
Wanted(jo) == ArrayOf(jo, "card")

\* Pairs of texts and numbers, as in the example of parse_json.c.
Paired(jo) ==
  /\ Len(Texts(jo)) = Len(Wanted(jo))
  /\ \A p \in DOMAIN Texts(jo) : typeof(Texts(jo)[p]) = "STRING"
  /\ \A p \in DOMAIN Wanted(jo) : typeof(Wanted(jo)[p]) = "REAL"

\* The cardinality the comment has for k: that of the last pair.
Listed(jo, k) == \E p \in DOMAIN Texts(jo) : Texts(jo)[p].str = k
CardFor(jo, k) == LET p == CHOOSE p \in DOMAIN Texts(jo) :
                             /\ Texts(jo)[p].str = k
                             /\ \A o \in DOMAIN Texts(jo) : Texts(jo)[o].str = k => o <= p
                  IN Wanted(jo)[p].num

\* At least one pair, numbers that fit the buffer, a table_size that fits an
\* int, and no number for a text that is longer than the first one for it.
Earliest(jo, p) == \A o \in 1..(p - 1) : Texts(jo)[o].str # Texts(jo)[p].str
Shorter(c, d)   == \A t \in Printed(c), u \in Printed(d) : Size(t) <= Size(u)
Plain(jo) ==
  /\ Paired(jo) /\ Len(Wanted(jo)) # 0
  /\ Len(Wanted(jo)) * Len(Wanted(jo)) <= INT_MAX
  /\ \A p \in DOMAIN Wanted(jo) : \A t \in Printed(Wanted(jo)[p].num) : Size(t) <= CHAR_LEN_FOR_NUM
  /\ \A p, o \in DOMAIN Texts(jo) :
       p < o /\ Earliest(jo, p) /\ Texts(jo)[p].str = Texts(jo)[o].str =>
         Shorter(Wanted(jo)[o].num, Wanted(jo)[p].num)

------------------------------------------------------------------------------
(* Properties.                                                             *)

Entry == [key : Keys, value : Nat, room : Nat]

\* The type invariant: the struct, the table and the last estimate.
TypeOK ==
  /\ hash_bytes \in [Keys -> Hashes]
  /\ table_size \in Int /\ DOMAIN entries = 0..(table_size - 1)
  /\ \A b \in DOMAIN entries : entries[b] \in Seq(Entry)
  /\ i \in Nat /\ parses \in Nat /\ pc \in {"idle", "storing", "planning"}
  /\ got \in [key : Keys \cup {Null}, card : Nat \cup {Null}]
  /\ estimate \in [key : Keys \cup {Null}, own : Nat, rows : Nat]
  /\ tainted \in BOOLEAN /\ crashed \in BOOLEAN

\* A sub-query is filed once, in the bucket of its hash: put never adds a
\* second entry that get would not reach.
ChainsSound ==
  \A b \in DOMAIN entries : \A p \in DOMAIN entries[b] :
    /\ hash(entries[b][p].key) = b
    /\ \A o \in DOMAIN entries[b] : entries[b][o].key = entries[b][p].key => o = p

\* Through collisions, repetitions and the tables of earlier comments, the
\* table is a map.
Search(k) == IF Usable THEN GetFrom(entries[hash(k)], k) ELSE Null
Map == INSTANCE CardMap WITH Cards <- Nat, NoCard <- Null,
                             map <- [k \in Keys |-> Search(k)], answer <- got
IsMap == Map!Spec

\* The rows the planner goes on with are those this comment asks for, up to
\* the two roundings on the way, and its own estimate for what the comment
\* does not list: never those of an earlier comment or another sub-query.
Close(rows, c) == IF c <= 10000 THEN rows = 1 ELSE Abs(10000 * rows - c) <= 5005
ReplacedAsAsked ==
  [][estimate' # estimate /\ Paired(comment) =>
       LET e == estimate'
       IN IF card_replace_anchor.enable = 1 /\ Listed(comment, e.key)
          THEN Close(e.rows, CardFor(comment, e.key))
          ELSE e.rows = clamp_row_est(e.own)]_vars

\* A plain comment is stored and looked up without touching memory that is
\* not its own and without a division by zero: also when texts are repeated,
\* collide, or were in the table of an earlier comment.
PlainIsClean ==
  [][(tainted' /\ ~tainted) \/ (crashed' /\ ~crashed) => ~Plain(comment)]_vars

\* A comment of pairs is planned with: a sub-query it does not list is left
\* alone.
PairedSurvives == crashed => tainted \/ ~Paired(comment)
===============================================================================
