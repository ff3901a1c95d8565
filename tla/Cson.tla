--------------------------------- MODULE Cson ---------------------------------
(***************************************************************************)
(* utils/cson.c over utils/cjson_impl.c and cJSON: reading a JSON object   *)
(* into a C struct by a reflection table.  A JSON value is a record with   *)
(* one field, which says its type; a struct is a record; an array pointer  *)
(* is NULL or the memory it points to: room for "room" items of which the  *)
(* first Len(items) are set and the others zero.  The items of a           *)
(* reflection table name different fields and may all be missing, so they  *)
(* are read in any order and an error stops none of the others.            *)
(***************************************************************************)
EXTENDS Integers, Sequences, FiniteSets

CONSTANT Null \* the NULL pointer
One == 10000

typeof(j) == CASE "str"  \in DOMAIN j -> "STRING"
               [] "num"  \in DOMAIN j -> "REAL"
               [] "bool" \in DOMAIN j -> "BOOL"
               [] "arr"  \in DOMAIN j -> "ARRAY"
               [] OTHER               -> "NULL"

\* The items of an array are not checked for their type: only a string that
\* is none fails.
ItemFails(of, j) == of = "STRING" /\ typeof(j) # "STRING"

\* What is no number is read through cJSON's valueint: 1 for true, else 0.  Numbers
\* are counted in parts of One.
parseJsonReal(j) == CASE typeof(j) = "REAL" -> j.num
                      [] typeof(j) = "BOOL" /\ j.bool -> One
                      [] OTHER -> 0

ItemValue(of, j) == IF of = "STRING" THEN j.str ELSE parseJsonReal(j)

\* parseJsonArray: the items that do not fail, moved up.
Succeeds(of, arr) == {k \in DOMAIN arr : ~ItemFails(of, arr[k])}
successCount(of, arr) == Cardinality(Succeeds(of, arr))
\* The item stored at n: the one before which n - 1 others succeed.
Source(of, arr, n) == CHOOSE k \in Succeeds(of, arr) :
                        Cardinality({o \in Succeeds(of, arr) : o <= k}) = n
parseJsonArray(of, arr) ==
  IF Succeeds(of, arr) = {} THEN Null
  ELSE [room  |-> Len(arr),
        items |-> [n \in 1..successCount(of, arr) |-> ItemValue(of, arr[Source(of, arr, n)])]]

\* Is the field there, and of the type the table says?
Decodes(jo, item) == item.field \in DOMAIN jo /\ typeof(jo[item.field]) = item.type

\* The field of an item: its value or its default.
FieldOf(jo, item) ==
  LET j == jo[item.field]
  IN CASE item.type = "BOOL"   -> IF Decodes(jo, item) /\ j.bool THEN 1 ELSE 0
       [] item.type = "STRING" -> IF Decodes(jo, item) THEN j.str ELSE Null
       [] item.type = "ARRAY"  -> IF Decodes(jo, item) THEN parseJsonArray(item.of, j.arr)
                                                       ELSE Null

\* The field that holds the size of an array; it is decoded with the array.
CountOf(jo, item, old) == IF Decodes(jo, item) THEN successCount(item.of, jo[item.field].arr)
                                               ELSE old

csonJsonObj2Struct(jo, out, tbl) ==
  [f \in DOMAIN out |->
     IF \E item \in tbl : item.field = f
     THEN FieldOf(jo, CHOOSE item \in tbl : item.field = f)
     ELSE CountOf(jo, CHOOSE item \in tbl : item.count = f, out[f])]
===============================================================================
