-------------------------------- MODULE CardMap --------------------------------
(***************************************************************************)
(* What the table of replaced cardinalities promises: a map from sub-query *)
(* texts to cardinalities, emptied for every comment, filled with its      *)
(* pairs in order, and asked.                                              *)
(***************************************************************************)
CONSTANTS Keys,  \* sub-query texts
          Cards, \* cardinalities as they are stored
          NoCard \* none

VARIABLES map,   \* the cardinality of every sub-query
          answer \* the last question and its answer
vars == <<map, answer>>

Empty == [k \in Keys |-> NoCard]

Init == map = Empty /\ answer = [key |-> NoCard, card |-> NoCard]

Clear     == map' = Empty /\ UNCHANGED answer
Put(k)    == /\ map'[k] \in Cards
             /\ map' = [map EXCEPT ![k] = map'[k]]
             /\ UNCHANGED answer
Get(k)    == answer' = [key |-> k, card |-> map[k]] /\ UNCHANGED map

Next == \/ Clear
        \/ \E k \in Keys : Get(k) \/ Put(k)

Spec == Init /\ [][Next]_vars
================================================================================
