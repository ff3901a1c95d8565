----------------------------- MODULE MCCardTable -----------------------------
(***************************************************************************)
(* Comments to model-check CardTable with: pairs with and without          *)
(* repetitions, lists that do not match, items of the wrong type.          *)
(***************************************************************************)
EXTENDS CardTable

Str(k)  == [str |-> k]
Num(c)  == [num |-> c]
None    == [none |-> TRUE]
True    == [bool |-> TRUE]
Anchor(on, texts, cards) ==
  [enable |-> [bool |-> on], name |-> Str("CARD_REPLACE_ANCHOR"),
   subquery |-> [arr |-> texts], card |-> [arr |-> cards]]

\* Less than a thousandth, a tie, a number two roundings take up, and numbers of
\* different lengths.
Small == 4
Tie   == 25005
Long  == 34999
Wide  == 120000
Huge  == 12345678

SomeCards == {0, One, Small, Tie, Long, Wide, Huge}
TwoKeys == {"q1", "q2"}
Items  == {Str("q1"), Str("q2"), None}
Numbers == {Num(Small), Num(Long), Num(Wide)}
Lists(S, n) == UNION {[1..m -> S] : m \in 0..n}

AllComments ==
  {Anchor(TRUE, s, c) : s \in Lists(Items, 2), c \in Lists(Numbers, 2)}
    \cup {Anchor(on, <<Str("q1"), Str("q2"), Str("q1")>>, <<Num(Tie), c, d>>) :
            on \in BOOLEAN, c \in {Num(Huge), None, True}, d \in Numbers}
    \cup {Anchor(TRUE, <<Str("q1"), Str("q1"), Str("q1"), Str("q2")>>,
                  <<Num(Small), Num(Small), Num(Small), Num(Tie)>>)}
    \cup {[enable |-> Num(1), card |-> [arr |-> <<Num(Wide)>>]]}
FewHashes == {0, 4}
FewRows == {400, 7500}
===============================================================================
