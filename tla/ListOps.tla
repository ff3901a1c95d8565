------------------------------- MODULE ListOps -------------------------------
(***************************************************************************)
(* A loop over a list that keeps what passes a test (foreach ... if (...)   *)
(* lappend), as a recursive function on the places of the list.            *)
(***************************************************************************)
EXTENDS Integers, Sequences, SequencesExt

\* The members of a list that are in a set, in their order.
Among(list, set) ==
  LET taken[n \in 0..Len(list)] ==
        IF n = 0 THEN <<>> ELSE IF list[n] \in set THEN Append(taken[n - 1], list[n]) ELSE taken[n - 1]
  IN taken[Len(list)]
==============================================================================
