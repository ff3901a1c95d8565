------------------------------- MODULE Delivery -------------------------------
(***************************************************************************)
(* What sending one answer after another to the Python side promises: a    *)
(* call that claims success has been received at least once, no call is    *)
(* received more often than it may send, a call ends once, and the calls   *)
(* come one after another.  A copy may still be received after its call    *)
(* has given up.                                                           *)
(***************************************************************************)
EXTENDS Naturals

CONSTANTS MaxCalls, \* bound on the number of calls
          MaxCopies \* how often one call may send

Calls == 1..MaxCalls

VARIABLES call,     \* the current call, 0 before the first
          outcome,  \* "none" until a call ends, then "ok" or "failed"
          received  \* how many copies of each answer were received
vars == <<call, outcome, received>>

Init == /\ call = 0
        /\ outcome = [c \in Calls |-> "none"]
        /\ received = [c \in Calls |-> 0]

Begin == /\ call < MaxCalls
         /\ call = 0 \/ outcome[call] # "none"
         /\ call' = call + 1
         /\ UNCHANGED <<outcome, received>>

Receive(c) == /\ c <= call /\ received[c] < MaxCopies
              /\ received' = [received EXCEPT ![c] = @ + 1]
              /\ UNCHANGED <<call, outcome>>

End(c, o) == /\ c = call /\ outcome[c] = "none"
             /\ o = "ok" => received[c] > 0
             /\ outcome' = [outcome EXCEPT ![c] = o]
             /\ UNCHANGED <<call, received>>

Next == \/ Begin
        \/ \E c \in Calls : Receive(c) \/ \E o \in {"ok", "failed"} : End(c, o)

Spec == Init /\ [][Next]_vars
=============================================================================
