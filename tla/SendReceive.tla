----------------------------- MODULE SendReceive -----------------------------
(***************************************************************************)
(* send_and_receive.c over utils/http.c: a backend sends its answers to    *)
(* the Python side, one blocking call after another, each over a TCP       *)
(* connection of its own, resending on the same connection when a wait     *)
(* times out.  The Python side and the network are the environment: slow   *)
(* to start, slow to answer, closing a connection or not, before or after  *)
(* answering.  Time is abstract: a wait may time out whenever there is     *)
(* nothing to read, however soon an answer comes after it.                 *)
(***************************************************************************)
EXTENDS Integers, Sequences

CONSTANTS
  MAX_SEND_TIMES, \* attempts to connect, and attempts to send
  MaxCalls,       \* bound on the calls of send_and_receive
  MaxSockets,     \* sockets the system lets the process have
  None            \* no status

ASSUME SendAssumption ==
  MAX_SEND_TIMES \in Nat \ {0} /\ MaxCalls \in Nat /\ MaxSockets \in Nat
ASSUME NoneAssumption == None \notin {200, 500}

Calls    == 1..MaxCalls
Statuses == {200, 500}  \* success, and any other

VARIABLES
  pc,         \* where send_and_receive is
  call,       \* the current call
  init_times, send_times,
  waits,      \* how many waits of the current call have timed out
  status,     \* status of the response in the receive buffer
  result,     \* how each call ended, by what it logs
  returned,   \* the value each call returned
  fds,        \* sockets the process holds
  conn,       \* the connection each call sends on
  processed,  \* how many copies of each call's data the Python side has read
  listening   \* is the Python side accepting connections?

client == <<pc, call, init_times, send_times, waits, status, result,
            returned, fds>>
vars   == <<client, conn, processed, listening>>

PCs     == {"idle", "init", "sleep", "send", "wait", "resend", "recv", "crashed"}
Results == {"none", "no_connection", "gave_up", "interrupted", "refused", "ok"}
NoConn  == [state |-> "none", copies |-> 0, answers |-> <<>>]

Current == conn[call]
Readable(k) == k.answers # <<>> \/ k.state # "open"

Init ==
  /\ pc = "idle" /\ call = 0 /\ init_times = 0 /\ send_times = 0 /\ waits = 0
  /\ status = None
  /\ result = [c \in Calls |-> "none"]
  /\ returned = [c \in Calls |-> 0]
  /\ fds = 0
  /\ conn = [c \in Calls |-> NoConn]
  /\ processed = [c \in Calls |-> 0]
  /\ listening \in BOOLEAN

------------------------------------------------------------------------------
(* The client.                                                             *)

\* The value tells a call that stopped trying from the others: it is 1 also
\* when select or the answer failed.  end_anchor does not look at it.
Value(r) == IF r \in {"no_connection", "gave_up"} THEN 0 ELSE 1

Return(r) == /\ result' = [result EXCEPT ![call] = r]
             /\ returned' = [returned EXCEPT ![call] = Value(r)]
             /\ pc' = "idle"

Begin ==
  /\ pc = "idle" /\ call < MaxCalls
  /\ call' = call + 1
  /\ pc' = "init" /\ init_times' = 1 /\ waits' = 0 /\ status' = None
  /\ UNCHANGED <<send_times, result, returned, fds, conn, processed, listening>>

\* Variant: a failed attempt is not counted.
NextInits_Kept(n) == n
NextInits(n) == n + 1

InitExhausted(n) == n > MAX_SEND_TIMES

\* init_http_conn fails: without a socket (the host is unknown, or socket has
\* none left), or with one that connect is refused on and that is not closed.
InitFails(s) ==
  /\ pc = "init"
  /\ fds + s <= MaxSockets
  /\ fds' = fds + s
  /\ init_times' = NextInits(init_times)
  /\ IF InitExhausted(NextInits(init_times))
     THEN Return("no_connection")
     ELSE pc' = "sleep" /\ UNCHANGED <<result, returned>>
  /\ UNCHANGED <<call, send_times, waits, status, conn, processed, listening>>

WakeUp ==
  /\ pc = "sleep" /\ pc' = "init"
  /\ UNCHANGED <<call, init_times, send_times, waits, status, result, returned, fds,
                 conn, processed, listening>>

Connect ==
  /\ pc = "init" /\ listening /\ fds < MaxSockets
  /\ fds' = fds + 1
  /\ conn' = [conn EXCEPT ![call].state = "open"]
  /\ pc' = "send"
  /\ UNCHANGED <<call, init_times, send_times, waits, status, result, returned,
                 processed, listening>>

\* Variant: a resend is counted down.
NextSends_Down(n) == n - 1
NextSends(n) == n + 1

\* send_data: the whole message, or too little of it to be of use; its
\* result is not looked at.
SendData ==
  /\ pc \in {"send", "resend"}
  /\ \/ Current.state = "open" /\ conn' = [conn EXCEPT ![call].copies = @ + 1]
     \/ UNCHANGED conn
  /\ send_times' = (IF pc = "send" THEN 1 ELSE NextSends(send_times))
  /\ pc' = "wait"
  /\ UNCHANGED <<call, init_times, waits, status, result, returned, fds, processed, listening>>

Exhausted(n) == n = MAX_SEND_TIMES

GiveUp ==
  /\ pc = "wait" /\ Exhausted(send_times)
  /\ Return("gave_up")
  /\ UNCHANGED <<call, init_times, send_times, waits, status, fds, conn, processed, listening>>

\* A signal interrupts select.
SelectFails ==
  /\ pc = "wait" /\ ~Exhausted(send_times)
  /\ Return("interrupted")
  /\ UNCHANGED <<call, init_times, send_times, waits, status, fds, conn, processed, listening>>

SelectTimesOut ==
  /\ pc = "wait" /\ ~Exhausted(send_times) /\ ~Readable(Current)
  /\ waits' = waits + 1
  /\ pc' = "resend"
  /\ UNCHANGED <<call, init_times, send_times, status, result, returned, fds, conn,
                 processed, listening>>

SelectReadable ==
  /\ pc = "wait" /\ ~Exhausted(send_times) /\ Readable(Current)
  /\ pc' = "recv"
  /\ UNCHANGED <<call, init_times, send_times, waits, status, result, returned, fds,
                 conn, processed, listening>>

\* http_tcpclient_recv with size 0 reads on until the peer closes; the status
\* looked at is that of the first response in the buffer.
Recv ==
  /\ pc = "recv" /\ Current.answers # <<>>
  /\ status' = (IF status = None THEN Head(Current.answers) ELSE status)
  /\ conn' = [conn EXCEPT ![call].answers = Tail(@)]
  /\ UNCHANGED <<pc, call, init_times, send_times, waits, result, returned, fds,
                 processed, listening>>

\* Variant: a response is taken for success unless it says otherwise.
ReadStatus_Lenient(s) == IF s = 500 THEN "refused" ELSE "ok"

\* recv_data: with nothing received, the status is read through NULL.
ReadStatus(s) == CASE s = None -> "crash" [] s = 200 -> "ok" [] OTHER -> "refused"

AllReceived(k) == k.answers = <<>> /\ k.state # "open"

RecvDone ==
  /\ pc = "recv" /\ AllReceived(Current)
  /\ IF ReadStatus(status) = "crash"
     THEN pc' = "crashed" /\ UNCHANGED <<result, returned>>
     ELSE Return(ReadStatus(status))
  /\ UNCHANGED <<call, init_times, send_times, waits, status, fds, conn, processed, listening>>

Client == \/ Begin \/ (\E s \in {0, 1} : InitFails(s)) \/ WakeUp \/ Connect
          \/ SendData \/ GiveUp \/ SelectFails \/ SelectTimesOut \/ SelectReadable
          \/ Recv \/ RecvDone

------------------------------------------------------------------------------
(* The Python side and the network.                                        *)

Listen == /\ listening' = ~listening
          /\ UNCHANGED <<client, conn, processed>>

\* A copy is read and answered, also when its sender waits no more.
Handle(c, s) ==
  /\ conn[c].state = "open" /\ conn[c].copies > 0
  /\ processed' = [processed EXCEPT ![c] = @ + 1]
  /\ conn' = [conn EXCEPT ![c].copies = @ - 1, ![c].answers = Append(@, s)]
  /\ UNCHANGED <<client, listening>>

\* The connection ends; if data is left unread, answers on the way are lost
\* with it.
CloseConn(c, keep) ==
  /\ conn[c].state = "open"
  /\ keep \/ conn[c].copies > 0
  /\ conn' = [conn EXCEPT ![c] = [state |-> "closed", copies |-> 0,
                                  answers |-> IF keep THEN @.answers ELSE <<>>]]
  /\ UNCHANGED <<client, processed, listening>>

Peer == \/ Listen
        \/ \E c \in Calls : \/ \E s \in Statuses : Handle(c, s)
                            \/ \E keep \in BOOLEAN : CloseConn(c, keep)

Next == Client \/ Peer
Spec == Init /\ [][Next]_vars

\* The backend does not stop in the middle of a call; of the Python side and
\* the network nothing is assumed.
FairSpec == Spec /\ WF_vars(Client)

------------------------------------------------------------------------------
(* Properties.                                                             *)

\* The type invariant: the call's locals, its results and its connections.
TypeOK ==
  /\ pc \in PCs
  /\ call \in 0..MaxCalls
  /\ init_times \in Nat /\ send_times \in Nat /\ waits \in Nat /\ fds \in Nat
  /\ status \in Statuses \cup {None}
  /\ result \in [Calls -> Results] /\ returned \in [Calls -> {0, 1}]
  /\ conn \in [Calls -> [state : {"none", "open", "closed"}, copies : Nat,
                         answers : Seq(Statuses)]]
  /\ processed \in [Calls -> Nat]
  /\ listening \in BOOLEAN

\* What send_and_receive promises, whatever the environment does.
Abstract == INSTANCE Delivery WITH
  MaxCopies <- MAX_SEND_TIMES,
  outcome   <- [c \in Calls |-> CASE result[c] = "none" -> "none"
                                  [] result[c] = "ok"   -> "ok"
                                  [] OTHER              -> "failed"],
  received  <- processed
Delivers == Abstract!Spec

\* No socket is ever given back, so the process may come to the limit.  A
\* call that finds none left stops trying and returns, and the statement goes
\* on without an answer.
GivesUpWithoutSocket ==
  \A c \in Calls : (call = c /\ pc = "init" /\ fds = MaxSockets) ~> (result[c] = "no_connection")

\* "Otherwise, we will report failure information and just return": every
\* call returns, whatever the Python side does.
CallReturns == \A c \in Calls : (call = c) ~> (result[c] # "none")
=============================================================================
