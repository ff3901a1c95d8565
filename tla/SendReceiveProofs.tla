-------------------------- MODULE SendReceiveProofs --------------------------
(***************************************************************************)
(* Theorems about SendReceive, for every limit on the attempts and every   *)
(* number of calls: type correctness, and that it implements Delivery.     *)
(***************************************************************************)
EXTENDS SendReceive, SequenceTheorems, TLAPS

Conns == [state : {"none", "open", "closed"}, copies : Nat, answers : Seq(Statuses)]

LEMMA TypeInit == Init => TypeOK
<1> SUFFICES ASSUME Init PROVE TypeOK
  OBVIOUS
<1>1. NoConn \in Conns
  BY DEF NoConn, Conns
<1>2. conn \in [Calls -> Conns]
  BY <1>1 DEF Init
<1>3. call \in 0..MaxCalls
  BY SendAssumption DEF Init
<1>4. QED
  BY <1>2, <1>3 DEF Init, TypeOK, PCs, Results, Conns

LEMMA TypeClient ==
  ASSUME TypeOK, call \in Calls \/ Begin, Client
  PROVE  TypeOK'
<1>0. conn \in [Calls -> Conns]
  BY DEF TypeOK, Conns
<1> DEFINE Returned == [Calls -> {0, 1}]
<1>b. \A r : Value(r) \in {0, 1}
  BY DEF Value
<1>a. ASSUME NEW r \in Results, Return(r)
      PROVE  pc' \in PCs /\ result' \in [Calls -> Results] /\ returned' \in Returned
  BY <1>a, <1>b DEF Return, TypeOK, PCs
<1>1. CASE Begin
  BY <1>1, SendAssumption DEF Begin, TypeOK, PCs
<1>2. ASSUME NEW s \in {0, 1}, InitFails(s) PROVE TypeOK'
  <2>1. pc' \in PCs /\ result' \in [Calls -> Results] /\ returned' \in Returned
    BY <1>2, <1>a DEF InitFails, TypeOK, PCs, Results
  <2>2. init_times' \in Nat /\ fds' \in Nat
    BY <1>2 DEF InitFails, NextInits, TypeOK
  <2>3. QED
    BY <1>2, <2>1, <2>2 DEF InitFails, TypeOK
<1>3. CASE WakeUp
  BY <1>3 DEF WakeUp, TypeOK, PCs
<1>4. CASE Connect
  <2>1. conn' \in [Calls -> Conns]
    BY <1>0, <1>4 DEF Connect, Conns
  <2>2. QED
    BY <1>4, <2>1 DEF Connect, TypeOK, PCs, Conns
<1>5. CASE SendData
  <2>1. conn' \in [Calls -> Conns]
    <3>1. [conn EXCEPT ![call].copies = @ + 1] \in [Calls -> Conns]
      <4>1. \A k \in Conns : [k EXCEPT !.copies = @ + 1] \in Conns
        BY DEF Conns
      <4>2. QED
        BY <1>0, <4>1
    <3>2. conn' \in {conn, [conn EXCEPT ![call].copies = @ + 1]}
      BY <1>5 DEF SendData
    <3>3. QED
      BY <1>0, <3>1, <3>2
  <2>2. send_times' \in Nat
    BY <1>5 DEF SendData, NextSends, TypeOK
  <2>3. QED
    BY <1>5, <2>1, <2>2 DEF SendData, TypeOK, PCs, Conns
<1>6. CASE GiveUp
  BY <1>6, <1>a DEF GiveUp, TypeOK, Results
<1>7. CASE SelectFails
  BY <1>7, <1>a DEF SelectFails, TypeOK, Results
<1>8. CASE SelectTimesOut
  BY <1>8 DEF SelectTimesOut, TypeOK, PCs
<1>9. CASE SelectReadable
  BY <1>9 DEF SelectReadable, TypeOK, PCs
<1>10. CASE Recv
  <2>1. CASE call \in Calls
    <3>1. Current \in Conns /\ Current.answers \in Seq(Statuses) /\ Current.answers # <<>>
      BY <1>0, <1>10, <2>1 DEF Current, Conns, Recv
    <3>2. Head(Current.answers) \in Statuses /\ Tail(Current.answers) \in Seq(Statuses)
      BY <3>1
    <3>3. conn' \in [Calls -> Conns]
      BY <1>0, <1>10, <2>1, <3>2 DEF Recv, Current, Conns
    <3>4. status' \in Statuses \cup {None}
      BY <1>10, <3>2 DEF Recv, TypeOK
    <3>5. QED
      BY <1>10, <3>3, <3>4 DEF Recv, TypeOK, Conns
  <2>2. QED
    BY <2>1, <1>1
<1>11. CASE RecvDone
  <2>1. ReadStatus(status) \in Results \cup {"crash"}
    BY DEF ReadStatus, Results
  <2>2. pc' \in PCs /\ result' \in [Calls -> Results] /\ returned' \in Returned
    BY <1>11, <1>a, <2>1 DEF RecvDone, TypeOK, PCs
  <2>3. QED
    BY <1>11, <2>2 DEF RecvDone, TypeOK
<1>12. QED
  BY <1>1, <1>2, <1>3, <1>4, <1>5, <1>6, <1>7, <1>8, <1>9, <1>10, <1>11 DEF Client

LEMMA TypePeer ==
  ASSUME TypeOK, Peer
  PROVE  TypeOK'
<1>0. conn \in [Calls -> Conns]
  BY DEF TypeOK, Conns
<1>1. CASE Listen
  BY <1>1 DEF Listen, client, TypeOK
<1>2. ASSUME NEW c \in Calls, NEW s \in Statuses, Handle(c, s) PROVE TypeOK'
  <2>1. Append(conn[c].answers, s) \in Seq(Statuses) /\ conn[c].copies - 1 \in Nat
    BY <1>0, <1>2 DEF Handle, Conns
  <2>2. conn' \in [Calls -> Conns]
    BY <1>0, <1>2, <2>1 DEF Handle, Conns
  <2>3. QED
    BY <1>2, <2>2 DEF Handle, client, TypeOK, Conns
<1>3. ASSUME NEW c \in Calls, NEW keep \in BOOLEAN, CloseConn(c, keep) PROVE TypeOK'
  <2>1. (IF keep THEN conn[c].answers ELSE <<>>) \in Seq(Statuses)
    BY <1>0 DEF Conns
  <2>2. conn' \in [Calls -> Conns]
    BY <1>0, <1>3, <2>1 DEF CloseConn, Conns
  <2>3. QED
    BY <1>3, <2>2 DEF CloseConn, client, TypeOK, Conns
<1>4. QED
  BY <1>1, <1>2, <1>3 DEF Peer

------------------------------------------------------------------------------
(* The bookkeeping of a call.                                              *)

\* A call in progress is numbered and has no result; a call that is over has
\* one; calls to come have neither connection nor copies.
CallInv ==
  /\ pc # "idle" => call \in Calls /\ result[call] = "none"
  /\ pc = "idle" /\ call # 0 => result[call] # "none"
  /\ \A c \in Calls : c > call => conn[c] = NoConn /\ processed[c] = 0 /\ result[c] = "none"

\* No more copies are on the way or read than were sent, and no more are
\* sent than allowed.
CopiesInv ==
  /\ \A c \in Calls : conn[c].copies + processed[c] <= MAX_SEND_TIMES
  /\ pc \in {"init", "sleep", "send"} => conn[call].copies + processed[call] = 0
  /\ pc \in {"wait", "resend", "recv"} =>
       /\ conn[call].copies + processed[call] <= send_times
       /\ send_times <= MAX_SEND_TIMES
  /\ pc \in {"resend", "recv"} => send_times < MAX_SEND_TIMES

\* A response in the buffer, or on the way, answers a copy that was read.
AnswersInv ==
  /\ \A c \in Calls : conn[c].answers # <<>> => processed[c] > 0
  /\ pc # "idle" /\ status # None => processed[call] > 0

DeliveryInv == TypeOK /\ CallInv /\ CopiesInv /\ AnswersInv

LEMMA DeliveryInit == Init => DeliveryInv
<1> SUFFICES ASSUME Init PROVE DeliveryInv
  OBVIOUS
<1>1. CallInv
  BY DEF Init, CallInv
<1>2. CopiesInv
  BY SendAssumption DEF Init, CopiesInv, NoConn
<1>3. AnswersInv
  BY DEF Init, AnswersInv, NoConn
<1>4. QED
  BY <1>1, <1>2, <1>3, TypeInit DEF DeliveryInv

\* What every step of a call may use.
LEMMA Shape ==
  ASSUME DeliveryInv
  PROVE  /\ conn \in [Calls -> Conns] /\ processed \in [Calls -> Nat]
         /\ result \in [Calls -> Results] /\ call \in Int
         /\ send_times \in Nat /\ MAX_SEND_TIMES \in Nat \ {0}
         /\ \A c \in Calls : c \in Int
         /\ \A c \in Calls : conn[c].copies \in Nat /\ processed[c] \in Nat
BY SendAssumption DEF DeliveryInv, TypeOK, Conns, Calls

\* A step that touches neither connections nor copies, within a call.
LEMMA QuietKeeps ==
  ASSUME DeliveryInv, TypeOK',
         UNCHANGED <<call, send_times, status, conn, processed>>,
         pc # "idle",
         \/ /\ pc' = "idle" /\ \E r \in Results \ {"none"} : result' = [result EXCEPT ![call] = r]
         \/ /\ pc' # "idle" /\ result' = result
            /\ pc' \in {"init", "sleep", "send"} => pc \in {"init", "sleep"}
            /\ pc' \in {"wait", "resend", "recv"} => pc = "wait" /\ send_times # MAX_SEND_TIMES
  PROVE  DeliveryInv'
<1>1. CallInv'
  BY Shape DEF DeliveryInv, CallInv
<1>2. CopiesInv'
  BY Shape DEF DeliveryInv, CopiesInv
<1>3. AnswersInv'
  BY Shape DEF DeliveryInv, AnswersInv
<1>4. QED
  BY <1>1, <1>2, <1>3 DEF DeliveryInv

LEMMA QuietSteps ==
  ASSUME DeliveryInv, TypeOK',
         \/ (\E s \in {0, 1} : InitFails(s)) \/ WakeUp \/ GiveUp \/ SelectFails
         \/ SelectTimesOut \/ SelectReadable \/ RecvDone
  PROVE  DeliveryInv'
<1>1. CASE \E s \in {0, 1} : InitFails(s)
  BY <1>1, QuietKeeps DEF InitFails, Return, Results
<1>2. CASE WakeUp
  BY <1>2, QuietKeeps DEF WakeUp
<1>3. CASE GiveUp
  BY <1>3, QuietKeeps DEF GiveUp, Return, Results
<1>4. CASE SelectFails
  BY <1>4, QuietKeeps DEF SelectFails, Return, Results
<1>5. CASE SelectTimesOut
  BY <1>5, QuietKeeps DEF SelectTimesOut, Exhausted
<1>6. CASE SelectReadable
  BY <1>6, QuietKeeps DEF SelectReadable, Exhausted
<1>7. CASE RecvDone
  <2>1. ReadStatus(status) # "crash" => ReadStatus(status) \in Results \ {"none"}
    BY DEF ReadStatus, Results
  <2>2. QED
    BY <1>7, <2>1, QuietKeeps DEF RecvDone, Return
<1>8. QED
  BY <1>1, <1>2, <1>3, <1>4, <1>5, <1>6, <1>7

LEMMA BeginKeeps ==
  ASSUME DeliveryInv, TypeOK', Begin
  PROVE  DeliveryInv'
<1>1. call + 1 \in Calls /\ call' = call + 1 /\ pc' = "init" /\ pc = "idle" /\ status' = None
      /\ UNCHANGED <<send_times, result, conn, processed>>
  BY SendAssumption DEF Begin, Calls, DeliveryInv, TypeOK
<1>2. conn[call + 1] = NoConn /\ processed[call + 1] = 0 /\ result[call + 1] = "none"
  BY <1>1, Shape DEF DeliveryInv, CallInv
<1>3. CallInv'
  BY <1>1, <1>2, Shape DEF DeliveryInv, CallInv
<1>4. CopiesInv'
  BY <1>1, <1>2, Shape DEF DeliveryInv, CopiesInv, NoConn
<1>5. AnswersInv'
  BY <1>1, Shape DEF DeliveryInv, AnswersInv
<1>6. QED
  BY <1>3, <1>4, <1>5 DEF DeliveryInv

LEMMA ConnectKeeps ==
  ASSUME DeliveryInv, TypeOK', Connect
  PROVE  DeliveryInv'
<1>0. call \in Calls /\ pc = "init" /\ pc' = "send"
      /\ UNCHANGED <<call, send_times, status, result, processed>>
  BY DEF Connect, DeliveryInv, CallInv
<1>1. /\ \A c \in Calls : /\ conn'[c].copies = conn[c].copies
                          /\ conn'[c].answers = conn[c].answers
      /\ \A c \in Calls : c # call => conn'[c] = conn[c]
  BY Shape DEF Connect, Conns
<1>2. CallInv'
  BY <1>0, <1>1, Shape DEF DeliveryInv, CallInv
<1>3. CopiesInv'
  BY <1>0, <1>1, Shape DEF DeliveryInv, CopiesInv
<1>4. AnswersInv'
  BY <1>0, <1>1, Shape DEF DeliveryInv, AnswersInv
<1>5. QED
  BY <1>2, <1>3, <1>4 DEF DeliveryInv

LEMMA SendKeeps ==
  ASSUME DeliveryInv, TypeOK', SendData
  PROVE  DeliveryInv'
<1>0. call \in Calls /\ pc \in {"send", "resend"} /\ pc' = "wait"
      /\ UNCHANGED <<call, status, result, processed>>
  BY DEF SendData, DeliveryInv, CallInv
<1>1. /\ conn'[call].copies \in {conn[call].copies, conn[call].copies + 1}
      /\ \A c \in Calls : conn'[c].answers = conn[c].answers
      /\ \A c \in Calls : c # call => conn'[c] = conn[c]
  <2>1. conn' \in {conn, [conn EXCEPT ![call].copies = @ + 1]}
    BY DEF SendData
  <2>2. QED
    BY <1>0, <2>1, Shape DEF Conns
<1>2. /\ pc = "send" => send_times' = 1 /\ conn[call].copies + processed[call] = 0
      /\ pc = "resend" => /\ send_times' = send_times + 1 /\ send_times < MAX_SEND_TIMES
                          /\ conn[call].copies + processed[call] <= send_times
  BY <1>0 DEF SendData, NextSends, DeliveryInv, CopiesInv
<1>3. conn'[call].copies + processed'[call] <= send_times' /\ send_times' <= MAX_SEND_TIMES
  BY <1>0, <1>1, <1>2, Shape
<1>4. CallInv'
  BY <1>0, <1>1, Shape DEF DeliveryInv, CallInv
<1>5. \A c \in Calls : conn'[c].copies + processed'[c] <= MAX_SEND_TIMES
  <2>1. \A c \in Calls : c # call => conn'[c].copies + processed'[c] <= MAX_SEND_TIMES
    BY <1>0, <1>1 DEF DeliveryInv, CopiesInv
  <2>2. conn'[call].copies + processed'[call] <= MAX_SEND_TIMES
    BY <1>0, <1>1, <1>2, <1>3, Shape
  <2>3. QED
    BY <2>1, <2>2
<1>6. CopiesInv'
  BY <1>0, <1>3, <1>5 DEF CopiesInv
<1>7. AnswersInv'
  BY <1>0, <1>1, Shape DEF DeliveryInv, AnswersInv
<1>8. QED
  BY <1>4, <1>6, <1>7 DEF DeliveryInv


LEMMA RecvKeeps ==
  ASSUME DeliveryInv, TypeOK', Recv
  PROVE  DeliveryInv'
<1>0. call \in Calls /\ pc = "recv" /\ pc' = "recv" /\ conn[call].answers # <<>>
      /\ UNCHANGED <<call, send_times, result, processed>>
  BY DEF Recv, Current, DeliveryInv, CallInv
<1>1. /\ \A c \in Calls : conn'[c].copies = conn[c].copies
      /\ \A c \in Calls : c # call => conn'[c] = conn[c]
  BY <1>0, Shape DEF Recv, Conns
<1>2. processed[call] > 0
  BY <1>0 DEF DeliveryInv, AnswersInv
<1>3. CallInv'
  BY <1>0, <1>1, Shape DEF DeliveryInv, CallInv
<1>4. CopiesInv'
  BY <1>0, <1>1, Shape DEF DeliveryInv, CopiesInv
<1>5. AnswersInv'
  BY <1>0, <1>1, <1>2 DEF DeliveryInv, AnswersInv
<1>6. QED
  BY <1>3, <1>4, <1>5 DEF DeliveryInv

LEMMA PeerKeeps ==
  ASSUME DeliveryInv, TypeOK', Peer
  PROVE  DeliveryInv'
<1>0. UNCHANGED <<pc, call, send_times, status, result>>
  BY DEF Peer, Listen, Handle, CloseConn, client
<1>1. CASE UNCHANGED <<conn, processed>>
  BY <1>0, <1>1 DEF DeliveryInv, CallInv, CopiesInv, AnswersInv
<1>2. ASSUME NEW c \in Calls, NEW s \in Statuses, Handle(c, s) PROVE DeliveryInv'
  <2>1. c <= call
    BY <1>2, Shape DEF DeliveryInv, CallInv, Handle, NoConn
  <2>2. /\ conn'[c].copies + processed'[c] = conn[c].copies + processed[c]
        /\ processed'[c] > 0
        /\ \A d \in Calls : d # c => conn'[d] = conn[d] /\ processed'[d] = processed[d]
    <3>1. conn[c] \in Conns /\ processed[c] \in Nat
      BY Shape
    <3>2. conn'[c].copies = conn[c].copies - 1
      BY <1>2, Shape, <3>1 DEF Handle, Conns
    <3>3. processed'[c] = processed[c] + 1
      BY <1>2, Shape DEF Handle
    <3>4. \A d \in Calls : d # c => conn'[d] = conn[d] /\ processed'[d] = processed[d]
      BY <1>2, Shape DEF Handle
    <3>5. conn[c].copies \in Nat
      BY <3>1 DEF Conns
    <3>6. QED
      BY <3>1, <3>2, <3>3, <3>4, <3>5
  <2>3. CallInv'
    BY <1>0, <2>1, <2>2, Shape DEF DeliveryInv, CallInv
  <2>4. CopiesInv'
    BY <1>0, <2>2, Shape DEF DeliveryInv, CopiesInv, CallInv
  <2>5. AnswersInv'
    BY <1>0, <2>2, Shape DEF DeliveryInv, AnswersInv, CallInv
  <2>6. QED
    BY <2>3, <2>4, <2>5 DEF DeliveryInv
<1>3. ASSUME NEW c \in Calls, NEW keep \in BOOLEAN, CloseConn(c, keep) PROVE DeliveryInv'
  <2>1. c <= call
    <3>1. conn[c] # NoConn
      BY <1>3 DEF CloseConn, NoConn
    <3>2. QED
      BY <3>1, Shape DEF DeliveryInv, CallInv
  <2>2. /\ conn'[c].copies = 0 /\ processed' = processed
        /\ conn'[c].answers # <<>> => conn[c].answers # <<>>
        /\ \A d \in Calls : d # c => conn'[d] = conn[d]
    BY <1>3, Shape DEF CloseConn, Conns
  <2>3. CallInv'
    BY <1>0, <2>1, <2>2, Shape DEF DeliveryInv, CallInv
  <2>4. CopiesInv'
    <3>1. ASSUME NEW d \in Calls
          PROVE  conn'[d].copies + processed'[d] <= conn[d].copies + processed[d]
      <4>1. conn[d].copies \in Nat /\ processed[d] \in Nat /\ processed'[d] = processed[d]
        BY <2>2, Shape
      <4>2. conn'[d].copies = 0 \/ conn'[d].copies = conn[d].copies
        BY <2>2
      <4>3. QED
        BY <4>1, <4>2
    <3>2. \A d \in Calls : conn[d].copies + processed[d] \in Nat
                            /\ conn'[d].copies + processed'[d] \in Nat
      BY <2>2, Shape
    <3>3. \A d \in Calls : conn'[d].copies + processed'[d] <= MAX_SEND_TIMES
      BY <3>1, <3>2, Shape DEF DeliveryInv, CopiesInv
    <3>4. pc # "idle" => call \in Calls
      BY DEF DeliveryInv, CallInv
    <3>5. pc \in {"init", "sleep", "send"} => conn'[call].copies + processed'[call] = 0
      BY <3>1, <3>2, <3>4 DEF DeliveryInv, CopiesInv
    <3>6. pc \in {"wait", "resend", "recv"} => conn'[call].copies + processed'[call] <= send_times
      BY <3>1, <3>2, <3>4, Shape DEF DeliveryInv, CopiesInv
    <3>7. QED
      BY <1>0, <3>3, <3>5, <3>6 DEF DeliveryInv, CopiesInv
  <2>5. AnswersInv'
    BY <1>0, <2>2, Shape DEF DeliveryInv, AnswersInv
  <2>6. QED
    BY <2>3, <2>4, <2>5 DEF DeliveryInv
<1>4. QED
  BY <1>1, <1>2, <1>3 DEF Peer, Listen

LEMMA DeliveryNext == DeliveryInv /\ [Next]_vars => DeliveryInv'
<1> SUFFICES ASSUME DeliveryInv, [Next]_vars PROVE DeliveryInv'
  OBVIOUS
<1>1. CASE UNCHANGED vars
  BY <1>1 DEF vars, client, DeliveryInv, TypeOK, CallInv, CopiesInv, AnswersInv
<1>2. CASE Client
  <2>1. call \in Calls \/ Begin
    BY <1>2 DEF Client, InitFails, WakeUp, Connect, SendData, GiveUp, SelectFails,
       SelectTimesOut, SelectReadable, Recv, RecvDone, DeliveryInv, CallInv
  <2>2. TypeOK'
    BY <1>2, <2>1, TypeClient DEF DeliveryInv
  <2>3. QED
    BY <1>2, <2>2, QuietSteps, BeginKeeps, ConnectKeeps, SendKeeps, RecvKeeps DEF Client
<1>3. CASE Peer
  BY <1>3, TypePeer, PeerKeeps DEF DeliveryInv
<1>4. QED
  BY <1>1, <1>2, <1>3 DEF Next

\* Type correctness: what the locals of a call, its results and its
\* connections hold.
THEOREM TypeCorrect == Spec => []TypeOK
<1>1. DeliveryInv => TypeOK
  BY DEF DeliveryInv
<1>2. QED
  BY <1>1, DeliveryInit, DeliveryNext, PTL DEF Spec

------------------------------------------------------------------------------
(* Refinement.                                                             *)

Outcome(r) == CASE r = "none" -> "none" [] r = "ok" -> "ok" [] OTHER -> "failed"

LEMMA InitRefines == Init => Abstract!Init
BY DEF Init, Abstract!Init, Abstract!Calls, Calls

\* The end of a call: success needs a copy that was read.
LEMMA EndRefines ==
  ASSUME DeliveryInv, NEW r \in Results \ {"none"}, pc # "idle", Return(r),
         r = "ok" => processed[call] > 0,
         UNCHANGED <<call, processed>>
  PROVE  Abstract!Next
<1>1. call \in Calls /\ result[call] = "none"
  BY DEF DeliveryInv, CallInv
<1>2. result' = [result EXCEPT ![call] = r] /\ result \in [Calls -> Results]
  BY Shape DEF Return
<1>3. Outcome(r) \in {"ok", "failed"} /\ (Outcome(r) = "ok" => r = "ok")
  BY DEF Outcome, Results
<1>4. Abstract!End(call, Outcome(r))
  BY <1>1, <1>2, <1>3, Shape DEF Abstract!End, Abstract!Calls, Calls, Outcome
<1>5. QED
  BY <1>1, <1>3, <1>4 DEF Abstract!Next, Abstract!Calls, Calls

LEMMA StepRefines ==
  ASSUME DeliveryInv, [Next]_vars
  PROVE  [Abstract!Next]_Abstract!vars
<1>1. CASE UNCHANGED <<call, result, processed>>
  BY <1>1 DEF Abstract!vars, Abstract!Calls, Calls
<1>2. CASE Begin
  <2>1. Abstract!Begin
    BY <1>2, Shape DEF Begin, Abstract!Begin, Abstract!Calls, Calls, DeliveryInv, CallInv, TypeOK
  <2>2. QED
    BY <2>1 DEF Abstract!Next
<1>3. ASSUME NEW c \in Calls, NEW s \in Statuses, Handle(c, s) PROVE Abstract!Next
  <2>1. c <= call
    <3>1. conn[c] # NoConn
      BY <1>3 DEF Handle, NoConn
    <3>2. QED
      BY <3>1, Shape DEF DeliveryInv, CallInv
  <2>a. processed[c] < MAX_SEND_TIMES
    <3>1. conn[c].copies \in Nat /\ conn[c].copies > 0 /\ processed[c] \in Nat
      BY <1>3, Shape DEF Handle
    <3>2. conn[c].copies + processed[c] <= MAX_SEND_TIMES
      BY DEF DeliveryInv, CopiesInv
    <3>3. QED
      BY <3>1, <3>2, Shape
  <2>2. Abstract!Receive(c)
    BY <1>3, <2>1, <2>a DEF Handle, client, Abstract!Receive, Abstract!Calls, Calls
  <2>3. QED
    BY <2>2 DEF Abstract!Next, Abstract!Calls, Calls
<1>4. CASE \/ (\E s \in {0, 1} : InitFails(s) /\ InitExhausted(NextInits(init_times))) \/ GiveUp \/ SelectFails
  BY <1>4, EndRefines DEF InitFails, GiveUp, SelectFails, Results
<1>5. CASE RecvDone /\ ReadStatus(status) # "crash"
  <2>1. ReadStatus(status) \in Results \ {"none"}
    BY <1>5 DEF ReadStatus, Results
  <2>2. ReadStatus(status) = "ok" => processed[call] > 0
    BY <1>5, NoneAssumption DEF ReadStatus, RecvDone, DeliveryInv, AnswersInv
  <2>3. QED
    BY <1>5, <2>1, <2>2, EndRefines DEF RecvDone
<1>6. QED
  BY <1>1, <1>2, <1>3, <1>4, <1>5
  DEF Next, Client, Peer, InitFails, WakeUp, Connect, SendData, SelectTimesOut,
      SelectReadable, Recv, RecvDone, Listen, CloseConn, client, vars

\* send_and_receive implements Delivery: success means that the Python side
\* has read the data, and no call has its data read more than MAX_SEND_TIMES
\* times, whatever is lost, late, refused or interrupted.
THEOREM Implements == Spec => Delivers
<1>1. DeliveryInv /\ [Next]_vars => [Abstract!Next]_Abstract!vars
  BY StepRefines
<1>2. QED
  BY <1>1, InitRefines, DeliveryInit, DeliveryNext, PTL DEF Spec, Delivers, Abstract!Spec

=============================================================================
