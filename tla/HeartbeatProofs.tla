--------------------------- MODULE HeartbeatProofs ---------------------------
(***************************************************************************)
(* Theorems about Heartbeat, for all intervals S < R, any bound on how     *)
(* long handlers wait, and any number of calls of Start.                   *)
(***************************************************************************)
EXTENDS Heartbeat, TLAPS

\* One send timer keeps the other from expiring: while it waits, the receive
\* timer is always R - S seconds behind it, and while its handler is queued the
\* receive timer can only lose what the handler is late.
Margin ==
  status = "running" /\ starts > 0 =>
    /\ sendLeft > 0 => recvLeft >= (R - S) + sendLeft /\ sincePing + sendLeft = S
    /\ sendLeft = 0 => /\ sendDue > 0
                       /\ recvLeft + delay >= R - S
                       /\ sincePing <= S + delay

\* Nothing is armed or queued before Start, and nothing of the channel waits
\* once it is destroyed.
Idle ==
  starts = 0 => /\ sendLeft = 0 /\ sendDue = 0 /\ sendAborted = 0
                /\ recvLeft = 0 /\ recvDue = 0 /\ sincePing = 0

\* With a single Start there is a single chain of PINGs: the timer, or its
\* handler, and nothing to abort.
OneChain ==
  status \in {"running", "closed"} /\ starts <= 1 =>
    /\ sendAborted = 0
    /\ sendDue <= 1
    /\ sendLeft > 0 => sendDue = 0

IInv == TypeOK /\ Margin /\ Idle /\ OneChain /\ TimeoutOnlyOnStall

-----------------------------------------------------------------------------

LEMMA InitIInv == Init => IInv
  BY ConstantsAssumption DEF Init, IInv, TypeOK, Margin, Idle, OneChain, TimeoutOnlyOnStall

LEMMA NextIInv == IInv /\ [Next]_vars => IInv'
<1> SUFFICES ASSUME IInv, [Next]_vars PROVE IInv'
  OBVIOUS
<1> USE ConstantsAssumption DEF IInv, TypeOK, Margin, Idle, OneChain, TimeoutOnlyOnStall
<1>1. CASE Start
  BY <1>1 DEF Start, StartSendTimer, StartReceiveTimer
<1>2. CASE SendHandler
  <2>1. /\ status = "running" /\ sendDue > 0 /\ sendDue' = sendDue - 1 /\ sincePing' = 0
        /\ sendAborted' = IF sendLeft > 0 THEN sendAborted + 1 ELSE sendAborted
        /\ sendLeft' = S /\ recvLeft' = R
        /\ UNCHANGED <<recvDue, starts, peer, status>>
    BY <1>2 DEF SendHandler, StartSendTimer, StartReceiveTimer
  <2>2. delay' = IF Busy' THEN delay ELSE 0
    BY <1>2 DEF SendHandler, Dequeued
  <2>3. TypeOK'
    BY <2>1, <2>2
  <2>4. Margin'
    BY <2>1
  <2>5. Idle' /\ OneChain'
    BY <2>1
  <2>6. TimeoutOnlyOnStall'
    BY <2>1, <2>2 DEF Busy
  <2> QED BY <2>3, <2>4, <2>5, <2>6
<1>3. CASE SendAbortedHandler
  <2>1. /\ sendAborted > 0 /\ sendAborted' = sendAborted - 1 /\ status' = "halted"
        /\ UNCHANGED <<sendLeft, sendDue, recvLeft, recvDue, sincePing, starts, peer>>
        /\ delay' = IF Busy' THEN delay ELSE 0
    BY <1>3 DEF SendAbortedHandler, Dequeued
  <2> QED BY <2>1 DEF Busy
<1>4. CASE ReceiveHandler
  <2>1. /\ status = "running" /\ recvDue > 0 /\ recvDue' = recvDue - 1
        /\ status' \in {"closed", "halted"}
        /\ UNCHANGED <<sendLeft, sendDue, sendAborted, recvLeft, sincePing, starts, peer>>
        /\ delay' = IF Busy' THEN delay ELSE 0
    BY <1>4 DEF ReceiveHandler, Dequeued
  <2> QED BY <2>1 DEF Busy
<1>5. CASE DanglingHandler
  BY <1>5 DEF DanglingHandler
<1>6. ASSUME NEW type \in MessageTypes, OnMessage(type) PROVE IInv'
  BY <1>6 DEF OnMessage, StartReceiveTimer, queue
<1>7. CASE Destroy
  BY <1>7 DEF Destroy
<1>8. CASE PeerStops
  BY <1>8 DEF PeerStops, queue
<1>9. CASE Tick
  <2>1. /\ status = "running" /\ starts > 0
        /\ sendDue' = IF sendLeft = 1 THEN sendDue + 1 ELSE sendDue
        /\ sendLeft' = IF sendLeft > 0 THEN sendLeft - 1 ELSE 0
        /\ recvDue' = IF recvLeft = 1 THEN recvDue + 1 ELSE recvDue
        /\ recvLeft' = IF recvLeft > 0 THEN recvLeft - 1 ELSE 0
        /\ sincePing' = sincePing + 1
        /\ UNCHANGED <<sendAborted, starts, peer, status>>
    BY <1>9 DEF Tick
  <2>2. Busy => delay < MaxDelay /\ delay' = delay + 1
    BY <1>9 DEF Tick
  <2>3. ~Busy => delay' = 0
    BY <1>9 DEF Tick
  <2>4. sendDue > 0 \/ recvDue > 0 => Busy
    BY DEF Busy
  <2>5. TypeOK'
    BY <2>1, <2>2, <2>3
  <2>6. CASE sendLeft > 0
    <3>1. recvLeft > R - S /\ recvLeft > 1
      BY <2>6, <2>1
    <3>2. Margin'
      <4>1. CASE sendLeft = 1
        <5>1. sendLeft' = 0 /\ sendDue' > 0
          BY <4>1, <2>1
        <5>2. sincePing' = S /\ recvLeft' >= R - S
          BY <4>1, <2>1, <3>1
        <5>3. delay' \in Nat
          BY <2>5
        <5>4. recvLeft' \in Nat
          BY <2>5
        <5>5. \A d \in Nat : S <= S + d
          BY ConstantsAssumption
        <5>6. \A d \in Nat, r \in Nat : r >= R - S => r + d >= R - S
          BY ConstantsAssumption
        <5>7. sincePing' <= S + delay' /\ recvLeft' + delay' >= R - S
          BY <5>2, <5>3, <5>4, <5>5, <5>6
        <5> QED BY <5>1, <5>7
      <4>2. CASE sendLeft > 1
        <5>1. sendLeft' = sendLeft - 1 /\ recvLeft' = recvLeft - 1 /\ sincePing' = sincePing + 1
          BY <4>2, <2>1, <3>1
        <5> QED BY <5>1, <4>2, <2>1
      <4> QED BY <2>6, <4>1, <4>2
    <3>3. TimeoutOnlyOnStall'
      BY <3>1, <2>1, <2>2, <2>4
    <3>4. Idle' /\ OneChain'
      BY <2>1, <2>6
    <3> QED BY <2>5, <3>2, <3>3, <3>4
  <2>7. CASE sendLeft = 0
    <3>1. sendDue > 0 /\ delay' = delay + 1
      BY <2>7, <2>1, <2>2, <2>4
    <3>2. Margin' /\ TimeoutOnlyOnStall'
      BY <3>1, <2>1, <2>7
    <3>3. Idle' /\ OneChain'
      BY <2>1, <2>7
    <3> QED BY <2>5, <3>2, <3>3
  <2> QED BY <2>6, <2>7
<1>10. CASE UNCHANGED vars
  BY <1>10 DEF vars
<1> QED BY <1>1, <1>2, <1>3, <1>4, <1>5, <1>6, <1>7, <1>8, <1>9, <1>10 DEF Next, Handler

LEMMA Invariance == Spec => []IInv
  BY InitIInv, NextIInv, PTL DEF Spec

-----------------------------------------------------------------------------
(* The theorems *)

\* Every variable keeps its type.
THEOREM TypeCorrect == Spec => []TypeOK
<1>1. IInv => TypeOK
  BY DEF IInv
<1> QED BY <1>1, Invariance, PTL

\* The receive timer expires only if handlers waited for R - S seconds.
THEOREM TimeoutNeedsStall == Spec => []TimeoutOnlyOnStall
<1>1. IInv => TimeoutOnlyOnStall
  BY DEF IInv
<1> QED BY <1>1, Invariance, PTL

\* No two PINGs are further apart than the interval and the longest delay.
THEOREM PingsAreOnTime == Spec => []PingsOnTime
<1>1. IInv => PingsOnTime
  BY ConstantsAssumption DEF IInv, TypeOK, Margin, Idle, PingsOnTime
<1> QED BY <1>1, Invariance, PTL

\* Nothing but a second Start, or destroying the channel, aborts the send timer.
THEOREM AbortsAreTheUsers == Spec => []AbortOnlyByUser
<1>1. IInv => AbortOnlyByUser
  BY DEF IInv, TypeOK, OneChain, AbortOnlyByUser
<1> QED BY <1>1, Invariance, PTL

\* As long as no handler waits for R - S seconds, the heartbeat never closes the
\* connection, whatever the receiver does.
SilenceNeverCloses == S + MaxDelay < R => recvDue = 0 /\ status # "closed"

THEOREM SilenceIsNotNoticed == Spec => []SilenceNeverCloses
<1>1. IInv /\ S + MaxDelay < R => recvDue = 0
  BY ConstantsAssumption DEF IInv, TypeOK, TimeoutOnlyOnStall
<1>2. Init => SilenceNeverCloses
  BY DEF Init, SilenceNeverCloses
<1>3. IInv /\ IInv' /\ SilenceNeverCloses /\ [Next]_vars => SilenceNeverCloses'
  <2> SUFFICES ASSUME IInv, IInv', SilenceNeverCloses, [Next]_vars, S + MaxDelay < R
      PROVE recvDue' = 0 /\ status' # "closed"
    BY DEF SilenceNeverCloses
  <2>1. recvDue = 0 /\ status # "closed"
    BY DEF SilenceNeverCloses
  <2>2. recvDue' = 0
    BY ConstantsAssumption DEF IInv, TypeOK, TimeoutOnlyOnStall
  <2>3. ~ReceiveHandler
    BY <2>1 DEF ReceiveHandler
  <2>4. status' # "closed"
    BY <2>1, <2>3 DEF Next, Handler, Start, SendHandler, SendAbortedHandler, DanglingHandler,
               OnMessage, Destroy, PeerStops, Tick, vars
  <2> QED BY <2>2, <2>4
<1> QED BY <1>2, <1>3, Invariance, PTL DEF Spec

-----------------------------------------------------------------------------

\* The send timer's handlers that are queued, and the wait that is pending.
Chains == sendDue + sendAborted + (IF sendLeft > 0 THEN 1 ELSE 0)

\* A chain of PINGs ends only with an exception, or with the channel.
ChainPerStart == status \notin {"halted", "undefined"} => Chains = starts

\* Every Start begins a chain of PINGs of its own, and the handler that sends one begins
\* none and ends none (heartbeat_channel.cpp:12-24): while run() runs there are as many
\* chains as calls of Start, although one timer has at most one of them waiting.  So nothing
\* takes a second Start back, and when the channel is destroyed, one handler of each is
\* queued.  This is the part of NoCleanRestart that needs no fairness.
THEOREM ChainsNeverEnd ==
  Spec => [](/\ ChainPerStart
             /\ status = "destroyed" => sendLeft = 0)
<1> DEFINE I == TypeOK /\ ChainPerStart /\ (status = "destroyed" => sendLeft = 0)
<1>1. Init => I
  BY ConstantsAssumption DEF Init, TypeOK, ChainPerStart, Chains
<1>2. ASSUME I, TypeOK', [Next]_vars PROVE I'
  <2> USE ConstantsAssumption, <1>2 DEF TypeOK, ChainPerStart, Chains
  <2>1. CASE Start
    BY <2>1 DEF Start, StartSendTimer
  <2>2. CASE SendHandler
    BY <2>2 DEF SendHandler, StartSendTimer
  <2>3. CASE SendAbortedHandler
    BY <2>3 DEF SendAbortedHandler
  <2>4. CASE ReceiveHandler
    BY <2>4 DEF ReceiveHandler
  <2>5. CASE DanglingHandler
    BY <2>5 DEF DanglingHandler
  <2>6. CASE \E type \in MessageTypes : OnMessage(type)
    BY <2>6 DEF OnMessage, queue
  <2>7. CASE Destroy
    BY <2>7 DEF Destroy
  <2>8. CASE PeerStops
    BY <2>8 DEF PeerStops, queue
  <2>9. CASE Tick
    BY <2>9 DEF Tick
  <2>10. CASE UNCHANGED vars
    BY <2>10 DEF vars
  <2> QED  BY <2>1, <2>2, <2>3, <2>4, <2>5, <2>6, <2>7, <2>8, <2>9, <2>10 DEF Next, Handler
<1>3. Spec => []TypeOK
  BY TypeCorrect
<1> QED  BY <1>1, <1>2, <1>3, PTL DEF Spec
=============================================================================
