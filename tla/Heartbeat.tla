------------------------------ MODULE Heartbeat ------------------------------
(***************************************************************************)
(* HeartbeatChannel (heartbeat_channel.h, heartbeat_channel.cpp): a timer  *)
(* that sends a PING every S seconds, and one that closes the connection   *)
(* after R seconds.                                                        *)
(*                                                                         *)
(* Time is discrete, in seconds.  A timer that expires queues its handler; *)
(* until the handler runs, cancelling the timer does not call it back.     *)
(* The thread that runs the handlers also runs the user's callbacks, and   *)
(* may leave a queued handler waiting: delay is how long the queue has     *)
(* not been empty, and MaxDelay bounds it.                                 *)
(***************************************************************************)
EXTENDS Naturals

CONSTANTS
  S,            \* send_interval_in_seconds
  R,            \* receive_timeout_in_seconds
  MaxDelay,     \* longest time the queue of handlers is not empty
  MaxStarts,    \* bound on the calls of Start from outside
  Env           \* what may happen besides PING and PONG

Events == {"silence", "unexpected", "destroy"}

ASSUME ConstantsAssumption ==
  /\ S \in Nat /\ R \in Nat /\ 0 < S /\ S < R
  /\ MaxDelay \in Nat
  /\ MaxStarts \in Nat
  /\ Env \subseteq Events

VARIABLES
  sendLeft,     \* seconds until _heartbeat_send_timer expires, 0: no wait pending
  sendDue,      \* queued handlers of that timer, called with success
  sendAborted,  \* queued handlers of that timer, called with operation_aborted
  recvLeft,     \* seconds until _heartbeat_receive_timer expires, 0: no wait pending
  recvDue,      \* queued handlers of that timer, called with success
  delay,        \* seconds for which a handler has been queued
  sincePing,    \* seconds since Start or the last PING
  starts,       \* calls of Start from outside
  peer,         \* whether the receiver still sends messages
  status        \* of the channel; "halted": an exception left run()

vars == <<sendLeft, sendDue, sendAborted, recvLeft, recvDue, delay, sincePing, starts, peer, status>>
queue == <<sendDue, sendAborted, recvDue>>

TypeOK ==
  /\ sendLeft \in 0..S
  /\ sendDue \in Nat
  /\ sendAborted \in Nat
  /\ recvLeft \in 0..R
  /\ recvDue \in Nat
  /\ delay \in 0..MaxDelay
  /\ sincePing \in Nat
  /\ starts \in 0..MaxStarts
  /\ peer \in {"live", "silent"}
  /\ status \in {"running", "closed", "halted", "destroyed", "undefined"}

Busy == sendDue > 0 \/ sendAborted > 0 \/ recvDue > 0

Init ==
  /\ sendLeft = 0 /\ sendDue = 0 /\ sendAborted = 0
  /\ recvLeft = 0 /\ recvDue = 0
  /\ delay = 0 /\ sincePing = 0 /\ starts = 0
  /\ peer = "live"
  /\ status = "running"

-----------------------------------------------------------------------------

\* StartSendTimer, with what the queue holds besides: expires_from_now aborts
\* the wait that is pending.
StartSendTimer ==
  /\ sendAborted' = IF sendLeft > 0 THEN sendAborted + 1 ELSE sendAborted
  /\ sendLeft' = S

\* StartReceiveTimer: an aborted handler of this timer does nothing.
StartReceiveTimer == recvLeft' = R

\* Once the queue is empty nothing waits.
Dequeued == delay' = IF Busy' THEN delay ELSE 0

\* The client calls Start when it is connected.
Start ==
  /\ status = "running"
  /\ starts < MaxStarts
  /\ starts' = starts + 1
  /\ StartSendTimer
  /\ StartReceiveTimer
  /\ sincePing' = 0
  /\ UNCHANGED <<sendDue, recvDue, delay, peer, status>>

\* Mutated SendHandler: it rearms its own timer only.
SendHandlerOwnTimer ==
  /\ status = "running"
  /\ sendDue > 0
  /\ sendDue' = sendDue - 1
  /\ sincePing' = 0
  /\ StartSendTimer
  /\ UNCHANGED <<recvLeft, recvDue, starts, peer, status>>
  /\ Dequeued

\* Mutated SendHandler: it does not rearm its own timer.
SendHandlerOnce ==
  /\ status = "running"
  /\ sendDue > 0
  /\ sendDue' = sendDue - 1
  /\ sincePing' = 0
  /\ StartReceiveTimer
  /\ UNCHANGED <<sendLeft, sendAborted, recvDue, starts, peer, status>>
  /\ Dequeued

\* The handler of the send timer: a PING, and Start, which rearms both timers.
SendHandler ==
  /\ status = "running"
  /\ sendDue > 0
  /\ sendDue' = sendDue - 1
  /\ sincePing' = 0
  /\ StartSendTimer
  /\ StartReceiveTimer
  /\ UNCHANGED <<recvDue, starts, peer, status>>
  /\ Dequeued

\* Mutated SendAbortedHandler: it returns, as the other handlers do.
SendAbortedHandlerReturns ==
  /\ status \in {"running", "destroyed"}
  /\ sendAborted > 0
  /\ sendAborted' = sendAborted - 1
  /\ UNCHANGED <<sendLeft, sendDue, recvLeft, recvDue, sincePing, starts, peer, status>>
  /\ Dequeued

\* The same handler when its wait was aborted: THROW_ON_ERROR.
SendAbortedHandler ==
  /\ status \in {"running", "destroyed"}
  /\ sendAborted > 0
  /\ sendAborted' = sendAborted - 1
  /\ status' = "halted"
  /\ UNCHANGED <<sendLeft, sendDue, recvLeft, recvDue, sincePing, starts, peer>>
  /\ Dequeued

\* The handler of the receive timer closes the connection, which throws if TLS cannot
\* be shut down.
ReceiveHandler ==
  /\ status = "running"
  /\ recvDue > 0
  /\ recvDue' = recvDue - 1
  /\ status' \in {"closed", "halted"}
  /\ UNCHANGED <<sendLeft, sendDue, sendAborted, recvLeft, sincePing, starts, peer>>
  /\ Dequeued

\* Either handler, queued with success before the channel was destroyed.
DanglingHandler ==
  /\ status = "destroyed"
  /\ sendDue > 0 \/ recvDue > 0
  /\ status' = "undefined"
  /\ UNCHANGED <<sendLeft, sendDue, sendAborted, recvLeft, recvDue, delay, sincePing, starts, peer>>

\* A directed message: a PING is answered and rearms the receive timer, a PONG
\* is ignored, anything else is an unhandled message.
OnMessage(type) ==
  /\ status = "running"
  /\ peer = "live"
  /\ starts > 0
  /\ IF type = "PING" THEN StartReceiveTimer ELSE UNCHANGED recvLeft
  /\ status' = IF type \in {"PING", "PONG"} THEN status ELSE "halted"
  /\ UNCHANGED <<sendLeft, queue, delay, sincePing, starts, peer>>

\* Destroying the channel destroys its timers, which aborts their waits.
Destroy ==
  /\ status = "running"
  /\ "destroy" \in Env
  /\ sendAborted' = IF sendLeft > 0 THEN sendAborted + 1 ELSE sendAborted
  /\ sendLeft' = 0
  /\ recvLeft' = 0
  /\ status' = "destroyed"
  /\ UNCHANGED <<sendDue, recvDue, delay, sincePing, starts, peer>>

PeerStops ==
  /\ status = "running"
  /\ "silence" \in Env
  /\ peer = "live"
  /\ peer' = "silent"
  /\ UNCHANGED <<sendLeft, queue, recvLeft, delay, sincePing, starts, status>>

\* One second passes.
Tick ==
  /\ status = "running"
  /\ starts > 0
  /\ Busy => delay < MaxDelay
  /\ delay' = IF Busy THEN delay + 1 ELSE 0
  /\ sendDue' = IF sendLeft = 1 THEN sendDue + 1 ELSE sendDue
  /\ sendLeft' = IF sendLeft > 0 THEN sendLeft - 1 ELSE 0
  /\ recvDue' = IF recvLeft = 1 THEN recvDue + 1 ELSE recvDue
  /\ recvLeft' = IF recvLeft > 0 THEN recvLeft - 1 ELSE 0
  /\ sincePing' = sincePing + 1
  /\ UNCHANGED <<sendAborted, starts, peer, status>>

MessageTypes == {"PING", "PONG"} \cup (IF "unexpected" \in Env THEN {"OTHER"} ELSE {})

Handler == SendHandler \/ SendAbortedHandler \/ ReceiveHandler \/ DanglingHandler

Next ==
  \/ Start
  \/ Handler
  \/ \E type \in MessageTypes : OnMessage(type)
  \/ Destroy
  \/ PeerStops
  \/ Tick

Spec == Init /\ [][Next]_vars

\* Time passes, and run() runs the handlers that are queued.
FairSpec == Spec /\ WF_vars(Tick) /\ WF_vars(Handler)

-----------------------------------------------------------------------------
(* Properties *)

\* The receive timer only expires when the thread was kept from its handlers
\* for R - S seconds: a receiver that has gone silent is not what makes it expire,
\* although heartbeat_channel.h:10 gives the connection a receive timeout.
TimeoutOnlyOnStall == recvDue > 0 => delay >= R - S

\* The receiver hears from us in time: no more than S seconds, and the longest
\* delay of a handler, pass between two PINGs.
PingsOnTime == status = "running" => sincePing <= S + MaxDelay

\* An exception of the send timer, which would end run(), is always the doing
\* of the user: a second Start, or destroying the channel.
AbortOnlyByUser == sendAborted > 0 => starts > 1 \/ status \in {"destroyed", "halted", "undefined"}

\* There is no way back once the heartbeat runs: a second Start, or destroying
\* the channel while run() runs, always ends in an exception (or worse), if the
\* receive timer does not close the connection first.
NoCleanRestart ==
  starts > 1 \/ (status = "destroyed" /\ starts > 0) ~> status \in {"halted", "closed", "undefined"}
=============================================================================
