-------------------------------- MODULE Client --------------------------------
(***************************************************************************)
(* ChromecastClient (client.h): the connection, its connection channel and *)
(* its heartbeat, with the program that uses them (chormecast-sample.cpp)  *)
(* and the receiver.                                                       *)
(*                                                                         *)
(* One thread runs the handlers: status says that run() is running, that   *)
(* it returned because there was nothing left to wait for, or what         *)
(* exception left it.  A program calls the client in main and in its       *)
(* callbacks; a request of its is sent again and again while it is not     *)
(* answered (RequestChannel).  When the timers of the heartbeat expire is  *)
(* the business of Heartbeat: here they may do so at any time.             *)
(***************************************************************************)
EXTENDS Connection

CONSTANTS
  Ping,      \* the body that is the receiver's PING
  Programs   \* among AllPrograms

\* InitializeClientA does nothing once it is connected; InitializeClientB joins, whether
\* it is connected or not; any other program may send, close and connect as it likes.
AllPrograms == {"A", "B", "other"}

ASSUME ClientAssumption == Ping \in Bodies /\ Programs \subseteq AllPrograms

VARIABLES
  program,
  told,      \* whether AsyncConnect was called, and what its callback was told last
  waiting,   \* whether a request was sent without a connection: its retry timer keeps
             \* run() busy
  armed      \* whether the receive timer is

user == <<program, told, waiting>>
connection == <<phase, reader, sent, incoming, wire, writing, stray, link, closed, errors, status>>
vars == <<connection, user, armed>>

ClientTypeOK ==
  /\ TypeOK
  /\ program \in Programs
  /\ told \in {"unasked", "nothing", "connected", "failed"}
  /\ waiting \in BOOLEAN /\ armed \in BOOLEAN

ClientInit ==
  /\ Init
  /\ program \in Programs
  /\ told = "unasked"
  /\ waiting = FALSE /\ armed = FALSE

-----------------------------------------------------------------------------
(* Connecting *)

\* The user's code runs in main, before run(), and in callbacks.
InCallback == told \in {"connected", "failed"} /\ phase # "handshake"

\* ChromecastClient::AsyncConnect: first in main, and perhaps again in the callback, unless
\* it is connected.  If the address is not an IP address nothing happens: the result is
\* not looked at, and the callback is never called.
Connect ==
  /\ told = "unasked" \/ (program = "other" /\ InCallback)
  /\ told' = IF told = "unasked" THEN "nothing" ELSE told
  /\ AsyncConnect \/ UNCHANGED connection
  /\ UNCHANGED <<program, waiting, armed>>

\* What the connection channel sends.
SendsConnect == <<"CONNECT">>
SendsClose == <<"CLOSE">>

\* What a program sends in its callback.
Joining == IF program = "B" THEN <<"request">> ELSE <<>>

Issued(requests) == waiting' = (waiting \/ (requests # <<>> /\ phase' # "ready"))

OnConnectFailed ==
  /\ ConnectFails(Joining)
  /\ told' = "failed" /\ Issued(Joining)
  /\ UNCHANGED <<program, armed>>

\* Mutated OnConnected: the user's callback is called before the client sends CONNECT.
OnConnectedReportsFirst ==
  /\ OnHandshake(Joining \o SendsConnect)
  /\ told' = "connected" /\ Issued(Joining) /\ armed' = TRUE
  /\ UNCHANGED program

\* The client sends CONNECT, starts the heartbeat and calls the user's callback.
OnConnected ==
  /\ OnHandshake(SendsConnect \o Joining)
  /\ told' = "connected" /\ Issued(Joining) /\ armed' = TRUE
  /\ UNCHANGED program

-----------------------------------------------------------------------------
(* The heartbeat *)

\* The handler of the send timer: a PING, and both timers are armed again.
SendTimer ==
  /\ phase = "ready"
  /\ Send("PING")
  /\ armed' = TRUE
  /\ UNCHANGED user

\* The handler of the receive timer closes the connection, without a CLOSE.
ReceiveTimer ==
  /\ armed
  /\ armed' = FALSE
  /\ Shutdown
  /\ UNCHANGED <<wire, writing, user>>

\* Mutated OnPacket: a PING is taken for a PONG.
OnPacketIgnoresPing ==
  /\ OnData(<<>>, FALSE)
  /\ UNCHANGED <<user, armed>>

\* A packet goes to its channel.  The heartbeat answers a PING and arms the receive timer;
\* other channels, and callbacks, may throw, as may the connection for an address it
\* does not know, unless the program overrides that (MyConnection).
OnPacket ==
  /\ HasArrived
  /\ IF Filled = Ping THEN OnData(<<"PONG">>, FALSE) /\ armed' = TRUE
     ELSE (\E throws \in BOOLEAN : OnData(<<>>, throws)) /\ UNCHANGED armed
  /\ UNCHANGED user

-----------------------------------------------------------------------------
(* The program *)

\* A request, in a callback.
Request ==
  /\ program # "A" /\ InCallback
  /\ Send("request")
  /\ Issued(<<"request">>)
  /\ UNCHANGED <<program, told, armed>>

\* Close: CLOSE is sent, then TLS shut down.
Close ==
  /\ program = "other" /\ InCallback
  /\ writing < MaxSends
  /\ Shutdown
  /\ AsyncWrite(SendsClose)
  /\ UNCHANGED <<user, armed>>

\* run() returns when nothing is left to wait for: no connecting, no read, no write and
\* no timer.
Return ==
  /\ told # "unasked"
  /\ phase \in {"idle", "failed"} /\ writing = 0 /\ ~waiting
  /\ status' = "returned"
  /\ UNCHANGED <<phase, opening, wire, writing, user, armed>>

\* Steps of the connection alone.
Alone(step) == step /\ UNCHANGED <<user, armed>>

Read == Alone(OnLength) \/ OnPacket \/ Alone(ReadFails)
Receiver == Alone((\E b \in Bodies : ReceiverSends(b)) \/ ReceiverCloses \/ ReceiverGone)

Runs(handler) == status = "running" /\ handler

Next ==
  \/ Runs(Connect \/ Request \/ Close)
  \/ Runs(OnConnectFailed \/ Alone(OnConnectCompleted) \/ OnConnected)
  \/ Runs(Read) \/ \E n \in 0..Len(incoming) : Runs(Alone(ReadEndsEarly(n)))
  \/ Runs(Alone(WriteCompletes))
  \/ Runs(SendTimer) \/ Runs(ReceiveTimer)
  \/ Runs(Return)
  \/ Receiver

Spec == ClientInit /\ [][Next]_vars

\* run() calls the handlers of a read or a write that has ended, and returns when there
\* is nothing to wait for.  An attempt to connect ends in time, but not a handshake
\* with a receiver that does not answer.
FairSpec ==
  /\ Spec
  /\ WF_vars(Runs(Read)) /\ WF_vars(Runs(Alone(WriteCompletes))) /\ WF_vars(Runs(Return))

-----------------------------------------------------------------------------
(* Properties *)

\* The receiver hears CONNECT before anything else, whatever the user does in his
\* callback.
ConnectComesFirst == wire # <<>> => wire[1] = "CONNECT"

\* A packet that was sent is handled in the end.
PacketsArrive ==
  \A n \in 1..MaxPackets :
    Len(sent) >= n ~> Len(delivered) >= n \/ closed \/ link = "gone" \/ status # "running"

Count(message, messages) == Len(SelectSeq(messages, LAMBDA x : x = message))

\* The receiver has an answer to each PING, through reads that end early, while the
\* connection lasts.
PingsAreAnswered ==
  \A n \in 1..MaxPackets :
    Count(Ping, sent) >= n ~>
      Count("PONG", wire) >= n \/ closed \/ link = "gone" \/ status # "running"

\* After Close, and when the connection is lost, run() does not wait forever: an
\* exception ends it.
CloseEndsRun == closed \/ link = "gone" ~> status # "running"

\* Nor does it when there is no connection: if the address was wrong or refused run()
\* returns, and an exception ends it if the program sends nevertheless.
FailureEndsRun ==
  told # "unasked" /\ phase \in {"idle", "failed"} ~>
    status # "running" \/ phase \in {"connecting", "handshake", "reconnecting"}
=============================================================================
