------------------------------ MODULE Connection ------------------------------
(***************************************************************************)
(* The connection to the receiver: TLSConnection and ChromecastConnection  *)
(* (connection.cpp).  The module Client composes it with the program that  *)
(* uses it, the heartbeat and the receiver.                                *)
(*                                                                         *)
(* A packet is its length, in HeaderSize digits of base Base (4 and 256 in *)
(* the code), and as many bytes.  What arrives is modelled byte by byte,   *)
(* what is sent by the kind of message: a message smaller than a TLS       *)
(* record goes out whole when async_write is called.                       *)
(***************************************************************************)
EXTENDS Naturals, Sequences, SequencesExt

CONSTANTS
  Base, HeaderSize,
  Bodies,      \* contents of the packets the receiver sends
  MaxPackets,  \* bound on the packets it sends
  MaxSends,    \* bound on the messages sent, and on the writes under way
  MaxErrors    \* bound on reads that end early although the connection is open

Bytes == 0..(Base - 1)

\* What remains of n when its last k digits of base Base are taken off.
Shifted(n) ==
  LET shifted[k \in 0..HeaderSize] == IF k = 0 THEN n ELSE shifted[k - 1] \div Base
  IN  shifted

\* A length is written in HeaderSize digits.
ASSUME ConstantsAssumption ==
  /\ Base \in Nat \ {0, 1} /\ HeaderSize \in Nat \ {0}
  /\ MaxPackets \in Nat /\ MaxSends \in Nat /\ MaxErrors \in Nat
  /\ \A b \in Bodies : b \in Seq(Bytes) /\ Len(b) > 0 /\ Shifted(Len(b))[HeaderSize] = 0

VARIABLES
  phase,      \* how far AsyncConnect has come
  part,       \* what is being read: the length of a packet or its data
  buffer,     \* the bytes of it that have been read
  remaining,  \* the bytes that are still asked for
  sent,       \* packets the receiver has sent
  incoming,   \* bytes of them under way
  delivered,  \* packets given to OnMessage
  wire,       \* messages sent to the receiver
  writing,    \* writes that have not completed
  stray,      \* whether a zero byte was sent between messages
  link,       \* "closing": the receiver has closed its side; "gone": both
  closed,     \* whether TLS was shut down
  errors,     \* reads that ended early
  status      \* of run(): what exception left it, or whether it returned

reader == <<part, buffer, remaining, delivered>>
opening == <<reader, sent, incoming, stray, link, closed, errors>>

TypeOK ==
  /\ phase \in {"idle", "connecting", "handshake", "ready", "failed", "reconnecting"}
  /\ part \in {"none", "length", "data"}
  /\ buffer \in Seq(Bytes) /\ remaining \in Nat
  /\ part = "length" => Len(buffer) + remaining = HeaderSize
  /\ sent \in Seq(Bodies) /\ incoming \in Seq(Bytes) /\ delivered \in Seq(Seq(Bytes))
  /\ wire \in Seq({"CONNECT", "PING", "PONG", "request", "CLOSE"})
  /\ writing \in Nat
  /\ stray \in BOOLEAN /\ closed \in BOOLEAN
  /\ link \in {"open", "closing", "gone"}
  /\ errors \in 0..MaxErrors
  /\ status \in {"running", "returned", "read", "write", "close", "handler"}

Init ==
  /\ phase = "idle"
  /\ part = "none" /\ buffer = <<>> /\ remaining = 0
  /\ sent = <<>> /\ incoming = <<>> /\ delivered = <<>>
  /\ wire = <<>> /\ writing = 0 /\ stray = FALSE
  /\ link = "open" /\ closed = FALSE
  /\ errors = 0
  /\ status = "running"

-----------------------------------------------------------------------------
(* Opening *)

\* AsyncConnect.  A socket that is connected already cannot be connected again.
AsyncConnect ==
  /\ phase \in {"idle", "failed"}
  /\ phase' = IF phase = "idle" THEN "connecting" ELSE "reconnecting"
  /\ UNCHANGED <<opening, wire, writing, status>>

\* The write completes later, with an error if there is no connection any more, or
\* none yet.
AsyncWrite(messages) ==
  /\ wire' = IF phase' # "ready" \/ closed \/ link = "gone" THEN wire ELSE wire \o messages
  /\ writing' = writing + Len(messages)

\* OnConnectCompleted, or OnHandshake, with an error; its callback sends messages.
ConnectFails(messages) ==
  /\ phase \in {"connecting", "handshake", "reconnecting"}
  /\ phase' = IF phase = "connecting" THEN "idle" ELSE "failed"
  /\ AsyncWrite(messages)
  /\ UNCHANGED <<opening, status>>

\* OnConnectCompleted: the handshake begins.
OnConnectCompleted ==
  /\ phase = "connecting"
  /\ phase' = "handshake"
  /\ UNCHANGED <<opening, wire, writing, status>>

StartReading(what, size) == part' = what /\ buffer' = <<>> /\ remaining' = size

\* OnHandshake: reading begins, then the callback sends messages.
OnHandshake(messages) ==
  /\ phase = "handshake"
  /\ phase' = "ready"
  /\ StartReading("length", HeaderSize)
  /\ AsyncWrite(messages)
  /\ UNCHANGED <<sent, incoming, delivered, stray, link, closed, errors, status>>

-----------------------------------------------------------------------------
(* Reading *)

Reading == part # "none"

\* Digits of base Base, the most significant first: big_uint32_t.
Value(digits) ==
  LET value[k \in 0..Len(digits)] ==
        IF k = 0 THEN 0 ELSE value[k - 1] * Base + digits[k]
  IN  value[Len(digits)]
Digits(n) == [i \in 1..HeaderSize |-> Shifted(n)[HeaderSize - i] % Base]

Packet(b) == Digits(Len(b)) \o b

\* A read completes when all its bytes have arrived.
HasArrived == Reading /\ ~closed /\ Len(incoming) >= remaining

Arrived == HasArrived /\ incoming' = SubSeq(incoming, remaining + 1, Len(incoming))

Filled == buffer \o SubSeq(incoming, 1, remaining)

\* The length has been read: StartReadingData.
OnLength ==
  /\ Arrived
  /\ part = "length"
  /\ StartReading("data", Value(Filled))
  /\ UNCHANGED <<phase, sent, delivered, wire, writing, stray, link, closed, errors, status>>

\* Mutated OnData: the next packet is not waited for.
OnDataStops(messages, throws) ==
  /\ Arrived
  /\ part = "data"
  /\ delivered' = Append(delivered, Filled)
  /\ StartReading("none", 0)
  /\ UNCHANGED <<phase, sent, stray, link, closed, errors, status>>
  /\ AsyncWrite(messages)

\* The data has been read and is handled, which sends messages.  Only then is the next
\* length read: not if the handler throws.
OnData(messages, throws) ==
  /\ Arrived
  /\ part = "data"
  /\ delivered' = Append(delivered, Filled)
  /\ IF throws THEN StartReading("none", 0) ELSE StartReading("length", HeaderSize)
  /\ status' = IF throws THEN "handler" ELSE status
  /\ UNCHANGED <<phase, sent, stray, link, closed, errors>>
  /\ AsyncWrite(messages)

\* Mutated EnsureConnectionIsAlive: the error is not looked at.
EnsureConnectionIsAliveQuietly == stray' = TRUE /\ UNCHANGED status

\* EnsureConnectionIsAlive: a zero byte is written, or an exception thrown.
EnsureConnectionIsAlive ==
  IF closed \/ link = "gone"
  THEN status' = "read" /\ UNCHANGED stray
  ELSE stray' = TRUE /\ UNCHANGED status

\* The read ends with an error after n bytes, fewer than it asked for.
EndsAfter(n) ==
  /\ Reading
  /\ n < remaining /\ n <= Len(incoming)
  /\ EnsureConnectionIsAlive
  /\ incoming' = SubSeq(incoming, n + 1, Len(incoming))
  /\ UNCHANGED <<phase, part, sent, delivered, wire, writing, link, closed>>

\* Mutated Resume: the bytes that came are overwritten.
ResumeAtStart(n) == UNCHANGED buffer /\ remaining' = remaining - n

\* StartReading again, for the rest.
Resume(n) == buffer' = buffer \o SubSeq(incoming, 1, n) /\ remaining' = remaining - n

\* It ends early although the connection is open.
ReadEndsEarly(n) ==
  /\ ~closed /\ link = "open"
  /\ errors < MaxErrors
  /\ errors' = errors + 1
  /\ EndsAfter(n)
  /\ Resume(n)

\* It fails for good: nothing more will arrive.
ReadFails ==
  /\ closed \/ link # "open"
  /\ EndsAfter(IF closed THEN 0 ELSE Len(incoming))
  /\ Resume(IF closed THEN 0 ELSE Len(incoming))
  /\ UNCHANGED errors

-----------------------------------------------------------------------------
(* Writing and closing *)

\* ChromecastChannel::Send.
Send(message) ==
  /\ Len(wire) < MaxSends /\ writing < MaxSends
  /\ UNCHANGED <<phase, opening, status>>
  /\ AsyncWrite(<<message>>)

\* Mutated WriteCompletes: the error is not looked at.
WriteCompletesQuietly ==
  /\ writing > 0
  /\ writing' = writing - 1
  /\ UNCHANGED <<phase, opening, wire, status>>

\* A write completes.  It has failed if there was no connection; after that was closed
\* it may have failed.  The handler then throws.
WriteCompletes ==
  /\ writing > 0
  /\ writing' = writing - 1
  /\ \/ phase = "ready" /\ UNCHANGED status
     \/ (phase # "ready" \/ closed \/ link # "open") /\ status' = "write"
  /\ UNCHANGED <<phase, opening, wire>>

\* TLSConnection::Close: TLS is shut down.  This waits for the receiver to do so too, or
\* throws if it does not, and if there is no connection.
Shutdown ==
  /\ closed' = TRUE
  /\ status' \in IF phase = "ready" THEN {status, "close"} ELSE {"close"}
  /\ UNCHANGED <<phase, reader, sent, incoming, stray, link, errors>>

-----------------------------------------------------------------------------
(* The receiver *)

ReceiverSends(b) ==
  /\ phase = "ready"
  /\ link = "open"
  /\ Len(sent) < MaxPackets
  /\ sent' = Append(sent, b)
  /\ incoming' = incoming \o Packet(b)
  /\ UNCHANGED <<phase, reader, wire, writing, stray, link, closed, errors, status>>

\* The receiver closes its side; what it has sent arrives.
ReceiverCloses ==
  /\ phase = "ready"
  /\ link = "open"
  /\ link' = "closing"
  /\ UNCHANGED <<phase, reader, sent, incoming, wire, writing, stray, closed, errors, status>>

\* The connection is lost, with what is under way.
ReceiverGone ==
  /\ phase = "ready"
  /\ link # "gone"
  /\ link' = "gone"
  /\ incoming' = <<>>
  /\ UNCHANGED <<phase, reader, sent, wire, writing, stray, closed, errors, status>>

-----------------------------------------------------------------------------
(* Properties *)

\* The bytes of the last n packets.
Stream(packets) ==
  LET stream[n \in 0..Len(packets)] ==
        IF n = 0 THEN <<>> ELSE Packet(packets[Len(packets) + 1 - n]) \o stream[n - 1]
  IN  stream

\* The channels are given the packets that were sent, in order and unchanged, wherever
\* a read ends early; and what is in the buffer and what is under way is all the rest
\* of them, so that reading goes on where it ended.
FramingIsExact ==
  /\ IsPrefix(delivered, sent)
  /\ link # "gone" /\ part # "none" =>
       LET header == IF part = "data" THEN Digits(Len(buffer) + remaining) ELSE <<>>
       IN  header \o buffer \o incoming = Stream(sent)[Len(sent) - Len(delivered)]
=============================================================================
