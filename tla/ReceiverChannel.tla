--------------------------- MODULE ReceiverChannel ---------------------------
(***************************************************************************)
(* Launching and joining applications: ReceiverChannel                     *)
(* (receiver_channel.cpp), the applications it initialises                 *)
(* (sender_application.cpp, default_media_player.h) and the channels these *)
(* register with the connection (connection.cpp, channel.cpp).             *)
(*                                                                         *)
(* An application is a DefaultMediaPlayer.  All have the same id, and so   *)
(* the same sender id and the same addresses on a given transport.  What a *)
(* status message says is reduced to the transport of the first            *)
(* application it lists, 0 if that is not ours: receiver_messages.cpp:80   *)
(* fills the whole list with copies of the first.  Messages are delivered  *)
(* in order, in each direction; CONNECT arrives at once.  When a timer can *)
(* run its handler is the business of RequestChannel.                      *)
(***************************************************************************)
EXTENDS Naturals, Sequences

CONSTANTS
  Apps,          \* DefaultMediaPlayer objects
  None,
  MaxTransport,  \* bound on the applications the receiver starts
  MaxId,         \* bound on _request_id
  MaxOps,        \* bound on the calls of Launch and Join
  MaxQueue,      \* bound on the messages under way to the sender
  OtherIds,      \* ids of other clients' requests, which are answered by broadcast
  MaxOthers,     \* bound on these answers
  Ops,           \* what the user calls
  Env            \* what the receiver and the network do besides answering

Calls == {"launch", "join", "drop"}
Events == {"retry", "stop", "others", "volume", "launchFails", "refuses", "closes"}

ASSUME ConstantsAssumption ==
  /\ None \notin Apps
  /\ MaxTransport \in Nat /\ MaxId \in Nat /\ MaxOps \in Nat /\ MaxQueue \in Nat /\ MaxOthers \in Nat
  /\ OtherIds \subseteq 1..MaxId
  /\ Ops \subseteq Calls
  /\ Env \subseteq Events

Transports == 1..MaxTransport

\* Addresses: namespace and receiver id.  The receiver's own id is 0.
Addresses == {"connection", "media"} \X Transports
Receiver == <<"receiver", 0>>

VARIABLES
  application,  \* ReceiverChannel::_application
  launching,    \* _launching_application
  onLaunched,   \* _on_application_launched, as the number of the Launch it came with
  conn, media,  \* the transports of the applications' channels, 0: no channel
  registry,     \* ChromecastConnection::_channel_address_to_channel, as owners
  counter,      \* RequestChannel::_request_id
  pending,      \* entries of the request maps of all channels
  ops,          \* calls of Launch and Join so far
  called,       \* called[l]: how often the callback of the l-th call was run
  gone,         \* applications that have been destroyed
  toReceiver,   \* requests under way
  toSender,     \* answers and broadcasts under way
  running,      \* the transport of the application the receiver runs, or 0
  started,      \* applications it has started
  others,       \* answers it has given to other clients
  status,       \* of run(): what exception left it
  connected,    \* transports that CONNECT was sent to; CLOSE never is
  taken         \* ids whose entry was taken by the answer to another client (history)

sender == <<application, launching, onLaunched, conn, media, registry, pending, called, gone, status, connected, taken>>
receiver == <<running, started, others>>
vars == <<application, launching, onLaunched, conn, media, registry, counter, pending, ops, called, gone,
          toReceiver, toSender, receiver, status, connected, taken>>

\* tag identifies a request; id is the number it is sent under.
Requests ==
  [id : 1..MaxId, tag : 1..MaxId, address : {Receiver} \cup Addresses,
   kind : {"launch", "join", "initLaunched", "initJoined"}, app : Apps, op : 0..MaxOps, armed : BOOLEAN]

\* A "status" answers a request if it has an id; to is the destination, "*" in a broadcast.
Messages ==
  [id : 0..MaxId, tag : 0..MaxId, address : {Receiver} \cup Addresses, to : {"sender", "*"},
   type : {"status", "INVALID_REQUEST", "CLOSE"}, running : 0..MaxTransport]

TypeOK ==
  /\ application \in Apps \cup {None}
  /\ launching \in BOOLEAN
  /\ onLaunched \in 0..MaxOps
  /\ conn \in [Apps -> 0..MaxTransport] /\ media \in [Apps -> 0..MaxTransport]
  /\ registry \in [Addresses -> Apps \cup {None}]
  /\ counter \in 0..MaxId
  /\ pending \subseteq Requests
  /\ ops \in 0..MaxOps
  /\ called \in [1..MaxOps -> Nat]
  /\ gone \subseteq Apps
  /\ toReceiver \in Seq(Requests)
  /\ toSender \in Seq(Messages)
  /\ running \in 0..MaxTransport /\ started \in 0..MaxTransport /\ others \in 0..MaxOthers
  /\ status \in {"running", "duplicate", "unrecognized", "unhandled", "refused", "closed"}
  /\ connected \subseteq Transports
  /\ taken \subseteq 1..MaxId

\* The constructor leaves _launching_application uninitialised.
Init ==
  /\ application = None
  /\ launching \in BOOLEAN
  /\ onLaunched = 0
  /\ conn = [a \in Apps |-> 0] /\ media = [a \in Apps |-> 0]
  /\ registry = [x \in Addresses |-> None]
  /\ counter = 0 /\ pending = {}
  /\ ops = 0 /\ called = [l \in 1..MaxOps |-> 0]
  /\ gone = {}
  /\ toReceiver = <<>> /\ toSender = <<>>
  /\ running = 0 /\ started = 0 /\ others = 0
  /\ status = "running"
  /\ connected = {} /\ taken = {}

-----------------------------------------------------------------------------
(* Requests and channels *)

\* Mutated NextId: the id is taken before the counter is incremented.
NextIdPostIncrement(address) == counter

\* Mutated NextId: each channel has a counter of its own.
NextIdPerChannel(address) ==
  CHOOSE n \in 1..MaxId : /\ \A r \in pending : r.address = address => r.id < n
                          /\ n > 1 => \E r \in pending : r.address = address /\ r.id = n - 1

\* All channels number their requests with the one static counter.
NextId(address) == counter + 1

\* RequestChannel::Request: the entry is added to what is left of the map.
Request(left, address, kind, a, l) ==
  LET r == [id |-> NextId(address), tag |-> counter + 1, address |-> address,
            kind |-> kind, app |-> a, op |-> l, armed |-> TRUE]
  IN  /\ counter < MaxId
      /\ counter' = counter + 1
      /\ pending' = left \cup {r}
      /\ toReceiver' = Append(toReceiver, r)

\* The addresses of the channels of application a.
ChannelsOf(a) == {<<"connection", conn[a]>>, <<"media", media[a]>>} \cap Addresses

\* Mutated Unregister: the destructor leaves the address in the map.
UnregisterNothing(reg, addresses) == reg

\* ~ChromecastChannel: the addresses are unregistered.
Unregister(reg, addresses) == [x \in Addresses |-> IF x \in addresses THEN None ELSE reg[x]]

\* Channels with these addresses are destroyed, and their request maps with them.
WithoutChannels(entries, addresses) == {r \in entries : r.address \notin addresses}

\* SenderApplication::Initialize and DefaultMediaPlayer::Initialize, for call l:
\* a connection and a media channel on transport t, CONNECT on the former and a
\* GET_STATUS on the latter.  A new channel is registered before it replaces the old one.
Initialize(a, t, entries, kind, l) ==
  LET new == {<<"connection", t>>, <<"media", t>>} IN
  \/ /\ \E x \in new : registry[x] # None
     /\ status' = "duplicate"
     /\ pending' = entries
     /\ UNCHANGED <<conn, media, registry, counter, toReceiver, connected>>
  \/ /\ \A x \in new : registry[x] = None
     /\ registry' = [x \in Addresses |-> IF x \in new THEN a ELSE Unregister(registry, ChannelsOf(a))[x]]
     /\ conn' = [conn EXCEPT ![a] = t]
     /\ media' = [media EXCEPT ![a] = t]
     /\ Request(WithoutChannels(entries, ChannelsOf(a)), <<"media", t>>, kind, a, l)
     /\ connected' = connected \cup {t}
     /\ UNCHANGED status

-----------------------------------------------------------------------------
(* User code *)

\* Mutated Launch: the application that is replaced is not stopped.
LaunchOverRunning(a) ==
  /\ status = "running"
  /\ "launch" \in Ops
  /\ a \notin gone
  /\ ops < MaxOps
  /\ ops' = ops + 1
  /\ Request(pending, Receiver, "launch", a, ops + 1)
  /\ application' = a
  /\ onLaunched' = ops + 1
  /\ launching' = TRUE
  /\ UNCHANGED <<conn, media, registry, called, gone, toSender, receiver, status, connected, taken>>

\* ReceiverChannel::Launch.  DefaultMediaPlayer::OnStopped resets the media
\* channel of the application that is replaced, not its connection channel.
Launch(a) ==
  /\ status = "running"
  /\ "launch" \in Ops
  /\ a \notin gone
  /\ ops < MaxOps
  /\ ops' = ops + 1
  /\ LET stopped == IF application = None THEN {} ELSE {<<"media", media[application]>>} IN
     /\ registry' = Unregister(registry, stopped)
     /\ media' = [b \in Apps |-> IF b = application THEN 0 ELSE media[b]]
     /\ Request(WithoutChannels(pending, stopped), Receiver, "launch", a, ops + 1)
  /\ application' = a
  /\ onLaunched' = ops + 1
  /\ launching' = TRUE
  /\ UNCHANGED <<conn, called, gone, toSender, receiver, status, connected, taken>>

\* ReceiverChannel::Join asks for the status first.
Join(a) ==
  /\ status = "running"
  /\ "join" \in Ops
  /\ a \notin gone
  /\ ops < MaxOps
  /\ ops' = ops + 1
  /\ Request(pending, Receiver, "join", a, ops + 1)
  /\ UNCHANGED <<application, launching, onLaunched, conn, media, registry, called, gone, toSender, receiver, status, connected, taken>>

\* The last reference to an application is dropped: its channels are destroyed.
\* The channel itself, and a request to join, hold references.
Drop(a) ==
  /\ status = "running"
  /\ "drop" \in Ops
  /\ a \notin gone
  /\ a # application
  /\ \A r \in pending : r.kind = "join" => r.app # a
  /\ gone' = gone \cup {a}
  /\ registry' = Unregister(registry, ChannelsOf(a))
  /\ pending' = WithoutChannels(pending, ChannelsOf(a))
  /\ conn' = [conn EXCEPT ![a] = 0]
  /\ media' = [media EXCEPT ![a] = 0]
  /\ UNCHANGED <<application, launching, onLaunched, counter, ops, called, toReceiver, toSender, receiver, status, connected, taken>>

\* A request is sent again under a new id; its old entry stays.
Retry(r) ==
  /\ status = "running"
  /\ "retry" \in Env
  /\ r.armed
  /\ Request((pending \ {r}) \cup {[r EXCEPT !.armed = FALSE]}, r.address, r.kind, r.app, r.op)
  /\ UNCHANGED <<application, launching, onLaunched, conn, media, registry, ops, called, gone, toSender, receiver, status, connected, taken>>

-----------------------------------------------------------------------------
(* Messages from the receiver *)

Received(m) ==
  /\ status = "running"
  /\ toSender # <<>>
  /\ m = Head(toSender)
  /\ toSender' = Tail(toSender)
  /\ UNCHANGED <<ops, gone, receiver>>

\* The message is of no consequence but for what run() makes of it.
EndsWith(outcome) ==
  /\ status' = outcome
  /\ UNCHANGED <<application, launching, onLaunched, conn, media, registry, counter, pending, called,
                 toReceiver, connected, taken>>

\* There is a channel for the message; that of the receiver always exists.
HasChannel(m) == m.address \in Addresses => registry[m.address] # None

\* No channel has the address of the message; a broadcast need not find one.
OnUnrecognizedAddress(m) ==
  /\ Received(m)
  /\ ~HasChannel(m)
  /\ EndsWith(IF m.to = "*" THEN "running" ELSE "unrecognized")

\* RequestChannel::OnMessage throws before it looks for the entry.
OnInvalidRequest(m) ==
  /\ Received(m)
  /\ HasChannel(m)
  /\ m.type = "INVALID_REQUEST"
  /\ EndsWith("refused")

\* A ConnectionChannel handles no message: that is an exception.
OnClose(m) ==
  /\ Received(m)
  /\ HasChannel(m)
  /\ m.type = "CLOSE"
  /\ EndsWith("closed")

\* Mutated OnReceiverStatus: the flag is not reset.
OnReceiverStatusStillLaunching(m) ==
  /\ Received(m)
  /\ m.type = "status" /\ m.id = 0
  /\ \/ /\ application = None \/ m.running = 0 \/ ~launching
        /\ UNCHANGED <<conn, media, registry, counter, pending, toReceiver, status, connected>>
     \/ /\ application # None /\ m.running # 0 /\ launching
        /\ Initialize(application, m.running, pending, "initLaunched", onLaunched)
  /\ UNCHANGED <<application, launching, onLaunched, called, taken>>

\* ReceiverChannel::OnReceiverStatus, for a message with id 0.
OnReceiverStatus(m) ==
  /\ Received(m)
  /\ m.type = "status" /\ m.id = 0
  /\ \/ /\ application = None \/ m.running = 0 \/ ~launching
        /\ UNCHANGED <<launching, conn, media, registry, counter, pending, toReceiver, status, connected>>
     \/ /\ application # None /\ m.running # 0 /\ launching
        /\ launching' = FALSE
        /\ Initialize(application, m.running, pending, "initLaunched", onLaunched)
  /\ UNCHANGED <<application, onLaunched, called, taken>>

\* The entry an answer finds in the map of the channel it is for.
Entry(m, r) == m.type = "status" /\ r \in pending /\ r.address = m.address /\ r.id = m.id

\* An answer finds an entry, whomever it is for.
Completes(m, r) ==
  /\ Received(m)
  /\ Entry(m, r)
  /\ taken' = IF m.to = "*" THEN taken \cup {m.id} ELSE taken
  /\ UNCHANGED <<launching, onLaunched>>

\* The answer to a LAUNCH is not looked at.
OnLaunchResponse(m, r) ==
  /\ Completes(m, r)
  /\ r.kind = "launch"
  /\ pending' = pending \ {r}
  /\ UNCHANGED <<application, conn, media, registry, counter, called, toReceiver, status, connected>>

\* The callback of Join: without our application in the status, or with one
\* already there, the user's callback is told so at once.
OnJoinRefused(m, r) ==
  /\ Completes(m, r)
  /\ r.kind = "join"
  /\ application # None \/ m.running = 0
  /\ pending' = pending \ {r}
  /\ called' = [called EXCEPT ![r.op] = @ + 1]
  /\ UNCHANGED <<application, conn, media, registry, counter, toReceiver, status, connected>>

\* ... else it is initialised.
OnJoinAccepted(m, r) ==
  /\ Completes(m, r)
  /\ r.kind = "join"
  /\ application = None
  /\ m.running # 0
  /\ application' = r.app
  /\ Initialize(r.app, m.running, pending \ {r}, "initJoined", r.op)
  /\ UNCHANGED called

\* The answer to the GET_STATUS of a media channel ends an initialisation.  One
\* that a Launch began calls the callback that is stored then.
OnInitialized(m, r) ==
  /\ Completes(m, r)
  /\ r.kind \in {"initLaunched", "initJoined"}
  /\ pending' = pending \ {r}
  /\ LET l == IF r.kind = "initLaunched" THEN onLaunched ELSE r.op
     IN  called' = [i \in 1..MaxOps |-> IF i = l THEN called[i] + 1 ELSE called[i]]
  /\ UNCHANGED <<application, conn, media, registry, counter, toReceiver, status, connected>>

\* The channel does not know the id: that is another client's answer if it is a broadcast.
OnUnhandledMessage(m) ==
  /\ Received(m)
  /\ HasChannel(m)
  /\ m.type = "status" /\ m.id # 0
  /\ \A r \in pending : ~Entry(m, r)
  /\ EndsWith(IF m.to = "*" THEN "running" ELSE "unhandled")

-----------------------------------------------------------------------------
(* The receiver *)

Broadcast(t) == [id |-> 0, tag |-> 0, address |-> Receiver, to |-> "*", type |-> "status", running |-> t]
Answer(q, type, t) == [id |-> q.id, tag |-> q.tag, address |-> q.address, to |-> "sender", type |-> type, running |-> t]
Foreign(address, id, type, t) == [id |-> id, tag |-> 0, address |-> address, to |-> "*", type |-> type, running |-> t]
Close(t) == [id |-> 0, tag |-> 0, address |-> <<"connection", t>>, to |-> "sender", type |-> "CLOSE", running |-> 0]

\* The application that runs ends, and with it a connection.
Endings == {<<>>} \cup (IF "closes" \in Env /\ running \in connected THEN {<<Close(running)>>} ELSE {})

Accepts(q, kinds) ==
  /\ status = "running"
  /\ toReceiver # <<>>
  /\ q = Head(toReceiver)
  /\ q.kind \in kinds
  /\ Len(toSender) < MaxQueue
  /\ toReceiver' = Tail(toReceiver)
  /\ UNCHANGED <<sender, counter, ops>>

\* A LAUNCH starts the application anew, on a new transport, whatever runs.
ReceiverLaunches(q) ==
  /\ Accepts(q, {"launch"})
  /\ started < MaxTransport
  /\ started' = started + 1
  /\ running' = started + 1
  /\ UNCHANGED others
  /\ \E ending \in Endings :
       toSender' = toSender \o ending \o <<Broadcast(started + 1), Answer(q, "status", started + 1)>>

\* It fails with a LAUNCH_ERROR.
ReceiverFails(q) ==
  /\ "launchFails" \in Env
  /\ Accepts(q, {"launch"})
  /\ toSender' = Append(toSender, Answer(q, "status", running))
  /\ UNCHANGED receiver

\* A request to an application that no longer runs is not answered.
ReceiverAnswers(q) ==
  /\ Accepts(q, {"join", "initLaunched", "initJoined"})
  /\ toSender' = IF q.kind = "join" \/ q.address[2] = running
                 THEN Append(toSender, Answer(q, "status", running)) ELSE toSender
  /\ UNCHANGED receiver

\* Any request may be refused as such.
ReceiverRefuses(q) ==
  /\ "refuses" \in Env
  /\ Accepts(q, {"launch", "join", "initLaunched", "initJoined"})
  /\ toSender' = Append(toSender, Answer(q, "INVALID_REQUEST", running))
  /\ UNCHANGED receiver

\* The status is broadcast when the application stops, when another client has
\* the receiver launch it, or when something else changes (the volume).
StatusChanges(t) ==
  /\ status = "running"
  /\ Len(toSender) < MaxQueue
  /\ \/ "stop" \in Env /\ running # 0 /\ t = 0 /\ UNCHANGED started
     \/ "others" \in Env /\ t = started + 1 /\ t \in Transports /\ started' = t
     \/ "volume" \in Env /\ t = running /\ UNCHANGED started
  /\ running' = t
  /\ \E ending \in Endings :
       toSender' = toSender \o (IF t = running THEN <<>> ELSE ending) \o <<Broadcast(t)>>
  /\ UNCHANGED <<sender, counter, ops, toReceiver, others>>

\* A request of another client is answered or refused, for all to hear.
OthersAreAnswered ==
  /\ status = "running"
  /\ Len(toSender) < MaxQueue
  /\ others < MaxOthers
  /\ others' = others + 1
  /\ \E id \in OtherIds, address \in {Receiver} \cup ({<<"media", running>>} \cap Addresses),
       type \in {"status"} \cup (IF "refuses" \in Env THEN {"INVALID_REQUEST"} ELSE {}) :
       toSender' = Append(toSender, Foreign(address, id, type, running))
  /\ UNCHANGED <<sender, counter, ops, toReceiver, running, started>>

-----------------------------------------------------------------------------

OnMessage(m) ==
  \/ OnReceiverStatus(m)
  \/ \E r \in pending : OnLaunchResponse(m, r) \/ OnJoinRefused(m, r) \/ OnJoinAccepted(m, r) \/ OnInitialized(m, r)
  \/ OnUnrecognizedAddress(m) \/ OnInvalidRequest(m) \/ OnClose(m) \/ OnUnhandledMessage(m)

ReceiverStep(q) == ReceiverLaunches(q) \/ ReceiverFails(q) \/ ReceiverAnswers(q) \/ ReceiverRefuses(q)

Arrives == toSender # <<>> /\ OnMessage(Head(toSender))
Served == toReceiver # <<>> /\ ReceiverStep(Head(toReceiver))

Next ==
  \/ \E a \in Apps : Launch(a) \/ Join(a) \/ Drop(a)
  \/ \E r \in pending : Retry(r)
  \/ Arrives
  \/ Served
  \/ \E t \in 0..MaxTransport : StatusChanges(t)
  \/ OthersAreAnswered

Spec == Init /\ [][Next]_vars

\* run() handles the messages that arrive, and the receiver serves requests.
FairSpec == Spec /\ WF_vars(Arrives) /\ WF_vars(Served)

-----------------------------------------------------------------------------
(* Properties *)

\* The connection's map holds exactly the channels that exist, each under its own
\* address: no channel is destroyed and left in the map, or taken out of it by
\* the destructor of another.
RegistryIsExact ==
  \A a \in Apps, t \in Transports :
    /\ registry[<<"connection", t>>] = a <=> conn[a] = t
    /\ registry[<<"media", t>>] = a <=> media[a] = t

\* An answer completes the request it answers, even if the channel that sent the
\* request is gone and another has its address.
AnswersFindTheirRequest ==
  \A k \in 1..Len(toSender), r \in pending :
    toSender[k].to = "sender" /\ Entry(toSender[k], r) => toSender[k].tag = r.tag

\* The callback of a Launch is not run for the application of an earlier one,
\* although it is looked up only when the initialisation ends.
LaunchCallbackIsOwn == \A r \in pending : r.kind = "initLaunched" => r.op = onLaunched

\* An application that is replaced, or dropped, is not called back any more:
\* only the application of the channel waits for a media channel's answer.
OnlyCurrentIsInitializing ==
  \A r \in pending : r.kind \in {"initLaunched", "initJoined"} => r.app = application /\ media[r.app] = r.address[2]

\* A Launch that is the only call ends in an exception only if a request is refused, ours
\* or another's, if the application closes its connection, or if the answer to another
\* client has taken an entry; neither retries nor late answers, nor applications that end
\* or are launched by others, are a cause.
HaltsForCause == ops = 1 /\ onLaunched = 1 /\ taken = {} => status \in {"running", "refused", "closed"}

\* connection.cpp:216 refuses an address that is already registered: it never is.
AddressesAreUnique == status # "duplicate"

\* Once Launch is called its callback is run (client.h:60 expects it to be told
\* of a failure).
LaunchIsReported == \A l \in 1..MaxOps : onLaunched = l ~> called[l] > 0 \/ onLaunched > l \/ status # "running"
=============================================================================
