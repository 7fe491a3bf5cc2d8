# Verification of libchromecast

libchromecast is a C++ library with which a program (the *sender*) controls a
Chromecast (the *receiver*): it opens a TLS connection, sends JSON messages
wrapped in protobuf, launches or joins an application on the device, and plays
media with it.

Everything happens on the one thread that calls `io_service::run()`. The handler
of a read, a write or a timer, and any callback of the user that it calls, runs to
its end before the next. So there are no data races; what is hard is the *order*
in which handlers run, what lies between the operation a user calls and the
handlers that finish it, and what an exception does: it leaves `run()`, and in the
sample the program then ends.

Paths below are relative to `src/libchromecast/libchromecast/`.

## 1. Inventory

| Component | State it keeps | Operations | Talks to |
|---|---|---|---|
| Requests and retries: `RequestChannel` (`receiver_channel.cpp:12-99`) | a counter shared by all channels; per channel a map from ids to callbacks and retry timers | `Request`, `OnMessage`, `OnResponse`, the handler of the retry timer | base of the receiver and the media channel |
| Heartbeat: `heartbeat_channel.cpp` | a send and a receive timer | `Start`, the two handlers, PING and PONG | connection (`Send`, `Close`) |
| Launching and joining: `ReceiverChannel` (`receiver_channel.cpp:101-211`), `SenderApplication`, `DefaultMediaPlayer` | the application, whether it is being launched, the callback of the launch; per application its channels | `Launch`, `Join`, `OnReceiverStatus`, `Initialize`, `OnStopped` | connection (the map of channels), media channel, the user |
| Status and volume: `receiver_channel.cpp:117-148,213-235`, `receiver_messages.cpp` | the last status of the receiver | `GetStatus`, `Mute`, `SetVolume`, `GetAppAvailabillity` | the user |
| Media channel: `media_channel.cpp` | the last media status | `Load`, `GetStatus`, `Play`, `Pause`, `Stop`, `Seek`, `SetTrackInfo`, `OnResponse` | the user, through `DefaultMediaPlayer` |
| Media messages: `media_messages.cpp` | none | `ToMessage`, `FromMessage` | JSON access |
| Addresses and dispatch: `connection.cpp:113-133,173-176,211-227`, `cast_message.cpp:28-42`, `channel.cpp` | the map from addresses to channels | `RegisterChannel`, `UnregisterChannel`, `OnMessage`, `OnUnhandledMessage` | all channels |
| Connection and framing: `connection.cpp:15-111,135-209` | the packet that is being read; TLS | `AsyncConnect`, `StartReading...`, `AsyncWrite`, `Close` | dispatch, the client |
| Client: `client.h` | owns one of each | `AsyncConnect`, `Close`, and operations passed on | all |
| Sample: `../chormecast-sample/chormecast-sample.cpp` | the client, `run()` | its programs A and B, a connection of its own | the client |
| Connection channel: `connection_channel.cpp` | none | sends CONNECT and CLOSE | |
| Serialisation: `cast_message.cpp:68-127`, and the class generated from the protocol, `google_cast_message.*` | the fields of a message, which of them are there, and who owns their strings | `Serialize`; accessors, `Clear`, `Swap`, `MergeFrom`, `CopyFrom`, writing and parsing | connection |
| JSON access: `json_message.cpp` | a document | read, write, parse, print | all messages |

A message arrives in the connection, which finds the channels by the address and
calls their `OnMessage`; a request channel looks the id up and calls the callback
of the request; that may call the user, who may issue the next request, create
channels or destroy them. All this is one stack of calls. A message goes out
through `ChromecastChannel::Send` and `AsyncWrite` at once.

### What is hard, and what makes each component correct

* **Requests.** A timer that has expired cannot be cancelled any more: its handler
  is in the queue, and the answer may be handled first. A retry has a new id and
  the same callback, and the old entry stays. Correct: retries never multiply,
  never stop while the newest id is unanswered, and every late answer finds its
  entry (otherwise it throws), unless the answer to another client has taken it.
* **Heartbeat.** Two timers, each of whose handlers may be late. Correct: PINGs go
  out in time; the receive timer closes the connection if the receiver is silent
  (it does not), and never otherwise.
* **Applications.** A launch is carried out by a status broadcast that comes some
  time later, and ends with the answer to another request, at another channel, by
  which time the user may have launched something else. Correct: the map of
  channels agrees with the channels that exist, nobody is called back for
  somebody else's application, and the user is told what became of his call.
* **Dispatch.** The loop over the map calls users who change the map; the map's
  order depends on what `compare` returns. Correct: a lookup finds the channel
  asked for, and a broadcast reaches each of its channels once.
* **Connection.** A packet arrives in pieces, a read may fail in between, the
  connection may be lost or closed. Correct: what is delivered is what was sent.
* **Client.** Connecting may fail, and user code runs in the callback that tells
  so; the heartbeat, the user and the answers to PING all send when they like.
  Correct: the receiver hears CONNECT first and an answer to each PING, and
  `run()` does not wait for ever.
* **Serialisation.** Another sender's packet may order, repeat and add fields, or
  stop anywhere. Correct: what is loaded is the last valid value of each field,
  and what the library saves comes back. The generated class shares its empty
  strings between messages: a field that is not there shows its default, and each
  string is deleted once.
* **Media and status.** Other clients use the receiver too, so that a command may
  meet a session that has ended; a status may hold what the library cannot read,
  and then throws. Correct: what the sender knows is what the receiver reported
  last, and the media the user loads can be read when they come back.

`PROJECT.json` lists each hazard at its line, with the properties about it.

## 2. Modules

| Module | Models | Composes |
|---|---|---|
| `AtLeastOnce` | what the issuer of a request is promised (abstract) | |
| `RequestChannel` | requests and retries | refines `AtLeastOnce` |
| `Heartbeat` | the two timers | |
| `ReceiverChannel` | launching and joining: the receiver channel, the applications, their channels in the map, the receiver | receiver channel, application, map |
| `Registry` | the map and its order, delivery step by step | map, channels, user |
| `Connection` | connecting, framing, writing, closing: the steps, without a specification of its own | TLS connection, connection |
| `Client` | the client and a program that uses it | connection, connection channel, heartbeat, program, `run()`, receiver |
| `CastMessage` | the generated class, and the packets that are saved into it and loaded from it | message, other senders, the library's struct |
| `JsonMessage` | JSON values: operators without state | |
| `MediaChannel` | media sessions | media channel, user, receiver |
| `MediaMessages` | media to and from JSON, over `JsonMessage` | user, receiver, other clients |
| `ReceiverStatus` | the status the sender keeps, volume | receiver channel, receiver, other clients |

`MC...` modules name the sets the configurations use; `...Proofs` modules hold the
theorems. A configuration `XSafety.cfg`, or another `X...cfg`, is run with
`MCX`. A definition that begins with a comment "Mutated *Op*" is not part of a specification: it is *Op* with a
plausible mistake, and shows that a property notices it.

### How state and actions correspond to the code

**RequestChannel.** `counter` is `_request_id`; `pending` are the keys of all maps
`_request_id_to_request`; `timer[i]` is the retry timer of id i: "armed", "fired"
(the handler is queued with success), "aborted" (queued with
`operation_aborted`), "done". `unanswered` are the ids the receiver may still
answer. One action per handler: `Request`, `RetryHandler`, `AbortedHandler`,
`OnResponse`, `OnUnhandledMessage`, `OnInvalidRequest`, `OnUnrecognizedAddress`,
`Destroy`. `status` is "halted" when an exception left `run()`, "undefined" when a
handler used a destroyed channel. The abstract `AtLeastOnce` knows only which ids
a request was sent under and which were answered; its state is computed from that
of `RequestChannel` (`Attempts`, `Answered`, `Open`, `Abandoned`).

**Heartbeat.** Time is counted in seconds (`Tick`). A timer is the seconds it has
left; a handler that is due is queued, and `delay` says for how long the queue has
not been empty. `Start` arms both timers, and so does `SendHandler`. The connection that
`ReceiveHandler` closes may have been lost, and closing it then throws: `status` is
"closed" or "halted".

**ReceiverChannel.** `application`, `launching` and `onLaunched` are the members
of the class; `conn` and `media` say on which transport an application has its
channels; `registry` is the map. `Initialize` is what an application does with the
factory: two channels are registered, CONNECT goes to the transport and a GET_STATUS
is sent. Both directions of the network are queues. A status is the transport of the
first application in it. A message is handled by one of `OnReceiverStatus` (id 0),
`OnLaunchResponse`, `OnJoinRefused`, `OnJoinAccepted`, `OnInitialized` (the callbacks of
the entry it finds), `OnUnhandledMessage`, `OnInvalidRequest`, `OnClose` and
`OnUnrecognizedAddress`; the last four leave `status` "unhandled", "refused", "closed" or
"unrecognized" if they throw. An entry is found by the id alone, so the answer to another
client (`OthersAreAnswered`) may take one of ours. `tag` and `taken` are history: which
request an answer answers, whatever its id, and the ids whose entry was so taken.

**Registry.** A key is an address as `RegisterChannel` stores it. Delivering one
message takes several steps, because each channel may call the user in between:
`at` is the iterator, `calling` says that the channel it points to is calling the
user, `valid` that it still points to an element. A channel that has called the user may
still report a directed message as not handled, which throws (`Return`). `reached` and
`present` are history.

**Connection and Client.** `phase` is how far `AsyncConnect` has come; `part`,
`buffer` and `remaining` are the read that is under way; `incoming` are the bytes
under way, `sent` and `delivered` whole packets. `OnLength` and `OnData` are the two
handlers of a completed read, `EndsAfter` that of a read that fails after some
bytes. `wire` is what the receiver hears, `writing` counts the writes that have not
completed. `Client` makes actions of these steps: `OnConnected` is the handshake's
handler with the CONNECT, the start of the heartbeat and the user's callback, all in
one; `OnPacket` is `OnData` with what the channel does with the packet. `program` says
which of the sample's two programs runs, or one that does what it likes; `told` is
what its callback has heard; `waiting` is the retry timer of a request that could
not be sent, which keeps `run()` from returning; `armed` is the receive timer, whose
seconds are `Heartbeat`'s. `Return` and an exception end `run()`: `status`.

**CastMessage.** A message is the set of fields that are there (`has`, the bits), the
strings it owns (`own`; any other is the shared empty one), its values (a text is a
number, 0 the empty one) and its unknown fields. `live` and `held` count the strings
allocated and those released to the caller. There is one packet, `wire`, a sequence of
tokens, one per field. `Save` and `Serialize` write it, `PeerAdds`, `PeerOmits` and
`PeerReorders` make of it what another sender might have sent, and
`ParseFromCodedStream`, `ParseField` and `EndParse` read it token by token. `origin` is
history: the struct that was saved, as long as the packet says no more than it. Every
accessor of a field is an action named for the field; those of the five strings,
generated from one template, are `StringAccess`. The library itself uses a message once,
to save or to load; the model lets any calls come between, which the class allows. The
bytes a token has, and so the length a packet is sent with, which is that of the buffer
it was written to, are not modelled.

**JsonMessage.** An object is a function from names, an array a sequence. `Member`
is a reference that `operator[]` returns before anything is assigned to it,
`Assign` the assignment; `CanReadMembers` says that reading does not throw.

**MediaChannel.** `lastStatus` is the session of `_last_status`, 0 if it has none, and
`requests` the map of the media channel. Play, Pause, Seek and `SetTrackInfo` do the same
to the session, and are "command"; a command is sent whether there is a session or not. A
message is handled by `OnInvalidRequest` (throws before anything is looked up),
`OnBroadcast` (id 0), `OnAnswer` (an entry is found, whomever the message is for) or
`OnUnhandledMessage`. An answer has a status, or a reason ("failure"), or neither
("blank"): looking for the reason has inserted an empty one, so a blank answer is a
success, and `Load` takes over the empty status of the response. Four variables are
history: `calm`, that the user has always waited for his callbacks and nothing was sent
twice or answered by another client's answer; `crossed`, that the session has changed
by itself since the last call, or had without the channel knowing; `misled`, that the
status is that of a blank answer; `taken`, the ids whose entry another client's answer
took.

**MediaMessages.** `CanRead` and `CanWrite` collect what throws in media, `CanReadItem` in
an item of the queue, and `Fault` says at which part of a status reading it throws, in the
order of the code; that is what `status` is then. `asked` and `loaded` are history. Any
client may have put items into the queue of the receiver that plays the user's media, or
set how it repeats (`StatusParts`).

**ReceiverStatus.** `last` is `_last_full_status`; `device` is the receiver. `timers` are
the attempts whose timer is running or whose handler is queued: the answer to an older
attempt ends no timer, so that a request is sent again, and its callback run again, after
it was answered. `had` is history: the volumes the receiver had since it first served a
call.

## 3. Runs

| Run | Shows |
|---|---|
| `request_safety` | `SingleTimer`, `RetryNeverLost`, `AnswerFindsEntry`, `CompletedOnce`, and that `AtLeastOnce` is implemented, with every fault |
| `request_liveness` | a receiver that ignores or delays answers: `RequestsComplete`, `RetriesStop`, `AnswersNeverHalt` |
| `heartbeat_safety` | `TimeoutOnlyOnStall`, `PingsOnTime`, `NoCleanRestart` |
| `receiver_safety` | `RegistryIsExact`, `AnswersFindTheirRequest`, `LaunchCallbackIsOwn`, `OnlyCurrentIsInitializing`, and `HaltsForCause`: one Launch alone throws only after a refusal, a CLOSE, or the loss of an entry to another client's answer |
| `receiver_relaunch` | *violation*: an address is registered twice |
| `receiver_report` | *violation*: a launch that fails is never reported |
| `registry_safety` | `LookupsAreExact`, `BroadcastReachesAll` |
| `client` | `FramingIsExact`, `ConnectComesFirst`, `PacketsArrive`, `PingsAreAnswered`, `CloseEndsRun`, `FailureEndsRun` |
| `cast_message` | `AbsentIsDefault`, `StringsAreOwned`, `LoadIsLastValid`, `LoadedIsSaved` |
| `media_safety` | `StatusIsCurrent` but for a LOAD answered with nothing, `AnswersAreExpected` but for entries that were taken; `CommandsFitTheSession` for a user who waits for his callbacks, but for changes that cross his command |
| `media_messages` | `OwnMediaComeBack`, `OnlyTextIsSentAsText`, and `OwnMediaAreReadable` for the media in a status, not for the rest of it |
| `receiver_status` | `LastStatusIsCurrent`, `VolumeIsConfirmed` |

The runs of requests, applications and media also check the type invariant; those of
`Heartbeat` and `Registry` are proved with the rest. `AbortOnlyByUser` is proved too, and
no run repeats it.

### Bounds, and why they are enough

* `RequestChannel`: two channels, two requests, four ids (five for liveness). Two
  channels tell a destroyed one from one alive, two requests tell chains apart,
  and four ids make a chain of three with another request between. `Unreliable`
  bounds the ids that may time out; with `Unreliable < MaxId` the last attempts
  are answered, so that the bound on ids is not what stops the retries.
* `Heartbeat`: the intervals of the code, and handlers up to 27 seconds late, two
  more than the 25 from which the receive timer can expire.
* `ReceiverChannel`: two applications, three calls, two transports, four ids, two
  messages under way (and the one or two that the next step adds): a relaunch while
  the answer to the first launch and a broadcast are both under way. One answer to
  another client, which may carry an id of ours.
* `Registry`: two names of each kind, not adjacent in the order, so that a
  comparison that returns differences is told from one that returns -1.
* `Client`: lengths of two digits of base 2, bodies of one and three bytes, of which one
  is the PING, two packets; a read can end early twice, so once in a length and once
  in its data. Three messages: CONNECT, a request or PONG, and one after it.
* `CastMessage`: two messages, as `MergeFrom` and `Swap` need; any two calls or changes
  by the peer in any place between saving, parsing, writing again and parsing again.
  Texts are empty or not. A peer can add a field again, one of an unknown value, one of an
  unknown number, a broken one and the end of a group.
* `MediaChannel`: two sessions, two calls besides the first status, three ids: each call
  has one, or a call has one and a retry the other. Two broadcasts of the receiver's own
  or for other clients, with id 0 or one of ours.
* `MediaMessages`: two tracks of two types, one image, one item in the queue, all
  combinations.
* `ReceiverStatus`: three levels, of which neighbours count as equal, two calls of two
  attempts each, two changes that nobody asked for; lists of up to two applications.

In all modules messages under way, ids and calls are bounded by guards on named
constants. Runs have `CHECK_DEADLOCK FALSE`: the system may come to rest, when the
user does nothing more, when it is closed, and when an exception has left `run()`.

### Fairness

`run()` calls every handler that is ready, and a timer that is armed expires:
`RequestChannel` has weak fairness of each timer and handler, `Heartbeat` of time
and the handlers, `Client` of the handler of a read or write that has ended and of the
return of `run()` when nothing is left to wait for. It has none of the handshake: a
receiver that accepts a connection and says nothing keeps `run()` waiting for ever,
since `AsyncConnect` has no timeout, and `FailureEndsRun` exempts that. `ReceiverChannel`
has weak fairness of the messages that arrive and of the receiver that serves
requests, so that `receiver_report` is not a receiver that is silent. A message
that the receiver answers arrives, since the connection is TCP: weak fairness of
the answer to each id; for ids up to `Unreliable` the receiver may drop the
message first, which is not fair. The user, other clients and failures are never
under fairness.

### Findings

* `receiver_relaunch`: `default_media_player.h:31` leaves the connection channel
  of the application that is replaced registered.
* `receiver_report`: nobody looks at the answer to LAUNCH.

The models also have the following, which no run is devoted to:

* `heartbeat_channel.cpp:22` rearms the receive timer with each PING, so that a
  receiver that has gone silent is not noticed: the theorem `SilenceIsNotNoticed`.
* `receiver_channel.cpp:91` matches ids whatever the destination, so a broadcast
  that `channel.cpp:40` calls harmless can complete our request and make our own
  answer throw (`OnUnhandledMessage` in `RequestChannel`, `ReceiverChannel` and
  `MediaChannel`).
* `receiver_channel.h:61` is never initialised: a Join followed by any status
  broadcast initialises the application twice (`status = "duplicate"` in
  `ReceiverChannel`).
* INVALID_REQUEST throws before anyone can be told, also if it is broadcast for another
  client (`OnInvalidRequest`).
* An answer with neither status nor reason is reported as a success, and after a LOAD
  makes the status one without a session: `receiver_channel.cpp:57` looks for the reason
  of every message, and `json_message.cpp:181` inserts it, so that `media_messages.cpp:289`
  finds an empty one (`OnAnswer` of `MediaChannel`).
* A CLOSE from the application throws: a connection channel handles no message
  (`OnClose` of `ReceiverChannel`).
* A status throws if the player is LOADING, the queue repeats or an item lacks a member
  (`media_messages.cpp:229,236,241`), whoever loaded (`Fault` of `MediaMessages`).
* Program B joins whether it is connected or not: the request has no connection to go
  out on, and its write ends `run()` with an exception (`Client`).
* `media_messages.cpp:170` writes the metadata beside the media, and all images
  to one object, so that neither comes back (`ToMessage`, `WriteImages`).

## 4. Proofs

Every invariant that a run checks is a theorem too. The theorems hold for every value of
the constants that the modules' assumptions allow; those ask no more than that bounds are
numbers, that `None` is none of the values it is told from, that there are finitely many
messages in memory, that the length of a packet fits the header, and, for the heartbeat,
that the send interval is shorter than the timeout.

Induction over data needs some care, since the library's theorems of induction take a
predicate as a parameter, which the provers cannot instantiate. Where it is needed, in
ClientProofs, it rests on `WFMin`: a set of natural numbers that is not empty has a least
element. `Induction` says it for the set of numbers where a fact holds; `Recursion` uses
it to show that there is a function that satisfies a recursive definition, without which
nothing is known of the one that `CHOOSE` picks.

* **RequestChannelProofs.** `IInv` says which ids exist and belong to whom
  (`Allocated`, `Issued`), that the map holds exactly the ids without answer on
  living channels (`PendingIds`), how the timers stand along the retries of a
  request (`RetryChain`), and that an answered id is owed nothing
  (`AnsweredOnce`). `AnswerFindsEntry` needs `PendingIds`; `SingleTimer` is only
  inductive with `RetryNeverLost` and `CancelledWhenAnswered`, since a retry makes
  an older id of what was the newest. `SlowAnswersNeverHalt` assumes a receiver that only
  ignores messages: then no channel is destroyed and nobody else's broadcast takes an
  entry (`Undisturbed`), so that every answer finds its own. `ImplementsAtLeastOnce` has one step per
  action: `Attempt` maps to an attempt of the promise, `OnResponse` to an answer,
  `Destroy` to abandoning, all others to a step that changes which requests are
  open, or to nothing.
* **HeartbeatProofs.** `Margin` relates the timers: while the send timer waits, the
  receive timer is at least `R - S` seconds behind it, and while its handler is
  queued it has lost at most what the handler is late. From this follow
  `TimeoutOnlyOnStall` and `PingsOnTime`, and also `SilenceIsNotNoticed`, the
  finding for all intervals: if handlers are less than `R - S` seconds late, the
  receive timer closes nothing. `ChainsNeverEnd` counts the chains of PINGs: as many as
  calls of `Start`, until an exception.
* **ReceiverChannelProofs.** `Initializing` says that who waits for a media
  channel's answer is the current application, at its own channel; with
  `RegistryIsExact` this is what makes it impossible that a stale answer is taken
  for a new one. `TagsAreIds` carries the single counter through both queues, for
  `AnswersFindTheirRequest`. `LaunchAloneHaltsForCause` needs `Quiet`: as long as one
  Launch is the only call, no entry has been taken and nothing was refused or closed
  (`Spared`), the application's two channels are the only ones, every request and answer
  of ours under way has its entry, and no two have one id (`Expected`), and a CLOSE is for
  a transport that CONNECT was sent to (`Opened`), so that it finds its channel. A retry
  adds an entry and takes none away, and an answer takes away its own only: so every
  answer finds its entry whatever was retried, stopped or broadcast in between.
* **RegistryProofs.** `LessIsStrictOrder` is the lemma on `Address::operator<`:
  it is irreflexive, transitive and total on keys. `Progress` says of a delivery
  that the channels before the iterator have had the message and those behind it
  have not, whatever is registered and destroyed on either side.
* **MediaChannelProofs.** `Entries` says that each id is in one place: in a request under
  way, in an answer under way, or in the map alone, from which only the answer, or a
  broadcast for another client, takes it (`Expected`). `Current` says that the last report
  under way is of the receiver's session and that, if none is, the channel knows the
  session, or is about to ask, or was misled. Both are about all positions of two queues,
  which the lemmas on `Tail` and `Append` carry through a step. `CommandsFit` needs
  `Waiting`: of a user who has waited at most one request is under way, and what he has
  been told of is not. When he makes a call nothing is under way to the receiver, so the
  channel knows the session or none unless a report of another is still to come
  (`NoNews`), which `crossed` takes note of; only changes that nobody asked for come
  before the receiver takes the command.
* **MessagesProofs** holds the theorems of both modules about what is read from a status.
  Of `MediaMessages`: the message is what the user asked for and what is played is
  what he loaded; what another client plays is `Marked`, what the sender knows
  `Loadable`. `WrittenMedia` and `TracksComeBack` say that reading undoes writing.
  Of `ReceiverStatus` (its specification has names of its own, `StatusSpec` and so on, so
  that one module can extend both): `LastStatusIsCurrent` speaks of an empty queue and is
  not inductive. `BecomesCurrent` is: the last message under way that the sender will keep
  has the receiver's status, and if there is none, the sender has kept it already, but for
  the input and the list of applications (`Reflects`). `KeptIsLast` and `KeptInTail` carry
  it through `Append` and `Tail`. It holds because the receiver broadcasts a change before
  it answers: an answer that is not kept comes after a broadcast that is. `VolumeIsConfirmed` needs
  `AnswersAreRecent`: an answer under way has a volume the receiver has had since it first
  served the call.
* **CastMessageProofs.** One lemma for each operation of the class: it leaves a message
  `Proper`, so that a field whose bit is not set shows its default, although `Clear`
  and `ClearField` empty only some of the members. `ClearedIsFresh` then gives
  `ParsingStartsEmpty`. `EveryStringHasAnOwner` counts: replacing one message changes the
  number of owners by what that message owns more or less (`ReplacingCounts`), and each
  operation allocates and deletes as many (`GainingKeeps`, `LosingKeeps`, `OwningKeeps`).
  `LoadingTakesTheLastValid` needs `Parsing`: after each token the message holds the last
  valid value of each field among those read and the tokens that are not valid or not
  known, in order. `SavedComesBack` follows from it with `FromSaved`: whatever a
  peer reorders or adds, each field of the struct is in the packet with its value and no
  other (`Says`).
* **ClientProofs.** Nothing is sent before the connection is ready, and what is sent when
  it gets ready begins with CONNECT (`IInv`); `AsyncWrite` only adds to that.
  `PacketsAreFramed` needs that what has not been delivered is always a stream of whole
  packets: `Framed` says that what is in the buffer and then what is under way is the data
  of the next packet, if its length has been read, and the packets behind it, header and
  data (`Unread`), and `Asks` that the read under way asks for what is missing of that
  length or of that data, so that a read that ends early (`EndsAfter`) changes neither. `LengthsAreRead` is the lemma
  on the conversions: the digits the length is written in are read as that length, for any
  base and size of the header. `StreamGrows` says that a packet that is sent comes after
  all others. `ConnectionIsAlwaysRead` adds `Listening`: while `run()` runs, a connection
  has a read under way, which is the one that fails when it is closed or lost.

Only model-checked are the seven temporal properties: `RequestsComplete`, `RetriesStop`,
`NoCleanRestart`, `PacketsArrive`, `PingsAreAnswered`, `CloseEndsRun` and
`FailureEndsRun`. They hold under fairness, and liveness is out of the prover's reach, as
is ENABLED; what they need besides fairness is proved of three: `RetriesGoOn` of
`RequestsComplete`, `ChainsNeverEnd` of `NoCleanRestart`, `ConnectionIsAlwaysRead` of
`CloseEndsRun`. The two expected violations are counterexamples and have no theorem.

## 5. Not modelled, and why

* The other messages of the generated class file, of device authentication: nothing uses
  them. Of the protobuf library only what the generated class asks of it: varints,
  fields that are skipped, the empty string.
* rapidjson: parsing and printing. Messages arrive as values; messages without
  the members every message has are not sent by a receiver.
* TLS and TCP themselves: the model starts from what asio promises of a stream.
* Numbers, times and texts that the library passes on without looking at them.
* `utils` and `throw_on_error`: they turn a code into an exception, which is the
  `status` of each module.
* Of the sample, the class that reads commands from a terminal: `main` never makes one.
* The binaries of OpenSSL and protobuf.

## 6. Plan

Written so far, in this order, the core first: `RequestChannel` with `AtLeastOnce`,
`Heartbeat`, `ReceiverChannel`, `Registry`, `Connection`, `MediaChannel`,
`MediaMessages`, `ReceiverStatus`, `CastMessage`, `Client`, `JsonMessage`; proofs of every
safety property that a run checks.

To come:

1. An abstract `Player` (what a user of `DefaultMediaPlayer` is promised), which
   `ReceiverChannel` with `MediaChannel` should implement under one Launch.
2. The teardown of the client's four objects, and applications that outlive it.
3. The safety half of the other temporal properties: that the steps they wait for remain
   possible until they are taken.
