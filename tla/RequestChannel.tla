--------------------------- MODULE RequestChannel ---------------------------
(***************************************************************************)
(* Numbered requests with a retry timer: RequestChannel and its            *)
(* ChannelRequest (receiver_channel.h, receiver_channel.cpp), the base of  *)
(* the receiver and media channels.                                        *)
(*                                                                         *)
(* Everything runs on the one thread that calls io_service::run(), so each *)
(* handler is one action.  What interleaves is the order in which handlers *)
(* run: a retry timer that has expired has its handler queued, and an      *)
(* answer may be handled before that handler runs.  User code called back  *)
(* by a handler (a callback that issues the next request or drops a        *)
(* channel) acts after the map entry is erased and the timer cancelled, so *)
(* it is the same as user code that acts just after the handler.           *)
(***************************************************************************)
EXTENDS Naturals

CONSTANTS
  Channels,     \* RequestChannel objects
  Calls,        \* requests issued by user code, each at most once
  None,         \* no channel, no request
  MaxId,        \* bound on _request_id
  Unreliable,   \* the receiver may ignore, or answer late, ids up to this one
  Env           \* what the environment may do besides answering

Ids == 1..MaxId

Faults == {"silent", "foreign", "invalid", "unexpected", "destroy"}

ASSUME ConstantsAssumption ==
  /\ None \notin Channels \cup Calls
  /\ MaxId \in Nat
  /\ Unreliable \in Nat
  /\ Env \subseteq Faults

VARIABLES
  counter,      \* RequestChannel::_request_id, one for all channels
  home,         \* home[c]: the channel request c was issued on
  call,         \* call[i]: the request whose message and callback i carries
  pending,      \* keys of the channels' _request_id_to_request
  timer,        \* timer[i]: where the retry timer of i stands
  unanswered,   \* sent ids that the receiver may still answer
  completedBy,  \* completedBy[i]: whose message ran the callback of i
  alive,        \* channels that have not been destroyed
  status        \* "halted": an exception left run(); "undefined": dangling this

vars == <<counter, home, call, pending, timer, unanswered, completedBy, alive, status>>

\* "fired": the handler is queued with success, and cancel() cannot stop it;
\* "aborted": it is queued with operation_aborted; "done": it has run.
TimerStates == {"unset", "armed", "fired", "aborted", "done"}

\* The handler of the timer may still send the request again.
Live == {"armed", "fired"}

HomeOf(i) == home[call[i]]

TypeOK ==
  /\ counter \in 0..MaxId
  /\ home \in [Calls -> Channels \cup {None}]
  /\ call \in [Ids -> Calls \cup {None}]
  /\ pending \subseteq Ids
  /\ timer \in [Ids -> TimerStates]
  /\ unanswered \subseteq Ids
  /\ completedBy \in [Ids -> {"nobody", "receiver", "foreign"}]
  /\ alive \subseteq Channels
  /\ status \in {"running", "halted", "undefined"}

-----------------------------------------------------------------------------
(* User code *)

Init ==
  /\ counter = 0
  /\ home = [c \in Calls |-> None]
  /\ call = [i \in Ids |-> None]
  /\ pending = {}
  /\ timer = [i \in Ids |-> "unset"]
  /\ unanswered = {}
  /\ completedBy = [i \in Ids |-> "nobody"]
  /\ alive = Channels
  /\ status = "running"

\* Mutated Attempt: the id is taken before the counter is incremented.
AttemptPostIncrement(c, timers) ==
  /\ counter < MaxId
  /\ counter' = counter + 1
  /\ call' = [call EXCEPT ![counter] = c]
  /\ timer' = [timers EXCEPT ![counter] = "armed"]
  /\ pending' = pending \cup {counter}
  /\ unanswered' = unanswered \cup {counter}

\* RequestChannel::Request, for the first time or for a retry: a new id, its
\* timer armed, its map entry stored, the message sent.
Attempt(c, timers) ==
  /\ counter < MaxId
  /\ counter' = counter + 1
  /\ call' = [call EXCEPT ![counter + 1] = c]
  /\ timer' = [timers EXCEPT ![counter + 1] = "armed"]
  /\ pending' = pending \cup {counter + 1}
  /\ unanswered' = unanswered \cup {counter + 1}

Request(ch, c) ==
  /\ status = "running"
  /\ ch \in alive
  /\ home[c] = None
  /\ home' = [home EXCEPT ![c] = ch]
  /\ Attempt(c, timer)
  /\ UNCHANGED <<completedBy, alive, status>>

\* The last owner drops the channel: the map is destroyed with its timers,
\* and destroying a timer cancels its wait.
Destroy(ch) ==
  /\ status = "running"
  /\ "destroy" \in Env
  /\ ch \in alive
  /\ alive' = alive \ {ch}
  /\ pending' = {i \in pending : HomeOf(i) # ch}
  /\ timer' = [i \in Ids |-> IF timer[i] = "armed" /\ HomeOf(i) = ch THEN "aborted" ELSE timer[i]]
  /\ UNCHANGED <<counter, home, call, unanswered, completedBy, status>>

-----------------------------------------------------------------------------
(* The retry timer *)

\* The deadline passes: asio queues the handler with success.
Expire(i) ==
  /\ status = "running"
  /\ i <= Unreliable
  /\ timer[i] = "armed"
  /\ timer' = [timer EXCEPT ![i] = "fired"]
  /\ UNCHANGED <<counter, home, call, pending, unanswered, completedBy, alive, status>>

\* Mutated AbortedHandler: the handler does not look at the error code.
AbortedHandlerRetries(i) ==
  /\ status = "running"
  /\ timer[i] = "aborted"
  /\ HomeOf(i) \in alive
  /\ Attempt(call[i], [timer EXCEPT ![i] = "done"])
  /\ UNCHANGED <<home, completedBy, alive, status>>

\* The handler of a cancelled timer returns at once.
AbortedHandler(i) ==
  /\ status = "running"
  /\ timer[i] = "aborted"
  /\ timer' = [timer EXCEPT ![i] = "done"]
  /\ UNCHANGED <<counter, home, call, pending, unanswered, completedBy, alive, status>>

\* Mutated RetryHandler: the timer is periodic, besides that of the new id.
RetryHandlerPeriodic(i) ==
  /\ status = "running"
  /\ timer[i] = "fired"
  /\ HomeOf(i) \in alive
  /\ Attempt(call[i], [timer EXCEPT ![i] = "armed"])
  /\ UNCHANGED <<home, completedBy, alive, status>>

\* Mutated RetryHandler: a request is retried once, without a new timer.
RetryHandlerOnce(i) ==
  /\ status = "running"
  /\ timer[i] = "fired"
  /\ HomeOf(i) \in alive
  /\ counter < MaxId
  /\ counter' = counter + 1
  /\ call' = [call EXCEPT ![counter + 1] = call[i]]
  /\ timer' = [timer EXCEPT ![i] = "done", ![counter + 1] = "done"]
  /\ pending' = pending \cup {counter + 1}
  /\ unanswered' = unanswered \cup {counter + 1}
  /\ UNCHANGED <<home, completedBy, alive, status>>

\* Mutated RetryHandler: the entry of the superseded id is erased.
RetryHandlerErases(i) ==
  /\ status = "running"
  /\ timer[i] = "fired"
  /\ HomeOf(i) \in alive
  /\ counter < MaxId
  /\ counter' = counter + 1
  /\ call' = [call EXCEPT ![counter + 1] = call[i]]
  /\ timer' = [timer EXCEPT ![i] = "done", ![counter + 1] = "armed"]
  /\ pending' = (pending \ {i}) \cup {counter + 1}
  /\ unanswered' = unanswered \cup {counter + 1}
  /\ UNCHANGED <<home, completedBy, alive, status>>

\* The handler of an expired timer sends the same message with the same
\* callback under a new id.  The entry of the old id stays in the map.
RetryHandler(i) ==
  /\ status = "running"
  /\ timer[i] = "fired"
  /\ HomeOf(i) \in alive
  /\ Attempt(call[i], [timer EXCEPT ![i] = "done"])
  /\ UNCHANGED <<home, completedBy, alive, status>>

\* The same handler when the channel was destroyed after the timer expired:
\* it calls Request on a destroyed object.
DanglingHandler(i) ==
  /\ status = "running"
  /\ timer[i] = "fired"
  /\ HomeOf(i) \notin alive
  /\ timer' = [timer EXCEPT ![i] = "done"]
  /\ status' = "undefined"
  /\ UNCHANGED <<counter, home, call, pending, unanswered, completedBy, alive>>

-----------------------------------------------------------------------------
(* Messages from the receiver *)

\* A message that carries id i: either the answer to our request i, directed
\* to us, or a broadcast ("*") that answers another client's request i.
Received(i, dest) ==
  /\ status = "running"
  /\ \/ dest = "sender" /\ i \in unanswered /\ unanswered' = unanswered \ {i}
     \/ dest = "*" /\ "foreign" \in Env /\ UNCHANGED unanswered

\* Mutated OnResponse: the timer is not cancelled.
OnResponseKeepsTimer(i, dest, kind) ==
  /\ Received(i, dest)
  /\ i \in pending
  /\ kind = "RESPONSE"
  /\ pending' = pending \ {i}
  /\ completedBy' = [completedBy EXCEPT ![i] = IF dest = "*" THEN "foreign" ELSE "receiver"]
  /\ UNCHANGED <<counter, home, call, timer, alive, status>>

\* Mutated OnResponse: the entry is not erased.
OnResponseKeepsEntry(i, dest, kind) ==
  /\ Received(i, dest)
  /\ i \in pending
  /\ kind = "RESPONSE"
  /\ timer' = [timer EXCEPT ![i] = IF @ = "armed" THEN "aborted" ELSE @]
  /\ completedBy' = [completedBy EXCEPT ![i] = IF dest = "*" THEN "foreign" ELSE "receiver"]
  /\ UNCHANGED <<counter, home, call, pending, alive, status>>

\* RequestChannel::OnResponse on a known id: the entry is erased, the timer
\* cancelled, the callback run.  A callback that parses the message throws on
\* one of an unexpected type.
OnResponse(i, dest, kind) ==
  /\ Received(i, dest)
  /\ i \in pending
  /\ kind = "RESPONSE" \/ (kind = "UNEXPECTED" /\ "unexpected" \in Env)
  /\ pending' = pending \ {i}
  /\ timer' = [timer EXCEPT ![i] = IF @ = "armed" THEN "aborted" ELSE @]
  /\ completedBy' = [completedBy EXCEPT ![i] = IF dest = "*" THEN "foreign" ELSE "receiver"]
  /\ status' = IF kind = "UNEXPECTED" THEN "halted" ELSE status
  /\ UNCHANGED <<counter, home, call, alive>>

\* ... and on an unknown id: OnUnhandledMessage throws unless the message is
\* a broadcast.
OnUnhandledMessage(i, dest) ==
  /\ Received(i, dest)
  /\ i \notin pending
  /\ dest = "sender" => HomeOf(i) \in alive
  /\ status' = IF dest = "*" THEN status ELSE "halted"
  /\ UNCHANGED <<counter, home, call, pending, timer, completedBy, alive>>

\* RequestChannel::OnMessage throws on INVALID_REQUEST before it looks the id
\* up, so the entry and its timer stay; it throws on a broadcast too.
OnInvalidRequest(i, dest) ==
  /\ "invalid" \in Env
  /\ Received(i, dest)
  /\ alive # {}
  /\ dest = "sender" => HomeOf(i) \in alive
  /\ status' = "halted"
  /\ UNCHANGED <<counter, home, call, pending, timer, completedBy, alive>>

\* The answer to a request of a destroyed channel finds no channel, and
\* ChromecastConnection::OnUnrecognizedAddress throws.
OnUnrecognizedAddress(i) ==
  /\ Received(i, "sender")
  /\ HomeOf(i) \notin alive
  /\ status' = "halted"
  /\ UNCHANGED <<counter, home, call, pending, timer, completedBy, alive>>

\* The receiver never answers this message.
StaySilent(i) ==
  /\ "silent" \in Env
  /\ status = "running"
  /\ i \in unanswered
  /\ i <= Unreliable
  /\ unanswered' = unanswered \ {i}
  /\ UNCHANGED <<counter, home, call, pending, timer, completedBy, alive, status>>

-----------------------------------------------------------------------------

OnMessage(i) ==
  \/ \E dest \in {"sender", "*"}, kind \in {"RESPONSE", "UNEXPECTED"} : OnResponse(i, dest, kind)
  \/ \E dest \in {"sender", "*"} : OnUnhandledMessage(i, dest) \/ OnInvalidRequest(i, dest)
  \/ OnUnrecognizedAddress(i)

Handler(i) == AbortedHandler(i) \/ RetryHandler(i) \/ DanglingHandler(i)

Next ==
  \/ \E ch \in Channels, c \in Calls : Request(ch, c)
  \/ \E ch \in Channels : Destroy(ch)
  \/ \E i \in Ids : Expire(i) \/ Handler(i) \/ OnMessage(i) \/ StaySilent(i)

Spec == Init /\ [][Next]_vars

\* run() keeps running handlers that are ready, an armed deadline passes or
\* is cancelled, and a message the receiver does answer arrives.
Fairness ==
  \A i \in Ids :
    /\ WF_vars(Expire(i))
    /\ WF_vars(Handler(i))
    /\ WF_vars(\E kind \in {"RESPONSE", "UNEXPECTED"} : OnResponse(i, "sender", kind))

FairSpec == Spec /\ Fairness

-----------------------------------------------------------------------------
(* Properties *)

\* i is the newest id that request c was sent under.
Newest(c, i) == call[i] = c /\ \A j \in Ids : call[j] = c => j <= i

Completed(c) == \E i \in Ids : call[i] = c /\ completedBy[i] # "nobody"

\* A retry never turns into a storm: however late the answers come, the timers
\* of all superseded ids of a request have run, so that only its newest id can
\* still lead to another send.
SingleTimer == \A i \in Ids, c \in Calls : call[i] = c /\ timer[i] # "done" => Newest(c, i)

\* A request whose newest id is unanswered always has a timer that will send
\* it again: answers to its older ids do not stop the retries.
RetryNeverLost == \A c \in Calls, i \in pending : Newest(c, i) => timer[i] \in Live

\* Once an id has been answered, or its channel destroyed, its timer does not
\* expire: the only retry that can still follow is one already queued.  (The proof of
\* SingleTimer needs it.)
CancelledWhenAnswered == \A i \in Ids : timer[i] = "armed" => i \in pending

\* An answer the receiver still owes finds its entry in the map however many
\* retries have superseded its id: it is handled and does not throw, unless
\* another client's broadcast took the entry.
AnswerFindsEntry ==
  \A i \in unanswered : HomeOf(i) \in alive /\ completedBy[i] # "foreign" => i \in pending

\* The callback runs at most once for each id, whoever's message ran it.
CompletedOnce ==
  [][\A i \in Ids : completedBy[i] # "nobody" => /\ completedBy'[i] = completedBy[i]
                                                /\ i \notin pending']_vars

\* The abstract state: ids of each request, those answered, the requests with a
\* timer that will send them again, and those whose channel is destroyed.
Attempts == [c \in Calls |-> {i \in Ids : call[i] = c}]
Answered == [c \in Calls |-> {i \in Ids : call[i] = c /\ completedBy[i] # "nobody"}]
Open == {c \in Calls : \E i \in Ids : call[i] = c /\ timer[i] \in Live}
Abandoned == {c \in Calls : home[c] # None /\ home[c] \notin alive}

Promise == INSTANCE AtLeastOnce WITH
  attempts <- Attempts, answered <- Answered, open <- Open, abandoned <- Abandoned

\* What the issuer of a request is promised: it is sent again until its newest
\* id is answered or its channel destroyed.
KeepsPromise == Promise!PSpec

\* A receiver that ignores some messages and answers others late does not make
\* the sender throw.  (The broadcast answers to other clients' commands, of which
\* channel.cpp:40 says the same, can.)
AnswersNeverHalt == status # "halted"

\* Every request is completed although the receiver ignores some messages.
RequestsComplete == \A c \in Calls : home[c] # None ~> Completed(c)

\* The retries of all requests come to an end once the receiver answers.
RetriesStop == <>[](\A i \in Ids : timer[i] \notin Live)
=============================================================================
