----------------------------- MODULE MediaChannel -----------------------------
(***************************************************************************)
(* The media channel of an application (media_channel.cpp): loading media, *)
(* commands to the session it began, and the status the receiver reports   *)
(* (media_messages.cpp).                                                   *)
(*                                                                         *)
(* Of a status the session is kept, 0 if the list of statuses is empty.    *)
(* Messages are delivered in order.  The application has just been         *)
(* initialised: GET_STATUS is under way.                                   *)
(***************************************************************************)
EXTENDS Naturals, Sequences

CONSTANTS
  MaxSession,  \* bound on the sessions of the receiver
  MaxId,       \* bound on request ids
  MaxOps,      \* bound on the calls of the user
  MaxOthers,   \* bound on what the receiver broadcasts by itself or for others
  OtherIds,    \* ids of other clients, and 0 for what none of them asked for
  Env          \* what happens besides calls and answers

Events == {"retry", "otherLoads", "ends", "refuses", "status", "otherRefused"}
Commands == {"command", "stop"}

ASSUME ConstantsAssumption ==
  /\ MaxSession \in Nat /\ MaxId \in Nat \ {0} /\ MaxOps \in Nat /\ MaxOthers \in Nat
  /\ OtherIds \subseteq 0..MaxId
  /\ Env \subseteq Events

VARIABLES
  lastStatus,  \* _last_status.session_id
  requests,    \* _request_id_to_request
  lastId,      \* the id of the last request
  ops,         \* calls of the user so far; call 0 is the GET_STATUS of Initialize
  told,        \* calls whose callback has been run
  toReceiver, toSender,
  session,     \* the receiver's session, or 0
  sessions,    \* sessions it has begun
  others,      \* broadcasts of its own or for other clients
  status       \* of run(): what exception left it

\* What has happened (history).
VARIABLES
  calm,        \* the user always waited for his answers, and nothing was sent twice
  crossed,     \* the session changed by itself, which the last call was made without knowing
  misled,      \* the status was last set by an answer that has none
  taken        \* ids whose entry was taken by a broadcast for another client

history == <<calm, crossed, misled, taken>>
channel == <<lastStatus, requests, lastId, ops, told>>
receiver == <<session, sessions, others>>
vars == <<channel, toReceiver, toSender, receiver, status, history>>

Sessions == 0..MaxSession
Requests == [id : 1..MaxId, kind : {"load", "getStatus"} \cup Commands, session : Sessions, op : 0..MaxOps, armed : BOOLEAN]

\* A "failure" has a reason and no status, a "blank" answer has neither.
Refusals == {"INVALID_REQUEST", "failure", "blank"}
Messages == [id : 0..MaxId, to : {"sender", "*"}, type : {"MEDIA_STATUS"} \cup Refusals, session : Sessions]

TypeOK ==
  /\ lastStatus \in Sessions
  /\ requests \subseteq Requests
  /\ lastId \in 1..MaxId
  /\ ops \in 0..MaxOps
  /\ told \subseteq 0..MaxOps
  /\ toReceiver \in Seq(Requests)
  /\ toSender \in Seq(Messages)
  /\ session \in Sessions /\ sessions \in Sessions /\ others \in 0..MaxOthers
  /\ status \in {"running", "refused", "unhandled"}
  /\ calm \in BOOLEAN /\ crossed \in BOOLEAN /\ misled \in BOOLEAN
  /\ taken \subseteq 1..MaxId

InitRest ==
  /\ lastStatus = 0
  /\ lastId = 1
  /\ ops = 0 /\ told = {}
  /\ toSender = <<>>
  /\ session \in Sessions /\ session <= 1 /\ sessions = session /\ others = 0
  /\ status = "running"
  /\ calm = TRUE /\ crossed = FALSE /\ misled = FALSE /\ taken = {}

\* Mutated Init: the id is taken before it is incremented.
InitPostIncrement ==
  /\ InitRest
  /\ LET q == [id |-> 0, kind |-> "getStatus", session |-> 0, op |-> 0, armed |-> TRUE]
     IN  requests = {q} /\ toReceiver = <<q>>

\* The receiver may be playing when the application is joined.
Init ==
  /\ InitRest
  /\ LET q == [id |-> 1, kind |-> "getStatus", session |-> 0, op |-> 0, armed |-> TRUE]
     IN  requests = {q} /\ toReceiver = <<q>>

-----------------------------------------------------------------------------
(* The user *)

\* RequestChannel::Request; the entry is added to what is left of the map.
Request(left, kind, s, l) ==
  LET q == [id |-> lastId + 1, kind |-> kind, session |-> s, op |-> l, armed |-> TRUE] IN
  /\ lastId < MaxId
  /\ lastId' = lastId + 1
  /\ requests' = left \cup {q}
  /\ toReceiver' = Append(toReceiver, q)

\* A report that is under way will change what the channel knows.
NewsUnderWay ==
  \E k \in 1..Len(toSender) : toSender[k].type = "MEDIA_STATUS" /\ toSender[k].session # lastStatus

\* The user calls an operation of the application.
UserCalls ==
  /\ status = "running"
  /\ ops < MaxOps
  /\ ops' = ops + 1
  /\ calm' = (calm /\ told = 0..ops)
  /\ crossed' = NewsUnderWay
  /\ UNCHANGED <<lastStatus, told, toSender, receiver, status, misled, taken>>

Load == UserCalls /\ Request(requests, "load", 0, ops + 1)

GetStatus == UserCalls /\ Request(requests, "getStatus", 0, ops + 1)

\* Play, Pause, Seek, EDIT_TRACKS_INFO ("command") and Stop: a command to the session
\* last reported, which may be 0.
SessionRequest(kind) == UserCalls /\ Request(requests, kind, lastStatus, ops + 1)

SendsAgain(q, left) ==
  /\ status = "running"
  /\ "retry" \in Env
  /\ q.armed
  /\ Request(left, q.kind, q.session, q.op)
  /\ calm' = FALSE
  /\ UNCHANGED <<lastStatus, ops, told, toSender, receiver, status, crossed, misled, taken>>

\* Mutated Retry: the entry of the old id is erased.
RetryErases(q) == SendsAgain(q, requests \ {q})

\* After five seconds a request is sent again, with another id.
Retry(q) == SendsAgain(q, (requests \ {q}) \cup {[q EXCEPT !.armed = FALSE]})

-----------------------------------------------------------------------------
(* Messages *)

Received(m) ==
  /\ status = "running"
  /\ toSender # <<>>
  /\ m = Head(toSender)
  /\ toSender' = Tail(toSender)
  /\ UNCHANGED <<lastId, ops, toReceiver, receiver, crossed>>

\* RequestChannel::OnMessage throws before it looks for the request, for whomever the
\* message is.
OnInvalidRequest(m) ==
  /\ Received(m)
  /\ m.type = "INVALID_REQUEST"
  /\ status' = "refused"
  /\ UNCHANGED <<lastStatus, requests, told, calm, misled, taken>>

\* Mutated Reported: only answers are looked at.
ReportedByAnswer(m) == IF m.type = "MEDIA_STATUS" /\ m.id # 0 THEN m.session ELSE lastStatus

\* Mutated Reported: an empty list of statuses is passed over.
ReportedNotEmpty(m) == IF m.type = "MEDIA_STATUS" /\ m.session # 0 THEN m.session ELSE lastStatus

\* MediaChannel::OnResponse keeps the status of every MEDIA_STATUS message.
Reported(m) == IF m.type = "MEDIA_STATUS" THEN m.session ELSE lastStatus

Reports(m) == m.type = "MEDIA_STATUS"

\* No request is looked for: the id is 0.
OnBroadcast(m) ==
  /\ Received(m)
  /\ m.type # "INVALID_REQUEST"
  /\ m.id = 0
  /\ lastStatus' = Reported(m)
  /\ misled' = (misled /\ ~Reports(m))
  /\ UNCHANGED <<requests, told, status, calm, taken>>

\* The entry with this id is erased, whomever the message is for, and its callback gets
\* a MediaResponse.  A blank answer is a success (the reason that is looked for before is
\* inserted, empty), and Load then keeps the status of the response, which is none.
OnAnswer(m, q) ==
  LET blankLoad == m.type = "blank" /\ q.kind = "load" IN
  /\ Received(m)
  /\ m.type # "INVALID_REQUEST"
  /\ q \in requests /\ q.id = m.id
  /\ lastStatus' = IF blankLoad THEN 0 ELSE Reported(m)
  /\ misled' = (blankLoad \/ (misled /\ ~Reports(m)))
  /\ requests' = requests \ {q}
  /\ told' = told \cup {q.op}
  /\ taken' = IF m.to = "*" THEN taken \cup {m.id} ELSE taken
  /\ calm' = (calm /\ m.to # "*")
  /\ UNCHANGED status

\* No request has this id: that is another client's answer if the message is for all.
OnUnhandledMessage(m) ==
  /\ Received(m)
  /\ m.type # "INVALID_REQUEST"
  /\ m.id # 0
  /\ \A q \in requests : q.id # m.id
  /\ lastStatus' = Reported(m)
  /\ misled' = (misled /\ ~Reports(m))
  /\ status' = IF m.to = "*" THEN "running" ELSE "unhandled"
  /\ UNCHANGED <<requests, told, calm, taken>>

-----------------------------------------------------------------------------
(* The receiver, while there is someone to hear it *)

Message(id, to, type, s) == [id |-> id, to |-> to, type |-> type, session |-> s]

\* Its status becomes s, which it broadcasts, and reports in the answers given.
Changes(s, id, answers) ==
  /\ session' = s
  /\ toSender' = toSender \o <<Message(id, "*", "MEDIA_STATUS", s)>> \o answers

Answers(m) == toSender' = Append(toSender, m) /\ UNCHANGED session

Serves(q, kinds) ==
  /\ status = "running"
  /\ toReceiver # <<>>
  /\ q = Head(toReceiver)
  /\ q.kind \in kinds
  /\ toReceiver' = Tail(toReceiver)
  /\ UNCHANGED <<channel, others, status, history>>

\* A LOAD begins a session, or fails, which may end the one there is.
ReceiverLoads(q) ==
  /\ Serves(q, {"load"})
  /\ sessions < MaxSession
  /\ sessions' = sessions + 1
  /\ Changes(sessions + 1, 0, <<Message(q.id, "sender", "MEDIA_STATUS", sessions + 1)>>)

ReceiverFails(q) ==
  /\ "refuses" \in Env
  /\ Serves(q, {"load"})
  /\ \E type \in Refusals : LET m == Message(q.id, "sender", type, 0) IN Changes(0, 0, <<m>>) \/ Answers(m)
  /\ UNCHANGED sessions

ReceiverReports(q) ==
  /\ Serves(q, {"getStatus"})
  /\ Answers(Message(q.id, "sender", "MEDIA_STATUS", session))
  /\ UNCHANGED sessions

\* A command to the current session is carried out, and another refused.
ReceiverObeys(q) ==
  /\ Serves(q, Commands)
  /\ session # 0 /\ q.session = session
  /\ LET s == IF q.kind = "stop" THEN 0 ELSE session
     IN  Changes(s, 0, <<Message(q.id, "sender", "MEDIA_STATUS", s)>>)
  /\ UNCHANGED sessions

ReceiverRefuses(q) ==
  /\ Serves(q, Commands)
  /\ session = 0 \/ q.session # session
  /\ \E type \in Refusals : Answers(Message(q.id, "sender", type, 0))
  /\ UNCHANGED sessions

\* Another client loads, the media end, or something else is reported; what is broadcast
\* may answer another client.
StatusChanges ==
  /\ status = "running"
  /\ others < MaxOthers /\ others' = others + 1
  /\ \E id \in OtherIds :
       \/ "otherLoads" \in Env /\ sessions < MaxSession /\ sessions' = sessions + 1 /\ Changes(sessions + 1, id, <<>>)
       \/ "ends" \in Env /\ session # 0 /\ Changes(0, id, <<>>) /\ UNCHANGED sessions
       \/ "status" \in Env /\ Changes(session, id, <<>>) /\ UNCHANGED sessions
  /\ crossed' = (crossed \/ session' # session)
  /\ UNCHANGED <<channel, toReceiver, status, calm, misled, taken>>

\* Another client is refused.
OtherIsRefused ==
  /\ status = "running"
  /\ others < MaxOthers /\ others' = others + 1
  /\ "otherRefused" \in Env
  /\ \E id \in OtherIds, type \in Refusals : Answers(Message(id, "*", type, 0))
  /\ UNCHANGED <<channel, toReceiver, sessions, status, history>>

-----------------------------------------------------------------------------

OnMessage(m) ==
  \/ OnInvalidRequest(m) \/ OnBroadcast(m) \/ OnUnhandledMessage(m)
  \/ \E q \in requests : OnAnswer(m, q)

ReceiverStep(q) == ReceiverLoads(q) \/ ReceiverFails(q) \/ ReceiverReports(q) \/ ReceiverObeys(q) \/ ReceiverRefuses(q)

Next ==
  \/ Load \/ GetStatus \/ \E kind \in Commands : SessionRequest(kind)
  \/ \E q \in requests : Retry(q)
  \/ toSender # <<>> /\ OnMessage(Head(toSender))
  \/ toReceiver # <<>> /\ ReceiverStep(Head(toReceiver))
  \/ StatusChanges \/ OtherIsRefused

Spec == Init /\ [][Next]_vars

-----------------------------------------------------------------------------
(* Properties *)

\* When no message is under way the channel knows the receiver's session, whoever
\* began or ended it and however often requests were sent; or none, if the last to set
\* the status was a LOAD that was answered with neither a status nor a reason.
StatusIsCurrent ==
  toSender = <<>> /\ toReceiver = <<>> /\ status = "running" => lastStatus = IF misled THEN 0 ELSE session

\* The commands of a user who waits for his answers, if nothing is sent twice, are for
\* the session that the receiver has, or name none, until it changes by itself: only a
\* change whose report crosses the command makes it one to a session that has ended.
CommandsFitTheSession ==
  calm /\ ~crossed =>
    \A k \in 1..Len(toReceiver) : toReceiver[k].kind \in Commands => toReceiver[k].session \in {0, session}

\* Every answer that is under way to us has its entry, and will not be unknown: no retry
\* takes the entry of a request away, only a broadcast for another client does.
AnswersAreExpected ==
  \A k \in 1..Len(toSender) :
    LET m == toSender[k] IN
    m.to = "sender" => m.id \in taken \/ \E q \in requests : q.id = m.id
=============================================================================
