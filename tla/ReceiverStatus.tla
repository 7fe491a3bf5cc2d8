---------------------------- MODULE ReceiverStatus ----------------------------
(***************************************************************************)
(* The status of the receiver as the sender knows it: the messages it is   *)
(* read from (receiver_messages.cpp), and the operations that ask for it   *)
(* or change the volume (receiver_channel.cpp).                            *)
(*                                                                         *)
(* Messages are delivered in order.  A request is sent again under another *)
(* id, as a new attempt, and the old one keeps its entry (RequestChannel). *)
(* Each attempt is answered once here, so that the answer finds the entry. *)
(***************************************************************************)
EXTENDS Integers, Sequences

CONSTANTS
  MaxLevel,   \* of the volume
  Tolerance,  \* levels that differ by less are the same: 0.01 in the code
  Apps,       \* application ids
  MaxCalls,   \* bound on the operations the user calls
  MaxAttempts,\* bound on how often the request of one is sent
  MaxQueue,   \* bound on the messages under way to the sender
  MaxChanges, \* bound on the changes that nobody asked for
  Env         \* what else happens

Events == {"retry", "refuses", "volume", "input", "applications"}

ASSUME StatusAssumption ==
  /\ MaxLevel \in Nat /\ Tolerance \in Nat /\ MaxCalls \in Nat /\ MaxAttempts \in Nat \ {0}
  /\ MaxQueue \in Nat /\ MaxChanges \in Nat
  /\ Env \subseteq Events

VARIABLES
  last,        \* _last_full_status
  heard,       \* whether it has been assigned
  device,      \* the receiver's status
  changes,     \* changes of it that nobody asked for
  made,        \* first attempts of the operations called so far, in order
  timers,      \* attempts whose timer is running, or whose handler is queued
  toReceiver,  \* attempts under way
  toSender,    \* messages under way: a status, and the attempt it answers
  had,         \* had[n]: the volumes the receiver had since it served call n first
  result       \* result[n]: what its callback was told

statusVars == <<last, heard, device, changes, made, timers, toReceiver, toSender, had, result>>

Levels == 0..MaxLevel
Lists == {<<>>} \cup {<<a>> : a \in Apps} \cup {<<a, b>> : a, b \in Apps}
Volumes == [muted : BOOLEAN, level : Levels]

\* isActiveInput, which need not be there.
Inputs == {"yes", "no", "absent"}
Statuses == [volume : Volumes, active : Inputs, applications : Lists]

Requests == [call : 1..MaxCalls, kind : {"GET_STATUS", "GET_APP_AVAILABILITY", "mute", "level"}, muted : BOOLEAN,
             level : Levels, attempt : 1..MaxAttempts]
Broadcast == [call |-> 0]
Messages == [status : Statuses, to : Requests \cup {Broadcast}]

StatusTypeOK ==
  /\ last \in Statuses
  /\ heard \in BOOLEAN
  /\ device \in Statuses
  /\ changes \in 0..MaxChanges
  /\ made \in Seq(Requests) /\ Len(made) <= MaxCalls
  /\ timers \subseteq Requests
  /\ toReceiver \in Seq(Requests)
  /\ toSender \in Seq(Messages)
  /\ had \in [1..MaxCalls -> SUBSET Volumes]
  /\ result \in [1..MaxCalls -> {"none", "true", "false"}]

\* _last_full_status has no values but an empty list and no isActiveInput; the
\* levels of a status that was never read do not matter.
StatusInit ==
  /\ last = [volume |-> [muted |-> FALSE, level |-> 0], active |-> "absent", applications |-> <<>>]
  /\ heard = FALSE
  /\ device \in [volume : {[muted |-> FALSE, level |-> 0]}, active : {"yes", "absent"}, applications : {<<>>}]
  /\ changes = 0
  /\ made = <<>> /\ timers = {}
  /\ toReceiver = <<>> /\ toSender = <<>>
  /\ had = [n \in 1..MaxCalls |-> {}]
  /\ result = [n \in 1..MaxCalls |-> "none"]

-----------------------------------------------------------------------------
(* Operations *)

\* The user calls an operation: its request is sent.
Call(kind, muted, level) ==
  LET q == [call |-> Len(made) + 1, kind |-> kind, muted |-> muted, level |-> level, attempt |-> 1] IN
  /\ Len(made) < MaxCalls
  /\ made' = Append(made, q)
  /\ timers' = timers \cup {q}
  /\ toReceiver' = Append(toReceiver, q)
  /\ UNCHANGED <<last, heard, device, changes, toSender, had, result>>

GetStatus == Call("GET_STATUS", FALSE, 0)
GetAppAvailabillity == Call("GET_APP_AVAILABILITY", FALSE, 0)
Mute(muted) == Call("mute", muted, 0)
SetVolume(level) == Call("level", FALSE, level)

\* The timer of an attempt has expired: the request is sent again, with another id and
\* another timer, even if an older attempt has been answered.
Retry(q) ==
  LET again == [q EXCEPT !.attempt = q.attempt + 1] IN
  /\ "retry" \in Env
  /\ q.attempt < MaxAttempts
  /\ timers' = (timers \ {q}) \cup {again}
  /\ toReceiver' = Append(toReceiver, again)
  /\ UNCHANGED <<last, heard, device, changes, made, toSender, had, result>>

-----------------------------------------------------------------------------
(* Messages *)

\* ReceiverStatus::FromMessage: the index does not move, so every application read is
\* the first.
Read(status) ==
  [status EXCEPT !.applications = [k \in DOMAIN status.applications |-> status.applications[1]]]

\* Mutated AssignStatus: the applications are kept when there are none.
AssignApplications(old, new) ==
  [new EXCEPT !.active = IF new.active = "absent" THEN old.active ELSE new.active,
              !.applications = IF new.applications = <<>> THEN old.applications ELSE new.applications]

\* BasicReceiverStatus::operator=: a status without an isActiveInput keeps the old one.
AssignStatus(old, new) == [new EXCEPT !.active = IF new.active = "absent" THEN old.active ELSE new.active]

\* OnReceiverStatus, for a broadcast, and the callback of GetStatus.
Keep(status) == last' = AssignStatus(last, Read(status)) /\ heard' = TRUE

Near(x, y) == x - y < Tolerance /\ y - x < Tolerance

\* Mutated Succeeds: the difference is compared as it is, without fabs.
SucceedsBelow(q, status) ==
  CASE q.kind = "mute" -> status.volume.muted
    [] q.kind = "level" -> q.level - status.volume.level < Tolerance
    [] OTHER -> TRUE

\* What the callback is told: Mute tells whether the receiver is muted, SetVolume
\* whether its level is the one asked for.
Succeeds(q, status) ==
  CASE q.kind = "mute" -> status.volume.muted
    [] q.kind = "level" -> Near(q.level, status.volume.level)
    [] OTHER -> TRUE

Received(m) ==
  /\ toSender # <<>>
  /\ m = Head(toSender)
  /\ toSender' = Tail(toSender)
  /\ UNCHANGED <<device, changes, made, toReceiver, had>>

OnReceiverStatus(m) ==
  /\ Received(m)
  /\ m.to = Broadcast
  /\ Keep(m.status)
  /\ UNCHANGED <<timers, result>>

\* An answer to any attempt runs the callback, again perhaps.  The entry of that attempt
\* is erased, which ends its timer if the handler is not queued; an older attempt has
\* none.  Which applications are available is told, and nothing is kept.
OnResponse(m) ==
  /\ Received(m)
  /\ m.to # Broadcast
  /\ timers' \in {timers, timers \ {m.to}}
  /\ result' = [result EXCEPT ![m.to.call] = IF Succeeds(m.to, m.status) THEN "true" ELSE "false"]
  /\ IF m.to.kind = "GET_STATUS" THEN Keep(m.status) ELSE UNCHANGED <<last, heard>>

-----------------------------------------------------------------------------
(* The receiver *)

\* Its status changes, which it broadcasts before it answers.  The calls with these
\* numbers have been served.
Changes(status, answers, served) ==
  /\ device' = status
  /\ had' = [n \in 1..MaxCalls |-> IF had[n] # {} \/ n \in served THEN had[n] \cup {status.volume} ELSE {}]
  /\ toSender' = toSender \o (IF status = device THEN <<>> ELSE <<[status |-> status, to |-> Broadcast]>>)
                          \o answers

Wanted(q) ==
  CASE q.kind = "mute" -> [device EXCEPT !.volume.muted = q.muted]
    [] q.kind = "level" -> [device EXCEPT !.volume.level = q.level]
    [] OTHER -> device

\* It does as it is told, or not: its volume may be fixed.
ReceiverAnswers(q) ==
  /\ toReceiver # <<>> /\ q = Head(toReceiver)
  /\ Len(toSender) < MaxQueue
  /\ toReceiver' = Tail(toReceiver)
  /\ \E status \in {Wanted(q)} \cup (IF "refuses" \in Env THEN {device} ELSE {}) :
       Changes(status, <<[status |-> status, to |-> q]>>, {q.call})
  /\ UNCHANGED <<last, heard, changes, made, timers, result>>

\* Another client changes the volume, applications start and end, the television is
\* switched to another input or does not tell.
StatusChanges ==
  /\ Len(toSender) < MaxQueue
  /\ changes < MaxChanges
  /\ changes' = changes + 1
  /\ \/ "volume" \in Env /\ \E v \in Volumes \ {device.volume} : Changes([device EXCEPT !.volume = v], <<>>, {})
     \/ "input" \in Env /\ \E a \in Inputs \ {device.active} : Changes([device EXCEPT !.active = a], <<>>, {})
     \/ "applications" \in Env
        /\ \E l \in Lists \ {device.applications} : Changes([device EXCEPT !.applications = l], <<>>, {})
  /\ UNCHANGED <<last, heard, made, timers, toReceiver, result>>

-----------------------------------------------------------------------------

StatusNext ==
  \/ GetStatus \/ GetAppAvailabillity \/ \E b \in BOOLEAN : Mute(b) \/ \E level \in Levels : SetVolume(level)
  \/ \E q \in timers : Retry(q)
  \/ toSender # <<>> /\ (OnReceiverStatus(Head(toSender)) \/ OnResponse(Head(toSender)))
  \/ toReceiver # <<>> /\ ReceiverAnswers(Head(toReceiver))
  \/ StatusChanges

StatusSpec == StatusInit /\ [][StatusNext]_statusVars

-----------------------------------------------------------------------------
(* Properties *)

\* When no message is under way and a status has been heard, the last status is that of
\* the receiver: its volume, its input if it tells, and its application if it runs one.
LastStatusIsCurrent ==
  heard /\ toSender = <<>> =>
    /\ last.volume = device.volume
    /\ device.active # "absent" => last.active = device.active
    /\ Len(last.applications) = Len(device.applications)
    /\ Len(device.applications) <= 1 => last.applications = device.applications

\* What a callback of SetVolume or Mute is told last is the truth: since the receiver
\* has first served the call it has had a volume that fits what is told, though it may
\* have changed again, or the call been served again.
VolumeIsConfirmed ==
  \A n \in DOMAIN made : result[n] # "none" =>
    \E v \in had[n] :
      result[n] = "true" <=> CASE made[n].kind = "mute" -> v.muted
                               [] made[n].kind = "level" -> Near(made[n].level, v.level)
                               [] OTHER -> TRUE
=============================================================================
