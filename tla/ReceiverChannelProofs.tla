------------------------ MODULE ReceiverChannelProofs ------------------------
(***************************************************************************)
(* Theorems about ReceiverChannel, for any applications, any receiver and  *)
(* any number of calls.                                                    *)
(***************************************************************************)
EXTENDS ReceiverChannel, SequenceTheorems, TLAPS

InitKinds == {"initLaunched", "initJoined"}

\* An application that waits for a media channel's answer is the one the channel
\* holds, and has that media channel.
Initializing ==
  \A r \in pending : r.kind \in InitKinds => r.app = application /\ r.address = <<"media", media[r.app]>>

\* Every request is known by the id it is sent under, in messages too.
WellTagged(s) == \A k \in 1..Len(s) : s[k].id = s[k].tag
AnswersTagged(s) == \A k \in 1..Len(s) : s[k].to = "sender" => s[k].id = s[k].tag

TagsAreIds ==
  /\ \A r \in pending : r.id = r.tag
  /\ WellTagged(toReceiver)
  /\ AnswersTagged(toSender)

IInv == TypeOK /\ RegistryIsExact /\ Initializing /\ LaunchCallbackIsOwn /\ TagsAreIds

\* An answer to a request of ours.
IsOurs(m) == m.to = "sender" /\ m.id # 0

\* Requests of ours and answers to them that are under way have an entry at the channel
\* they are for, and different ids.
Expected(entries, last, asked, answers) ==
  /\ \A r \in entries : r.id <= last
  /\ \A j \in 1..Len(asked) :
       /\ \E r \in entries : r.id = asked[j].id /\ r.address = asked[j].address
       /\ \A k \in 1..Len(asked) : asked[j].id = asked[k].id => j = k
       /\ \A k \in 1..Len(answers) : IsOurs(answers[k]) => asked[j].id # answers[k].id
  /\ \A j \in 1..Len(answers) :
       IsOurs(answers[j]) =>
         /\ \E r \in entries : r.id = answers[j].id /\ r.address = answers[j].address
         /\ \A k \in 1..Len(answers) : IsOurs(answers[k]) /\ answers[j].id = answers[k].id => j = k

\* A connection that is closed has been opened.
Opened(transports, answers) ==
  \A k \in 1..Len(answers) :
    answers[k].to = "sender" /\ answers[k].id = 0 => answers[k].address \in {"connection"} \X transports

\* One Launch has been called, or nothing, and nothing has happened that run() ends for.
Alone == ops = 0 \/ (ops = 1 /\ onLaunched = 1)
Spared == Alone /\ taken = {} /\ status \notin {"refused", "closed"}

\* Then the only channels are those of the application, once it is initialised, and
\* nobody takes an entry away before its answer comes.
Undisturbed ==
  /\ status = "running"
  /\ Expected(pending, counter, toReceiver, toSender)
  /\ Opened(connected, toSender)
  /\ \A t \in connected : \E a \in Apps : conn[a] = t
  /\ \A r \in pending : (r.kind = "launch" /\ r.address = Receiver) \/ r.kind = "initLaunched"
  /\ application = None <=> ops = 0
  /\ application = None => pending = {}
  /\ \A a \in Apps : conn[a] # 0 \/ media[a] # 0 => a = application /\ ~launching

Quiet == onLaunched <= ops /\ (Spared => Undisturbed)

-----------------------------------------------------------------------------

LEMMA InitIInv == Init => IInv
  BY ConstantsAssumption DEF Init, IInv, TypeOK, RegistryIsExact, Initializing, LaunchCallbackIsOwn, TagsAreIds,
     WellTagged, AnswersTagged, Transports, Addresses

\* What sending a request does: it adds an entry to the map, and a message.
Sent(left, address, kind, a, l) ==
  /\ counter' \in 0..MaxId
  /\ pending' \in SUBSET Requests
  /\ toReceiver' \in Seq(Requests)
  /\ \A r \in pending' : r.id = r.tag
  /\ WellTagged(toReceiver')
  /\ \A r \in pending' : r \in left \/ (r.kind = kind /\ r.app = a /\ r.op = l /\ r.address = address)

LEMMA RequestTypes ==
  ASSUME NEW left \in SUBSET Requests, NEW address \in {Receiver} \cup Addresses,
         NEW kind \in {"launch", "join"} \cup InitKinds, NEW a \in Apps, NEW l \in 0..MaxOps,
         counter \in 0..MaxId, toReceiver \in Seq(Requests),
         \A r \in left : r.id = r.tag,
         WellTagged(toReceiver),
         Request(left, address, kind, a, l)
  PROVE  Sent(left, address, kind, a, l)
<1> DEFINE r == [id |-> counter + 1, tag |-> counter + 1, address |-> address,
                 kind |-> kind, app |-> a, op |-> l, armed |-> TRUE]
<1> USE ConstantsAssumption
<1>1. counter < MaxId /\ counter' = counter + 1 /\ pending' = left \cup {r} /\ toReceiver' = Append(toReceiver, r)
  BY DEF Request, NextId
<1>2. counter + 1 \in 1..MaxId
  BY <1>1
<1>3. r \in Requests
  BY <1>2 DEF Requests, InitKinds
<1> HIDE DEF r
<1>4. toReceiver' \in Seq(Requests) /\ Len(toReceiver') = Len(toReceiver) + 1
      /\ \A k \in 1..Len(toReceiver') : toReceiver'[k] = IF k <= Len(toReceiver) THEN toReceiver[k] ELSE r
  BY <1>1, <1>3
<1>5. r.id = r.tag /\ r.kind = kind /\ r.app = a /\ r.op = l /\ r.address = address
  BY DEF r
<1>6. WellTagged(toReceiver')
  <2> SUFFICES ASSUME NEW k \in 1..Len(toReceiver') PROVE toReceiver'[k].id = toReceiver'[k].tag
    BY DEF WellTagged
  <2>1. CASE k <= Len(toReceiver)
    <3>1. k \in 1..Len(toReceiver)
      BY <2>1, <1>4
    <3> QED BY <2>1, <3>1, <1>4 DEF WellTagged
  <2>2. CASE ~(k <= Len(toReceiver))
    BY <2>2, <1>4, <1>5
  <2> QED BY <2>1, <2>2
<1> QED BY <1>1, <1>2, <1>3, <1>4, <1>5, <1>6 DEF Sent

\* Unregistering addresses keeps the map's type.
LEMMA UnregisterType ==
  ASSUME NEW reg \in [Addresses -> Apps \cup {None}], NEW addresses
  PROVE  /\ Unregister(reg, addresses) \in [Addresses -> Apps \cup {None}]
         /\ \A x \in Addresses : Unregister(reg, addresses)[x] = IF x \in addresses THEN None ELSE reg[x]
<1>1. \A x \in Addresses : (IF x \in addresses THEN None ELSE reg[x]) \in Apps \cup {None}
  OBVIOUS
<1> QED BY <1>1 DEF Unregister

\* Resetting one element keeps the type of a function.
LEMMA ResetType ==
  ASSUME NEW S, NEW V, NEW f \in [S -> V], NEW a, NEW v \in V
  PROVE  [f EXCEPT ![a] = v] \in [S -> V]
OBVIOUS

LEMMA AppendOf ==
  ASSUME NEW S, NEW queue \in Seq(S), NEW m \in S
  PROVE  /\ Append(queue, m) \in Seq(S) /\ Len(queue) \in Nat /\ Len(Append(queue, m)) = Len(queue) + 1
         /\ \A k \in 1..Len(Append(queue, m)) :
              \/ k = Len(queue) + 1 /\ Append(queue, m)[k] = m
              \/ k \in 1..Len(queue) /\ Append(queue, m)[k] = queue[k]
  OBVIOUS

LEMMA TailOf ==
  ASSUME NEW S, NEW queue \in Seq(S), queue # <<>>
  PROVE  /\ Tail(queue) \in Seq(S) /\ Head(queue) = queue[1] /\ 1 \in 1..Len(queue) /\ queue[1] \in S
         /\ \A k \in 1..Len(Tail(queue)) : k + 1 \in 1..Len(queue) /\ Tail(queue)[k] = queue[k + 1] /\ k + 1 # 1
  OBVIOUS

\* A queue that grows by two messages at once.
LEMMA TwoMore ==
  ASSUME NEW T, NEW s \in Seq(T), NEW x \in T, NEW y \in T
  PROVE  s \o <<x, y>> = Append(Append(s, x), y) /\ Append(s, x) \in Seq(T)
OBVIOUS

\* Initialising an application on a transport keeps the map of the connection
\* exact, and leaves the application the only one that waits for an answer.
LEMMA InitializeKeeps ==
  ASSUME TypeOK, RegistryIsExact, NEW a \in Apps, NEW t \in Transports,
         NEW entries \in SUBSET pending, NEW kind \in InitKinds, NEW l \in 0..MaxOps,
         \A r \in pending : r.id = r.tag,
         WellTagged(toReceiver),
         \A r \in entries : r.kind \in InitKinds => r.app = a /\ r.address = <<"media", media[a]>>,
         \A r \in entries : r.kind = "initLaunched" => r.op = onLaunched,
         kind = "initLaunched" => l = onLaunched,
         Initialize(a, t, entries, kind, l)
  PROVE  /\ conn' \in [Apps -> 0..MaxTransport] /\ media' \in [Apps -> 0..MaxTransport]
         /\ registry' \in [Addresses -> Apps \cup {None}]
         /\ counter' \in 0..MaxId /\ pending' \subseteq Requests /\ toReceiver' \in Seq(Requests)
         /\ status' \in {status, "duplicate"}
         /\ connected' \subseteq Transports
         /\ RegistryIsExact'
         /\ \A r \in pending' : r.id = r.tag
         /\ WellTagged(toReceiver')
         /\ \A r \in pending' : r.kind \in InitKinds => r.app = a /\ r.address = <<"media", media'[a]>>
         /\ \A r \in pending' : r.kind = "initLaunched" => r.op = onLaunched
<1> DEFINE new == {<<"connection", t>>, <<"media", t>>}
<1> USE ConstantsAssumption
<1>1. CASE /\ status' = "duplicate"
           /\ pending' = entries
           /\ UNCHANGED <<conn, media, registry, counter, toReceiver, connected>>
  <2>1. /\ conn' \in [Apps -> 0..MaxTransport] /\ media' \in [Apps -> 0..MaxTransport]
        /\ registry' \in [Addresses -> Apps \cup {None}]
    BY <1>1 DEF TypeOK
  <2>4. RegistryIsExact'
    <3>1. conn' = conn /\ media' = media /\ registry' = registry
      BY <1>1
    <3> QED BY ONLY RegistryIsExact, <3>1 DEF RegistryIsExact
  <2>2. /\ counter' \in 0..MaxId /\ pending' \subseteq Requests /\ toReceiver' \in Seq(Requests)
        /\ \A r \in pending' : r \in entries /\ r \in pending
        /\ WellTagged(toReceiver')
        /\ connected' \subseteq Transports
    BY <1>1 DEF TypeOK, WellTagged
  <2>3. media'[a] = media[a]
    BY <1>1
  <2> QED BY <1>1, <2>1, <2>2, <2>3, <2>4
<1>2. CASE /\ \A x \in new : registry[x] = None
           /\ registry' = [x \in Addresses |-> IF x \in new THEN a ELSE Unregister(registry, ChannelsOf(a))[x]]
           /\ conn' = [conn EXCEPT ![a] = t]
           /\ media' = [media EXCEPT ![a] = t]
           /\ Request(WithoutChannels(entries, ChannelsOf(a)), <<"media", t>>, kind, a, l)
           /\ connected' = connected \cup {t}
           /\ UNCHANGED status
  <2> DEFINE left == WithoutChannels(entries, ChannelsOf(a))
  <2>1. left \in SUBSET Requests /\ \A r \in left : r \in entries /\ r.address \notin ChannelsOf(a)
    BY DEF WithoutChannels, TypeOK
  <2>2. <<"media", t>> \in Addresses /\ <<"connection", t>> \in Addresses /\ t \in 0..MaxTransport
    BY DEF Addresses, Transports
  <2>3. /\ counter' \in 0..MaxId /\ pending' \in SUBSET Requests /\ toReceiver' \in Seq(Requests)
        /\ \A r \in pending' : r.id = r.tag
        /\ WellTagged(toReceiver')
        /\ \A r \in pending' : r \in left \/ (r.kind = kind /\ r.app = a /\ r.op = l /\ r.address = <<"media", t>>)
    <3> HIDE DEF left
    <3>1. Request(left, <<"media", t>>, kind, a, l)
      BY <1>2 DEF left
    <3>2. \A r \in left : r.id = r.tag
      BY <2>1
    <3>3. /\ counter \in 0..MaxId /\ toReceiver \in Seq(Requests)
          /\ <<"media", t>> \in {Receiver} \cup Addresses /\ kind \in {"launch", "join"} \cup InitKinds
      BY <2>2 DEF TypeOK
    <3>4. WellTagged(toReceiver)
      OBVIOUS
    <3>5. Sent(left, <<"media", t>>, kind, a, l)
      BY <2>1, <3>1, <3>2, <3>3, <3>4, RequestTypes
    <3> QED BY <3>5 DEF Sent
  <2>4. /\ conn' \in [Apps -> 0..MaxTransport] /\ media' \in [Apps -> 0..MaxTransport]
        /\ registry' \in [Addresses -> Apps \cup {None}]
        /\ conn'[a] = t /\ media'[a] = t
        /\ \A b \in Apps : b # a => conn'[b] = conn[b] /\ media'[b] = media[b]
    <3>1. conn \in [Apps -> 0..MaxTransport] /\ media \in [Apps -> 0..MaxTransport]
      BY DEF TypeOK
    <3>2. conn' = [conn EXCEPT ![a] = t] /\ media' = [media EXCEPT ![a] = t]
      BY <1>2
    <3>3. \A x \in Addresses : Unregister(registry, ChannelsOf(a))[x] \in Apps \cup {None}
      <4>1. registry \in [Addresses -> Apps \cup {None}]
        BY DEF TypeOK
      <4>2. Unregister(registry, ChannelsOf(a)) \in [Addresses -> Apps \cup {None}]
        BY <4>1, UnregisterType
      <4> HIDE DEF new
      <4> QED BY <4>2
    <3>4. registry' = [x \in Addresses |-> IF x \in new THEN a ELSE Unregister(registry, ChannelsOf(a))[x]]
      BY <1>2
    <3>5. registry' \in [Addresses -> Apps \cup {None}]
      <4> HIDE DEF new
      <4> QED BY <3>3, <3>4
    <3> QED BY <2>2, <3>1, <3>2, <3>5
  <2>5. \A r \in left : r.kind \notin InitKinds
    <3> SUFFICES ASSUME NEW r \in left, r.kind \in InitKinds PROVE FALSE
      OBVIOUS
    <3>1. r.address = <<"media", media[a]>> /\ r.address \in {Receiver} \cup Addresses /\ r.address \notin ChannelsOf(a)
      BY <2>1 DEF TypeOK, Requests
    <3>2. r.address # Receiver
      BY <3>1 DEF Receiver
    <3> QED BY <3>1, <3>2 DEF ChannelsOf
  <2>6. \A x \in Addresses : registry'[x] = IF x \in new THEN a ELSE IF x \in ChannelsOf(a) THEN None ELSE registry[x]
    BY <1>2 DEF Unregister
  <2>7. RegistryIsExact'
    <3> SUFFICES ASSUME NEW b \in Apps, NEW u \in Transports
        PROVE /\ registry'[<<"connection", u>>] = b <=> conn'[b] = u
              /\ registry'[<<"media", u>>] = b <=> media'[b] = u
      BY DEF RegistryIsExact
    <3>1. <<"connection", u>> \in Addresses /\ <<"media", u>> \in Addresses /\ None # a /\ None # b
      BY DEF Addresses
    <3>2. (<<"connection", u>> \in new <=> u = t) /\ (<<"media", u>> \in new <=> u = t)
      OBVIOUS
    <3>3. (<<"connection", u>> \in ChannelsOf(a) <=> u = conn[a]) /\ (<<"media", u>> \in ChannelsOf(a) <=> u = media[a])
      BY <3>1 DEF ChannelsOf
    <3>4. registry[<<"connection", t>>] = None /\ registry[<<"media", t>>] = None
      BY <1>2
    <3>5. CASE b = a
      <4>1. conn'[a] = t /\ media'[a] = t /\ None \notin Apps
        BY <2>4
      <4>2. /\ registry'[<<"connection", u>>] = IF u = t THEN a ELSE IF u = conn[a] THEN None ELSE registry[<<"connection", u>>]
            /\ registry'[<<"media", u>>] = IF u = t THEN a ELSE IF u = media[a] THEN None ELSE registry[<<"media", u>>]
        BY <2>6, <3>1, <3>2, <3>3
      <4>3. /\ registry[<<"connection", u>>] = a <=> conn[a] = u
            /\ registry[<<"media", u>>] = a <=> media[a] = u
        BY DEF RegistryIsExact
      <4> QED BY <3>1, <3>5, <4>1, <4>2, <4>3
    <3>6. CASE b # a
      <4>1. conn'[b] = conn[b] /\ media'[b] = media[b]
        BY <3>6, <2>4
      <4>2. CASE u = t
        BY <4>1, <4>2, <3>1, <3>2, <3>4, <3>6, <2>6 DEF RegistryIsExact
      <4>3. CASE u # t
        BY <4>1, <4>3, <3>1, <3>2, <3>3, <3>6, <2>6 DEF RegistryIsExact
      <4> QED BY <4>2, <4>3
    <3> QED BY <3>5, <3>6
  <2>8. \A r \in pending' : r.kind \in InitKinds => r.app = a /\ r.address = <<"media", media'[a]>>
    BY <2>3, <2>4, <2>5
  <2>9. \A r \in pending' : r.kind = "initLaunched" => r.op = onLaunched
    BY <2>3, <2>5 DEF InitKinds
  <2>10. connected' \subseteq Transports
    BY <1>2 DEF TypeOK
  <2> QED BY <1>2, <2>3, <2>4, <2>7, <2>8, <2>9, <2>10
<1> QED BY <1>1, <1>2 DEF Initialize

\* The calls of the user, and retries.
LEMMA UserSteps ==
  ASSUME IInv,
         (\E a \in Apps : Launch(a) \/ Join(a) \/ Drop(a)) \/ (\E r \in pending : Retry(r))
  PROVE  IInv'
<1> USE ConstantsAssumption
<1>0. /\ TypeOK /\ RegistryIsExact /\ Initializing /\ LaunchCallbackIsOwn /\ TagsAreIds
      /\ counter \in 0..MaxId /\ toReceiver \in Seq(Requests) /\ pending \in SUBSET Requests
      /\ Receiver \in {Receiver} \cup Addresses
      /\ \A r \in pending : r.id = r.tag
      /\ WellTagged(toReceiver)
  BY DEF IInv, TypeOK, TagsAreIds
<1>1. ASSUME NEW a \in Apps, Launch(a) PROVE IInv'
  <2> DEFINE stopped == IF application = None THEN {} ELSE {<<"media", media[application]>>}
             left == WithoutChannels(pending, stopped)
  <2>1. left \in SUBSET Requests /\ \A r \in left : r \in pending /\ r.address \notin stopped
    BY <1>0 DEF WithoutChannels
  <2>2. \A r \in left : r.kind \notin InitKinds
    <3> SUFFICES ASSUME NEW r \in left, r.kind \in InitKinds PROVE FALSE
      OBVIOUS
    <3>1. r \in Requests /\ r.app = application /\ r.address = <<"media", media[application]>> /\ r.address \notin stopped
      BY <1>0, <2>1 DEF Initializing
    <3> QED BY <3>1 DEF Requests
  <2>3. /\ registry' = Unregister(registry, stopped)
        /\ media' = [b \in Apps |-> IF b = application THEN 0 ELSE media[b]]
        /\ Request(left, Receiver, "launch", a, ops + 1)
        /\ application' = a /\ onLaunched' = ops + 1 /\ launching' = TRUE
        /\ ops < MaxOps /\ ops' = ops + 1
        /\ UNCHANGED <<conn, called, gone, toSender, running, started, others, status, connected, taken>>
    BY <1>1 DEF Launch, receiver
  <2>4. \A x \in Addresses : registry'[x] = IF x \in stopped THEN None ELSE registry[x]
    BY <2>3 DEF Unregister
  <2>5. ops + 1 \in 0..MaxOps
    BY <1>0, <2>3 DEF TypeOK
  <2> HIDE DEF left
  <2>6. /\ counter' \in 0..MaxId /\ pending' \in SUBSET Requests /\ toReceiver' \in Seq(Requests)
        /\ \A r \in pending' : r.id = r.tag
        /\ WellTagged(toReceiver')
        /\ \A r \in pending' : r \in left \/ r.kind = "launch"
    <3>1. \A r \in left : r.id = r.tag
      BY <1>0, <2>1
    <3>2. "launch" \in {"launch", "join"} \cup InitKinds
      OBVIOUS
    <3>3. Sent(left, Receiver, "launch", a, ops + 1)
      BY <1>0, <2>1, <2>3, <2>5, <3>1, <3>2, RequestTypes
    <3> QED BY <3>3 DEF Sent
  <2>7. TypeOK'
    <3>1. registry' \in [Addresses -> Apps \cup {None}]
      <4>1. registry \in [Addresses -> Apps \cup {None}]
        BY <1>0 DEF TypeOK
      <4> QED BY <2>3, <4>1, UnregisterType
    <3>2. media' \in [Apps -> 0..MaxTransport]
      BY <1>0, <2>3 DEF TypeOK
    <3>3. ops' \in 0..MaxOps /\ onLaunched' \in 0..MaxOps /\ launching' \in BOOLEAN /\ application' \in Apps \cup {None}
      BY <2>3, <2>5
    <3> QED BY <1>0, <2>3, <2>6, <3>1, <3>2, <3>3 DEF TypeOK
  <2>8. RegistryIsExact'
    <3> SUFFICES ASSUME NEW b \in Apps, NEW u \in Transports
        PROVE /\ registry'[<<"connection", u>>] = b <=> conn'[b] = u
              /\ registry'[<<"media", u>>] = b <=> media'[b] = u
      BY DEF RegistryIsExact
    <3>1. /\ <<"connection", u>> \in Addresses /\ <<"media", u>> \in Addresses /\ None # b /\ u # 0
          /\ application \in Apps \cup {None}
          /\ (registry[<<"connection", u>>] = b <=> conn[b] = u)
          /\ \A c \in Apps : registry[<<"media", u>>] = c <=> media[c] = u
      <4>1. <<"connection", u>> \in Addresses /\ <<"media", u>> \in Addresses /\ None # b /\ u # 0
        BY DEF Addresses, Transports
      <4>2. application \in Apps \cup {None}
        BY <1>0 DEF TypeOK
      <4>3. /\ registry[<<"connection", u>>] = b <=> conn[b] = u
            /\ \A c \in Apps : registry[<<"media", u>>] = c <=> media[c] = u
        BY <1>0 DEF RegistryIsExact
      <4> QED BY <4>1, <4>2, <4>3
    <3>2. registry'[<<"connection", u>>] = registry[<<"connection", u>>]
      BY <2>4, <3>1
    <3>3. registry'[<<"media", u>>] = IF application # None /\ u = media[application] THEN None ELSE registry[<<"media", u>>]
      BY <2>4, <3>1
    <3>4. conn' = conn /\ media'[b] = IF b = application THEN 0 ELSE media[b]
      BY <2>3
    <3>5. registry'[<<"connection", u>>] = b <=> conn'[b] = u
      BY <3>1, <3>2, <3>4
    <3>6. CASE b = application
      BY <3>1, <3>3, <3>4, <3>5, <3>6
    <3>7. CASE b # application
      <4>1. CASE application # None /\ u = media[application]
        <5>1. registry[<<"media", u>>] = application /\ registry'[<<"media", u>>] = None
          BY <3>1, <3>3, <4>1
        <5> QED BY <3>1, <3>4, <3>5, <3>7, <5>1
      <4>2. CASE ~(application # None /\ u = media[application])
        BY <3>1, <3>3, <3>4, <3>5, <3>7, <4>2
      <4> QED BY <4>1, <4>2
    <3> QED BY <3>6, <3>7
  <2>9. Initializing' /\ LaunchCallbackIsOwn'
    BY <2>2, <2>6 DEF Initializing, LaunchCallbackIsOwn, InitKinds
  <2> QED BY <1>0, <2>3, <2>6, <2>7, <2>8, <2>9 DEF IInv, TagsAreIds
<1>2. ASSUME NEW a \in Apps, Join(a) PROVE IInv'
  <2>1. /\ Request(pending, Receiver, "join", a, ops + 1)
        /\ ops < MaxOps /\ ops' = ops + 1
        /\ UNCHANGED <<application, launching, onLaunched, conn, media, registry, called, gone, toSender, running, started, others, status, connected, taken>>
    BY <1>2 DEF Join, receiver
  <2>2. ops + 1 \in 0..MaxOps /\ "join" \in {"launch", "join"} \cup InitKinds
    BY <1>0, <2>1 DEF TypeOK
  <2>3. /\ counter' \in 0..MaxId /\ pending' \in SUBSET Requests /\ toReceiver' \in Seq(Requests)
        /\ \A r \in pending' : r.id = r.tag
        /\ WellTagged(toReceiver')
        /\ \A r \in pending' : r \in pending \/ r.kind = "join"
    <3>1. Sent(pending, Receiver, "join", a, ops + 1)
      BY <1>0, <2>1, <2>2, RequestTypes
    <3> QED BY <3>1 DEF Sent
  <2>4. TypeOK'
    BY <1>0, <2>1, <2>2, <2>3 DEF TypeOK
  <2>5. Initializing' /\ LaunchCallbackIsOwn'
    BY <1>0, <2>1, <2>3 DEF Initializing, LaunchCallbackIsOwn, InitKinds
  <2>6. RegistryIsExact'
    BY <1>0, <2>1 DEF RegistryIsExact
  <2> QED BY <1>0, <2>1, <2>3, <2>4, <2>5, <2>6 DEF IInv, TagsAreIds
<1>3. ASSUME NEW a \in Apps, Drop(a) PROVE IInv'
  <2>1. /\ a # application
        /\ gone' = gone \cup {a}
        /\ registry' = Unregister(registry, ChannelsOf(a))
        /\ pending' = WithoutChannels(pending, ChannelsOf(a))
        /\ conn' = [conn EXCEPT ![a] = 0]
        /\ media' = [media EXCEPT ![a] = 0]
        /\ UNCHANGED <<application, launching, onLaunched, counter, ops, called, toReceiver, toSender, running, started, others, status, connected, taken>>
    BY <1>3 DEF Drop, receiver
  <2>2. pending' \subseteq pending
    BY <2>1 DEF WithoutChannels
  <2>3. /\ conn'[a] = 0 /\ media'[a] = 0
        /\ \A b \in Apps : b # a => conn'[b] = conn[b] /\ media'[b] = media[b]
    BY <1>0, <2>1 DEF TypeOK
  <2>4. TypeOK'
    <3>1. registry' \in [Addresses -> Apps \cup {None}]
      <4>1. registry \in [Addresses -> Apps \cup {None}]
        BY <1>0 DEF TypeOK
      <4> QED BY <2>1, <4>1, UnregisterType
    <3>2. conn' \in [Apps -> 0..MaxTransport] /\ media' \in [Apps -> 0..MaxTransport]
      <4>1. conn \in [Apps -> 0..MaxTransport] /\ media \in [Apps -> 0..MaxTransport]
        BY <1>0 DEF TypeOK
      <4>2. 0 \in 0..MaxTransport
        BY ConstantsAssumption
      <4> QED BY <2>1, <4>1, <4>2, ResetType, Zenon
    <3>3. gone' \subseteq Apps /\ pending' \subseteq Requests
      BY <1>0, <2>1, <2>2 DEF TypeOK
    <3> QED BY <1>0, <2>1, <3>1, <3>2, <3>3 DEF TypeOK
  <2>5. RegistryIsExact'
    <3> SUFFICES ASSUME NEW b \in Apps, NEW u \in Transports
        PROVE /\ registry'[<<"connection", u>>] = b <=> conn'[b] = u
              /\ registry'[<<"media", u>>] = b <=> media'[b] = u
      BY DEF RegistryIsExact
    <3>1. /\ <<"connection", u>> \in Addresses /\ <<"media", u>> \in Addresses /\ None # b /\ u # 0
          /\ \A c \in Apps : registry[<<"connection", u>>] = c <=> conn[c] = u
          /\ \A c \in Apps : registry[<<"media", u>>] = c <=> media[c] = u
      BY <1>0 DEF Addresses, RegistryIsExact, Transports
    <3>2. /\ <<"connection", u>> \in ChannelsOf(a) <=> u = conn[a]
          /\ <<"media", u>> \in ChannelsOf(a) <=> u = media[a]
      BY <3>1 DEF ChannelsOf
    <3>3. /\ registry'[<<"connection", u>>] = IF u = conn[a] THEN None ELSE registry[<<"connection", u>>]
          /\ registry'[<<"media", u>>] = IF u = media[a] THEN None ELSE registry[<<"media", u>>]
      BY <2>1, <3>1, <3>2 DEF Unregister
    <3>4. CASE b = a
      BY <2>3, <3>1, <3>3, <3>4
    <3>5. CASE b # a
      <4>1. conn'[b] = conn[b] /\ media'[b] = media[b]
        BY <2>3, <3>5
      <4> QED BY <3>1, <3>3, <3>5, <4>1
    <3> QED BY <3>4, <3>5
  <2>6. Initializing'
    <3> SUFFICES ASSUME NEW r \in pending', r.kind \in InitKinds
        PROVE r.app = application' /\ r.address = <<"media", media'[r.app]>>
      BY DEF Initializing
    <3>1. r \in pending /\ r.app = application /\ r.address = <<"media", media[r.app]>> /\ r.app \in Apps
      BY <1>0, <2>2 DEF Initializing, Requests
    <3> QED BY <2>1, <2>3, <3>1
  <2>7. LaunchCallbackIsOwn' /\ TagsAreIds'
    BY <1>0, <2>1, <2>2 DEF LaunchCallbackIsOwn, TagsAreIds
  <2> QED BY <2>4, <2>5, <2>6, <2>7 DEF IInv
<1>4. ASSUME NEW r \in pending, Retry(r) PROVE IInv'
  <2> DEFINE left == (pending \ {r}) \cup {[r EXCEPT !.armed = FALSE]}
  <2>1. /\ Request(left, r.address, r.kind, r.app, r.op)
        /\ UNCHANGED <<application, launching, onLaunched, conn, media, registry, ops, called, gone, toSender, running, started, others, status, connected, taken>>
    BY <1>4 DEF Retry, receiver
  <2>2. /\ r \in Requests
        /\ r.address \in {Receiver} \cup Addresses /\ r.kind \in {"launch", "join"} \cup InitKinds
        /\ r.app \in Apps /\ r.op \in 0..MaxOps
    BY <1>0 DEF Requests, InitKinds
  <2>3. left \in SUBSET Requests
    BY <1>0, <2>2 DEF Requests
  <2>4. \A q \in left : \E p \in pending : q.id = p.id /\ q.tag = p.tag /\ q.kind = p.kind /\ q.app = p.app
                                            /\ q.op = p.op /\ q.address = p.address
    BY <2>2 DEF Requests
  <2>5. \A q \in left : q.id = q.tag
    BY <1>0, <2>4
  <2> HIDE DEF left
  <2>6. /\ counter' \in 0..MaxId /\ pending' \in SUBSET Requests /\ toReceiver' \in Seq(Requests)
        /\ \A q \in pending' : q.id = q.tag
        /\ WellTagged(toReceiver')
        /\ \A q \in pending' : q \in left \/ (q.kind = r.kind /\ q.app = r.app /\ q.op = r.op /\ q.address = r.address)
    <3>1. Sent(left, r.address, r.kind, r.app, r.op)
      BY <1>0, <2>1, <2>2, <2>3, <2>5, RequestTypes
    <3> QED BY <3>1 DEF Sent
  <2>7. \A q \in pending' : \E p \in pending : q.kind = p.kind /\ q.app = p.app /\ q.op = p.op /\ q.address = p.address
    BY <2>4, <2>6
  <2>8. TypeOK'
    BY <1>0, <2>1, <2>6 DEF TypeOK
  <2>9. Initializing' /\ LaunchCallbackIsOwn' /\ RegistryIsExact'
    BY <1>0, <2>1, <2>7 DEF Initializing, LaunchCallbackIsOwn, RegistryIsExact
  <2> QED BY <1>0, <2>1, <2>6, <2>8, <2>9 DEF IInv, TagsAreIds
<1> QED BY <1>1, <1>2, <1>3, <1>4

\* The messages from the receiver.
LEMMA MessageSteps ==
  ASSUME IInv, Arrives
  PROVE  IInv'
<1> DEFINE m == Head(toSender)
<1> USE ConstantsAssumption
<1>1. /\ TypeOK /\ RegistryIsExact /\ Initializing /\ LaunchCallbackIsOwn /\ TagsAreIds
      /\ pending \in SUBSET Requests
      /\ \A r \in pending : r.id = r.tag
      /\ WellTagged(toReceiver)
      /\ toSender \in Seq(Messages) /\ toSender # <<>>
  BY DEF IInv, TypeOK, TagsAreIds, Arrives
<1>2. m \in Messages /\ m.running \in 0..MaxTransport /\ (m.running # 0 => m.running \in Transports)
  <2>1. m \in Messages
    BY <1>1, TailOf
  <2> HIDE DEF m
  <2> QED BY <2>1 DEF Messages, Transports
<1>3. ASSUME toSender' = Tail(toSender)
      PROVE  /\ toSender' \in Seq(Messages)
             /\ AnswersTagged(toSender')
  <2>1. /\ Tail(toSender) \in Seq(Messages)
        /\ \A k \in 1..Len(Tail(toSender)) : k + 1 \in 1..Len(toSender) /\ Tail(toSender)[k] = toSender[k + 1]
    BY <1>1, TailOf
  <2>2. AnswersTagged(toSender)
    BY <1>1 DEF TagsAreIds
  <2> QED BY <1>3, <2>1, <2>2 DEF AnswersTagged
<1> HIDE DEF m
\* An application is initialised.
<1>4. ASSUME NEW a \in Apps, NEW entries \in SUBSET pending, NEW kind \in InitKinds, NEW l \in 0..MaxOps,
             application \in {a, None}, application' = a, launching' \in BOOLEAN,
             \A r \in entries : r.kind = "initLaunched" => r.op = onLaunched,
             kind = "initLaunched" => l = onLaunched,
             m.running # 0,
             Initialize(a, m.running, entries, kind, l),
             toSender' = Tail(toSender),
             taken' \subseteq 1..MaxId,
             UNCHANGED <<onLaunched, ops, called, gone, running, started, others>>
      PROVE  IInv'
  <2>1. \A r \in entries : r.kind \in InitKinds => r.app = a /\ r.address = <<"media", media[a]>>
    BY <1>1, <1>4 DEF Initializing, Requests
  <2>2. /\ conn' \in [Apps -> 0..MaxTransport] /\ media' \in [Apps -> 0..MaxTransport]
        /\ registry' \in [Addresses -> Apps \cup {None}]
        /\ counter' \in 0..MaxId /\ pending' \subseteq Requests /\ toReceiver' \in Seq(Requests)
        /\ status' \in {status, "duplicate"}
        /\ connected' \subseteq Transports
        /\ RegistryIsExact'
        /\ \A r \in pending' : r.id = r.tag
        /\ WellTagged(toReceiver')
        /\ \A r \in pending' : r.kind \in InitKinds => r.app = a /\ r.address = <<"media", media'[a]>>
        /\ \A r \in pending' : r.kind = "initLaunched" => r.op = onLaunched
    BY <1>1, <1>2, <1>4, <2>1, InitializeKeeps
  <2>3. TypeOK'
    BY <1>1, <1>3, <1>4, <2>2 DEF TypeOK
  <2>4. Initializing' /\ LaunchCallbackIsOwn'
    BY <1>4, <2>2 DEF Initializing, LaunchCallbackIsOwn
  <2>5. TagsAreIds'
    BY <1>3, <1>4, <2>2 DEF TagsAreIds
  <2> QED BY <2>2, <2>3, <2>4, <2>5 DEF IInv
\* An entry may be erased, a callback run, or an exception thrown.
<1>5. ASSUME toSender' = Tail(toSender),
             pending' \subseteq pending, called' \in [1..MaxOps -> Nat], launching' \in BOOLEAN,
             status' \in {status, "running", "unrecognized", "unhandled", "refused", "closed"},
             taken' \subseteq 1..MaxId,
             UNCHANGED <<application, onLaunched, conn, media, registry, counter, ops, gone, toReceiver, running, started,
                         others, connected>>
      PROVE  IInv'
  <2>1. TypeOK'
    BY <1>1, <1>3, <1>5 DEF TypeOK
  <2>2. RegistryIsExact' /\ Initializing' /\ LaunchCallbackIsOwn' /\ TagsAreIds'
    BY <1>1, <1>3, <1>5 DEF RegistryIsExact, Initializing, LaunchCallbackIsOwn, TagsAreIds
  <2> QED BY <2>1, <2>2 DEF IInv
<1>6. called \in [1..MaxOps -> Nat] /\ launching \in BOOLEAN /\ taken \subseteq 1..MaxId
  BY <1>1 DEF TypeOK
<1>7. CASE OnReceiverStatus(m)
  <2>1. CASE application = None \/ m.running = 0 \/ ~launching
    <3>1. toSender' = Tail(toSender) /\ pending' = pending
          /\ UNCHANGED <<application, launching, onLaunched, conn, media, registry, counter, ops, called, gone, toReceiver,
                         running, started, others, status, connected, taken>>
      BY <1>7, <2>1 DEF OnReceiverStatus, Received, receiver
    <3> QED BY <1>5, <1>6, <3>1
  <2>2. CASE application # None /\ m.running # 0 /\ launching
    <3>1. /\ launching' = FALSE /\ application' = application
          /\ Initialize(application, m.running, pending, "initLaunched", onLaunched)
          /\ toSender' = Tail(toSender)
          /\ UNCHANGED <<onLaunched, ops, called, gone, running, started, others, taken>>
      BY <1>7, <2>2 DEF OnReceiverStatus, Received, receiver
    <3>2. application \in Apps /\ onLaunched \in 0..MaxOps /\ "initLaunched" \in InitKinds
      BY <1>1, <2>2 DEF TypeOK, InitKinds
    <3>3. \A r \in pending : r.kind = "initLaunched" => r.op = onLaunched
      BY <1>1 DEF LaunchCallbackIsOwn
    <3> QED BY <1>4, <1>6, <2>2, <3>1, <3>2, <3>3
  <2> QED BY <2>1, <2>2
\* A message that takes an entry carries the entry's id.
<1>8. ASSUME NEW r \in pending, Completes(m, r)
      PROVE  /\ toSender' = Tail(toSender) /\ taken' \subseteq 1..MaxId /\ launching' \in BOOLEAN
             /\ UNCHANGED <<onLaunched, ops, gone, running, started, others>>
  <2>1. r.id = m.id /\ taken' \in {taken, taken \cup {m.id}}
    BY <1>8 DEF Completes, Entry
  <2>2. r.id \in 1..MaxId
    BY <1>1 DEF Requests
  <2>3. taken' \subseteq 1..MaxId
    BY <1>6, <2>1, <2>2
  <2> QED BY <1>6, <1>8, <2>3 DEF Completes, Received, receiver
<1>9. ASSUME NEW r \in pending, OnLaunchResponse(m, r) \/ OnJoinRefused(m, r) \/ OnInitialized(m, r) PROVE IInv'
  <2>1. /\ Completes(m, r) /\ pending' = pending \ {r}
        /\ UNCHANGED <<application, conn, media, registry, counter, toReceiver, status, connected>>
    BY <1>9 DEF OnLaunchResponse, OnJoinRefused, OnInitialized
  <2>2. called' \in [1..MaxOps -> Nat]
    <3>1. CASE OnLaunchResponse(m, r)
      BY <1>6, <3>1 DEF OnLaunchResponse
    <3>2. CASE OnJoinRefused(m, r)
      <4>1. called' = [called EXCEPT ![r.op] = @ + 1]
        BY <3>2 DEF OnJoinRefused
      <4>2. \A i \in 1..MaxOps : called[i] + 1 \in Nat
        BY <1>6
      <4> QED BY <1>6, <4>1, <4>2
    <3>3. CASE OnInitialized(m, r)
      <4>1. \A i \in 1..MaxOps : called[i] \in Nat /\ called[i] + 1 \in Nat
        BY <1>6
      <4> QED BY <3>3, <4>1 DEF OnInitialized
    <3> QED BY <1>9, <3>1, <3>2, <3>3
  <2>3. pending' \subseteq pending /\ status' \in {status, "running", "unrecognized", "unhandled", "refused", "closed"}
    BY <2>1
  <2> QED BY <1>5, <1>8, <2>1, <2>2, <2>3
<1>10. ASSUME NEW r \in pending, OnJoinAccepted(m, r) PROVE IInv'
  <2>1. /\ Completes(m, r)
        /\ application = None /\ m.running # 0 /\ application' = r.app
        /\ Initialize(r.app, m.running, pending \ {r}, "initJoined", r.op)
        /\ called' = called
    BY <1>10 DEF OnJoinAccepted
  <2>2. r.app \in Apps /\ r.op \in 0..MaxOps /\ "initJoined" \in InitKinds
    BY <1>1 DEF Requests, InitKinds
  <2>3. \A q \in pending \ {r} : q.kind = "initLaunched" => q.op = onLaunched
    BY <1>1 DEF LaunchCallbackIsOwn
  <2>4. pending \ {r} \in SUBSET pending
    OBVIOUS
  <2> QED BY <1>4, <1>8, <2>1, <2>2, <2>3, <2>4
<1>11. CASE OnUnrecognizedAddress(m) \/ OnInvalidRequest(m) \/ OnClose(m) \/ OnUnhandledMessage(m)
  <2>1. /\ toSender' = Tail(toSender) /\ pending' = pending
        /\ status' \in {status, "running", "unrecognized", "unhandled", "refused", "closed"}
        /\ UNCHANGED <<application, launching, onLaunched, conn, media, registry, counter, ops, called, gone, toReceiver,
                       running, started, others, connected, taken>>
    BY <1>11 DEF OnUnrecognizedAddress, OnInvalidRequest, OnClose, OnUnhandledMessage, EndsWith, Received, receiver
  <2> QED BY <1>5, <1>6, <2>1
<1> QED BY <1>7, <1>9, <1>10, <1>11 DEF Arrives, OnMessage, m

\* What the receiver sends that is no answer to a request of ours.
Unasked(x) ==
  /\ x \in Messages
  /\ x.to = "sender" => x.id = 0 /\ x.tag = 0 /\ x.address \in {"connection"} \X connected

Grows(queue, longer) == longer = queue \/ \E x \in Messages : Unasked(x) /\ longer = Append(queue, x)

\* Then it answers the request it takes, if it takes one.
Sends(queue) ==
  \/ toReceiver' = toReceiver /\ toSender' = queue
  \/ /\ toReceiver # <<>>
     /\ toReceiver' = Tail(toReceiver)
     /\ \/ toSender' = queue
        \/ \E w \in Messages : /\ w.id = Head(toReceiver).id /\ w.tag = Head(toReceiver).tag
                              /\ w.address = Head(toReceiver).address
                              /\ toSender' = Append(queue, w)

ReceiverActs == Served \/ (\E t \in 0..MaxTransport : StatusChanges(t)) \/ OthersAreAnswered

\* The receiver takes a request and answers it, broadcasts, or closes a connection: at
\* most two messages, and an answer.
LEMMA ReceiverSends ==
  ASSUME TypeOK, ReceiverActs
  PROVE  /\ running' \in 0..MaxTransport /\ started' \in 0..MaxTransport /\ others' \in 0..MaxOthers
         /\ UNCHANGED <<sender, counter, ops>>
         /\ \E s, u \in Seq(Messages) : Grows(toSender, s) /\ Grows(s, u) /\ Sends(u)
<1> DEFINE q == Head(toReceiver)
<1> USE ConstantsAssumption
<1>1. /\ toReceiver \in Seq(Requests) /\ toSender \in Seq(Messages)
      /\ running \in 0..MaxTransport /\ started \in 0..MaxTransport /\ others \in 0..MaxOthers
      /\ connected \subseteq Transports
  BY DEF TypeOK
<1>2. \A t \in 0..MaxTransport : Broadcast(t) \in Messages /\ Unasked(Broadcast(t))
  BY DEF Broadcast, Messages, Unasked, Receiver, Addresses
<1>3. \A t \in connected : Close(t) \in Messages /\ Unasked(Close(t))
  BY <1>1 DEF Close, Messages, Unasked, Receiver, Addresses
<1>4. ASSUME NEW ending \in Endings
      PROVE  toSender \o ending \in Seq(Messages) /\ Grows(toSender, toSender \o ending)
  <2>1. CASE ending = <<>>
    BY <1>1, <2>1 DEF Grows
  <2>2. CASE running \in connected /\ ending = <<Close(running)>>
    <3> DEFINE c == Close(running)
    <3>1. c \in Messages /\ Unasked(c)
      BY <1>3, <2>2
    <3>2. ending = <<c>>
      BY <2>2
    <3> HIDE DEF c
    <3>3. toSender \o ending = Append(toSender, c) /\ Append(toSender, c) \in Seq(Messages)
      BY <1>1, <3>1, <3>2
    <3> QED BY <3>1, <3>3 DEF Grows
  <2> QED BY <1>4, <2>1, <2>2 DEF Endings
\* A broadcast follows.
<1>5. ASSUME NEW s \in Seq(Messages), NEW t \in 0..MaxTransport
      PROVE  Append(s, Broadcast(t)) \in Seq(Messages) /\ Grows(s, Append(s, Broadcast(t)))
  <2>1. Broadcast(t) \in Messages /\ Unasked(Broadcast(t))
    BY <1>2
  <2> HIDE DEF Broadcast
  <2> QED BY <2>1 DEF Grows
<1>6. ASSUME Served
      PROVE  /\ toReceiver # <<>> /\ ReceiverStep(q) /\ q \in Requests
             /\ \A type \in {"status", "INVALID_REQUEST"}, t \in 0..MaxTransport :
                  /\ Answer(q, type, t) \in Messages
                  /\ Answer(q, type, t).id = q.id /\ Answer(q, type, t).tag = q.tag /\ Answer(q, type, t).address = q.address
  <2>1. toReceiver # <<>> /\ ReceiverStep(q)
    BY <1>6 DEF Served
  <2>2. q \in Requests
    BY <1>1, <2>1, TailOf
  <2> HIDE DEF q
  <2> QED BY <2>1, <2>2 DEF Answer, Messages, Requests
<1> HIDE DEF q
<1>7. ASSUME Served, ReceiverLaunches(q)
      PROVE  /\ toReceiver' = Tail(toReceiver) /\ UNCHANGED <<sender, counter, ops, others>>
             /\ running' \in 0..MaxTransport /\ started' \in 0..MaxTransport
             /\ \E s, u \in Seq(Messages) : Grows(toSender, s) /\ Grows(s, u) /\ Sends(u)
  <2>1. PICK ending \in Endings :
             toSender' = toSender \o ending \o <<Broadcast(started + 1), Answer(q, "status", started + 1)>>
    BY <1>7 DEF ReceiverLaunches
  <2>2. /\ toReceiver' = Tail(toReceiver) /\ UNCHANGED <<sender, counter, ops, others>>
        /\ started' = started + 1 /\ running' = started + 1 /\ started + 1 \in 0..MaxTransport
    BY <1>1, <1>7 DEF ReceiverLaunches, Accepts
  <2> DEFINE s == toSender \o ending
             b == Broadcast(started + 1)
             w == Answer(q, "status", started + 1)
  <2>3. s \in Seq(Messages) /\ Grows(toSender, s)
    BY <1>4
  <2>4. b \in Messages /\ Append(s, b) \in Seq(Messages) /\ Grows(s, Append(s, b))
    BY <1>2, <1>5, <2>2, <2>3
  <2>5. w \in Messages /\ w.id = q.id /\ w.tag = q.tag /\ w.address = q.address
    BY <1>6, <1>7, <2>2
  <2>6. toSender' = s \o <<b, w>>
    BY <2>1
  <2> HIDE DEF s, b, w
  <2>7. toSender' = Append(Append(s, b), w)
    BY <2>3, <2>4, <2>5, <2>6, TwoMore
  <2>8. Sends(Append(s, b))
    BY <1>6, <1>7, <2>2, <2>5, <2>7 DEF Sends, q
  <2> QED BY <2>2, <2>3, <2>4, <2>8
<1>8. ASSUME Served, ReceiverFails(q) \/ ReceiverAnswers(q) \/ ReceiverRefuses(q)
      PROVE  /\ toReceiver' = Tail(toReceiver) /\ UNCHANGED <<sender, counter, ops, receiver>>
             /\ Sends(toSender)
  <2>1. /\ toReceiver' = Tail(toReceiver) /\ UNCHANGED <<sender, counter, ops, receiver>>
        /\ \/ toSender' = toSender
           \/ \E type \in {"status", "INVALID_REQUEST"} : toSender' = Append(toSender, Answer(q, type, running))
    BY <1>8 DEF ReceiverFails, ReceiverAnswers, ReceiverRefuses, Accepts
  <2>2. CASE toSender' = toSender
    BY <1>6, <1>8, <2>1, <2>2 DEF Sends
  <2>3. ASSUME NEW type \in {"status", "INVALID_REQUEST"}, toSender' = Append(toSender, Answer(q, type, running))
        PROVE  Sends(toSender)
    <3> DEFINE w == Answer(q, type, running)
    <3>1. w \in Messages /\ w.id = q.id /\ w.tag = q.tag /\ w.address = q.address
      BY <1>1, <1>6, <1>8
    <3>2. toSender' = Append(toSender, w)
      BY <2>3
    <3> HIDE DEF w
    <3> QED BY <1>6, <1>8, <2>1, <3>1, <3>2 DEF Sends, q
  <2> QED BY <2>1, <2>2, <2>3
<1>9. CASE Served
  <2>1. toReceiver # <<>> /\ ReceiverStep(q)
    BY <1>6, <1>9
  <2>2. CASE ReceiverLaunches(q)
    BY <1>1, <1>7, <1>9, <2>1, <2>2
  <2>3. CASE ReceiverFails(q) \/ ReceiverAnswers(q) \/ ReceiverRefuses(q)
    <3>1. UNCHANGED <<sender, counter, ops>> /\ UNCHANGED receiver /\ Sends(toSender)
      BY <1>8, <1>9, <2>3
    <3>2. running' = running /\ started' = started /\ others' = others
      BY <3>1 DEF receiver
    <3>3. Grows(toSender, toSender)
      BY DEF Grows
    <3> QED BY <1>1, <2>1, <3>1, <3>2, <3>3
  <2> QED BY <2>1, <2>2, <2>3 DEF ReceiverStep
<1>10. ASSUME NEW t \in 0..MaxTransport, StatusChanges(t)
       PROVE  /\ toReceiver' = toReceiver /\ UNCHANGED <<sender, counter, ops, others>>
              /\ running' \in 0..MaxTransport /\ started' \in 0..MaxTransport
              /\ \E s, u \in Seq(Messages) : Grows(toSender, s) /\ Grows(s, u) /\ Sends(u)
  <2>1. PICK ending \in Endings : toSender' = toSender \o (IF t = running THEN <<>> ELSE ending) \o <<Broadcast(t)>>
    BY <1>10 DEF StatusChanges
  <2>2. /\ toReceiver' = toReceiver /\ UNCHANGED <<sender, counter, ops, others>>
        /\ running' = t /\ started' \in {started, t}
    BY <1>10 DEF StatusChanges
  <2> DEFINE last == IF t = running THEN <<>> ELSE ending
             s == toSender \o last
             b == Broadcast(t)
  <2>3. last \in Endings
    BY DEF Endings
  <2>4. s \in Seq(Messages) /\ Grows(toSender, s)
    <3> HIDE DEF last
    <3> QED BY <1>4, <2>3
  <2>5. b \in Messages /\ Append(s, b) \in Seq(Messages) /\ Grows(s, Append(s, b))
    BY <1>2, <1>5, <2>4
  <2>6. toSender' = s \o <<b>>
    BY <2>1
  <2> HIDE DEF s, b
  <2>7. toSender' = Append(s, b)
    BY <2>4, <2>5, <2>6
  <2>8. Sends(Append(s, b))
    BY <2>2, <2>7 DEF Sends
  <2> QED BY <1>1, <2>2, <2>4, <2>5, <2>8
<1>11. CASE OthersAreAnswered
  <2>1. PICK id \in OtherIds, address \in {Receiver} \cup ({<<"media", running>>} \cap Addresses),
             type \in {"status", "INVALID_REQUEST"} : toSender' = Append(toSender, Foreign(address, id, type, running))
    BY <1>11 DEF OthersAreAnswered
  <2>2. /\ UNCHANGED <<sender, counter, ops, toReceiver, running, started>>
        /\ others' \in 0..MaxOthers
    BY <1>1, <1>11 DEF OthersAreAnswered
  <2> DEFINE f == Foreign(address, id, type, running)
  <2>3. f \in Messages /\ f.to = "*"
    BY <1>1 DEF Foreign, Messages
  <2>4. toSender' = Append(toSender, f)
    BY <2>1
  <2> HIDE DEF f
  <2>5. Append(toSender, f) \in Seq(Messages) /\ Grows(toSender, Append(toSender, f)) /\ Grows(toSender, toSender)
    BY <1>1, <2>3 DEF Grows, Unasked
  <2>6. Sends(Append(toSender, f))
    BY <2>2, <2>4 DEF Sends
  <2> QED BY <1>1, <2>2, <2>5, <2>6
<1> QED BY <1>1, <1>9, <1>10, <1>11 DEF ReceiverActs

LEMMA ReceiverSteps ==
  ASSUME IInv, ReceiverActs
  PROVE  IInv'
<1>1. /\ TypeOK /\ RegistryIsExact /\ Initializing /\ LaunchCallbackIsOwn /\ TagsAreIds
      /\ toReceiver \in Seq(Requests) /\ toSender \in Seq(Messages)
      /\ WellTagged(toReceiver)
      /\ AnswersTagged(toSender)
  BY DEF IInv, TypeOK, TagsAreIds
<1>2. /\ running' \in 0..MaxTransport /\ started' \in 0..MaxTransport /\ others' \in 0..MaxOthers
      /\ UNCHANGED <<sender, counter, ops>>
      /\ \E s, u \in Seq(Messages) : Grows(toSender, s) /\ Grows(s, u) /\ Sends(u)
  BY <1>1, ReceiverSends
\* What is appended to the messages under way keeps them typed and tagged.
<1>3. ASSUME NEW s \in Seq(Messages), AnswersTagged(s), NEW x \in Messages, x.to = "sender" => x.id = x.tag
      PROVE  Append(s, x) \in Seq(Messages) /\ AnswersTagged(Append(s, x))
  <2>1. /\ Append(s, x) \in Seq(Messages)
        /\ \A k \in 1..Len(Append(s, x)) : Append(s, x)[k] = x \/ (k \in 1..Len(s) /\ Append(s, x)[k] = s[k])
    BY AppendOf
  <2> QED BY <1>3, <2>1 DEF AnswersTagged
<1>4. ASSUME NEW s \in Seq(Messages), AnswersTagged(s), NEW u \in Seq(Messages), Grows(s, u)
      PROVE  AnswersTagged(u)
  BY <1>3, <1>4 DEF Grows, Unasked
<1>5. PICK u \in Seq(Messages) : AnswersTagged(u) /\ Sends(u)
  BY <1>1, <1>2, <1>4
<1>6. ASSUME toReceiver # <<>>
      PROVE  /\ Tail(toReceiver) \in Seq(Requests) /\ WellTagged(Tail(toReceiver))
             /\ Head(toReceiver).id = Head(toReceiver).tag
  <2>1. /\ Tail(toReceiver) \in Seq(Requests) /\ Head(toReceiver) = toReceiver[1] /\ 1 \in 1..Len(toReceiver)
        /\ \A k \in 1..Len(Tail(toReceiver)) : k + 1 \in 1..Len(toReceiver) /\ Tail(toReceiver)[k] = toReceiver[k + 1]
    BY <1>1, <1>6, TailOf
  <2> QED BY <1>1, <2>1 DEF WellTagged
<1>7. toReceiver' \in Seq(Requests) /\ WellTagged(toReceiver')
  BY <1>1, <1>5, <1>6 DEF Sends
<1>8. toSender' \in Seq(Messages) /\ AnswersTagged(toSender')
  <2>1. CASE toSender' = u
    BY <1>5, <2>1
  <2>2. ASSUME toReceiver # <<>>, NEW w \in Messages, w.id = Head(toReceiver).id, w.tag = Head(toReceiver).tag,
               toSender' = Append(u, w)
        PROVE  toSender' \in Seq(Messages) /\ AnswersTagged(toSender')
    BY <1>3, <1>5, <1>6, <2>2
  <2> QED BY <1>5, <2>1, <2>2 DEF Sends
<1>9. TypeOK'
  BY <1>1, <1>2, <1>7, <1>8 DEF TypeOK, sender
<1>10. RegistryIsExact' /\ Initializing' /\ LaunchCallbackIsOwn' /\ TagsAreIds'
  BY <1>1, <1>2, <1>7, <1>8 DEF RegistryIsExact, Initializing, LaunchCallbackIsOwn, TagsAreIds, sender
<1> QED BY <1>9, <1>10 DEF IInv

LEMMA NextIInv == IInv /\ [Next]_vars => IInv'
<1> SUFFICES ASSUME IInv, [Next]_vars PROVE IInv'
  OBVIOUS
<1>1. CASE UNCHANGED vars
  <2>0. UNCHANGED <<sender, receiver, counter, ops, toReceiver, toSender>>
    BY <1>1 DEF vars, sender, receiver
  <2>1. TypeOK'
    BY <2>0 DEF IInv, TypeOK, sender, receiver
  <2>2. RegistryIsExact'
    BY <2>0 DEF IInv, RegistryIsExact, sender
  <2>3. Initializing' /\ LaunchCallbackIsOwn'
    BY <2>0 DEF IInv, Initializing, LaunchCallbackIsOwn, sender
  <2>4. TagsAreIds'
    BY <2>0 DEF IInv, TagsAreIds, sender
  <2> QED BY <2>1, <2>2, <2>3, <2>4 DEF IInv
<1>2. CASE Next
  BY <1>2, UserSteps, MessageSteps, ReceiverSteps DEF Next, ReceiverActs
<1> QED BY <1>1, <1>2

LEMMA Invariance == Spec => []IInv
  BY InitIInv, NextIInv, PTL DEF Spec

-----------------------------------------------------------------------------
(* Queues and entries *)

\* A request is sent: its id is new.
LEMMA SendingKeeps ==
  ASSUME NEW entries \in SUBSET Requests, NEW last \in Nat, NEW asked \in Seq(Requests), NEW answers \in Seq(Messages),
         Expected(entries, last, asked, answers),
         NEW left \in SUBSET Requests, \A r \in left : r.id <= last,
         \A r \in entries : \E s \in left : s.id = r.id /\ s.address = r.address,
         NEW q \in Requests, q.id = last + 1
  PROVE  Expected(left \cup {q}, last + 1, Append(asked, q), answers)
<1> DEFINE longer == Append(asked, q)
           more == left \cup {q}
<1>1. /\ Len(asked) \in Nat /\ Len(longer) = Len(asked) + 1
      /\ \A k \in 1..Len(longer) :
           \/ k = Len(asked) + 1 /\ longer[k] = q
           \/ k \in 1..Len(asked) /\ longer[k] = asked[k]
  BY AppendOf
<1>2. \A r \in entries : r.id \in Nat /\ r.id # q.id
  BY DEF Requests, Expected
<1>3. \A r \in more : r.id <= last + 1
  BY DEF Requests
<1> HIDE DEF longer
<1>4. \A k \in 1..Len(asked) : asked[k].id # q.id
  BY <1>2 DEF Expected
<1>5. \A k \in 1..Len(answers) : IsOurs(answers[k]) => answers[k].id # q.id
  BY <1>2 DEF Expected
<1>6. \A r \in entries : \E s \in more : s.id = r.id /\ s.address = r.address
  OBVIOUS
<1>7. ASSUME NEW j \in 1..Len(longer)
      PROVE  /\ \E r \in more : r.id = longer[j].id /\ r.address = longer[j].address
             /\ \A k \in 1..Len(longer) : longer[j].id = longer[k].id => j = k
             /\ \A k \in 1..Len(answers) : IsOurs(answers[k]) => longer[j].id # answers[k].id
  <2>1. CASE j \in 1..Len(asked) /\ longer[j] = asked[j]
    <3>1. ASSUME NEW k \in 1..Len(longer), longer[j].id = longer[k].id
          PROVE  j = k
      <4>1. CASE k \in 1..Len(asked) /\ longer[k] = asked[k]
        BY <2>1, <3>1, <4>1, Zenon DEF Expected
      <4>2. CASE longer[k] = q
        BY <2>1, <3>1, <4>2, <1>4
      <4> QED BY <1>1, <4>1, <4>2, Zenon
    <3>2. \E r \in more : r.id = longer[j].id /\ r.address = longer[j].address
      BY <2>1, <1>6 DEF Expected
    <3> QED BY <2>1, <3>1, <3>2 DEF Expected
  <2>2. CASE j = Len(asked) + 1 /\ longer[j] = q
    <3>1. ASSUME NEW k \in 1..Len(longer), longer[j].id = longer[k].id
          PROVE  j = k
      BY <2>2, <3>1, <1>1, <1>4
    <3> QED BY <2>2, <3>1, <1>5
  <2> QED BY <1>1, <2>1, <2>2
<1>8. \A j \in 1..Len(answers) :
        IsOurs(answers[j]) =>
          /\ \E r \in more : r.id = answers[j].id /\ r.address = answers[j].address
          /\ \A k \in 1..Len(answers) : IsOurs(answers[k]) /\ answers[j].id = answers[k].id => j = k
  BY <1>6 DEF Expected
<1> HIDE DEF more
<1>9. Expected(more, last + 1, longer, answers)
  BY <1>3, <1>7, <1>8 DEF Expected
<1> QED BY <1>9 DEF longer, more

\* A message that is no answer to a request of ours.
LEMMA OthersKeep ==
  ASSUME NEW entries \in SUBSET Requests, NEW last, NEW asked \in Seq(Requests), NEW answers \in Seq(Messages),
         Expected(entries, last, asked, answers),
         NEW b \in Messages, ~IsOurs(b)
  PROVE  Expected(entries, last, asked, Append(answers, b))
<1> DEFINE longer == Append(answers, b)
<1>1. \A k \in 1..Len(longer) : IsOurs(longer[k]) => k \in 1..Len(answers) /\ longer[k] = answers[k]
  BY AppendOf
<1> HIDE DEF longer
<1>2. \A j \in 1..Len(asked) : \A k \in 1..Len(longer) : IsOurs(longer[k]) => asked[j].id # longer[k].id
  BY <1>1 DEF Expected
<1>3. ASSUME NEW j \in 1..Len(longer), IsOurs(longer[j])
      PROVE  /\ \E r \in entries : r.id = longer[j].id /\ r.address = longer[j].address
             /\ \A k \in 1..Len(longer) : IsOurs(longer[k]) /\ longer[j].id = longer[k].id => j = k
  <2>1. j \in 1..Len(answers) /\ longer[j] = answers[j]
    BY <1>1, <1>3
  <2>2. ASSUME NEW k \in 1..Len(longer), IsOurs(longer[k]), longer[j].id = longer[k].id
        PROVE  j = k
    <3>1. k \in 1..Len(answers) /\ longer[k] = answers[k]
      BY <1>1, <2>2
    <3> QED BY <2>1, <2>2, <3>1, <1>3 DEF Expected
  <2> QED BY <2>1, <2>2, <1>3 DEF Expected
<1>4. Expected(entries, last, asked, longer)
  BY <1>2, <1>3 DEF Expected
<1> QED BY <1>4 DEF longer

\* The receiver takes the first request.
LEMMA TakingKeeps ==
  ASSUME NEW entries, NEW last, NEW asked \in Seq(Requests), NEW answers,
         Expected(entries, last, asked, answers), asked # <<>>
  PROVE  Expected(entries, last, Tail(asked), answers)
<1> DEFINE rest == Tail(asked)
<1>1. \A k \in 1..Len(rest) : k \in Int /\ k + 1 \in 1..Len(asked) /\ rest[k] = asked[k + 1]
  BY TailOf
<1> HIDE DEF rest
<1>2. ASSUME NEW j \in 1..Len(rest)
      PROVE  /\ \E r \in entries : r.id = rest[j].id /\ r.address = rest[j].address
             /\ \A k \in 1..Len(answers) : IsOurs(answers[k]) => rest[j].id # answers[k].id
  <2>1. j + 1 \in 1..Len(asked) /\ rest[j] = asked[j + 1]
    BY <1>1
  <2> QED BY <2>1 DEF Expected
<1>3. ASSUME NEW j \in 1..Len(rest), NEW k \in 1..Len(rest), rest[j].id = rest[k].id
      PROVE  j = k
  <2>1. j + 1 = k + 1
    <3>1. /\ j + 1 \in 1..Len(asked) /\ rest[j] = asked[j + 1]
          /\ k + 1 \in 1..Len(asked) /\ rest[k] = asked[k + 1]
      BY <1>1
    <3>2. \A a, b \in 1..Len(asked) : asked[a].id = asked[b].id => a = b
      BY DEF Expected
    <3> QED BY <1>3, <3>1, <3>2, Zenon
  <2> QED BY <1>1, <2>1
<1>4. Expected(entries, last, rest, answers)
  BY <1>2, <1>3 DEF Expected
<1> QED BY <1>4 DEF rest

\* ... and answers it.
LEMMA AnsweringKeeps ==
  ASSUME NEW entries, NEW last, NEW asked \in Seq(Requests), NEW answers \in Seq(Messages),
         Expected(entries, last, asked, answers), asked # <<>>,
         NEW m \in Messages, m.id = Head(asked).id, m.address = Head(asked).address
  PROVE  Expected(entries, last, Tail(asked), Append(answers, m))
<1> DEFINE rest == Tail(asked)
           longer == Append(answers, m)
<1>1. /\ Head(asked) = asked[1] /\ 1 \in 1..Len(asked)
      /\ \A k \in 1..Len(rest) : k + 1 \in 1..Len(asked) /\ rest[k] = asked[k + 1] /\ k + 1 # 1
  BY TailOf
<1>2. /\ Len(answers) \in Nat
      /\ \A k \in 1..Len(longer) :
           \/ k = Len(answers) + 1 /\ longer[k] = m
           \/ k \in 1..Len(answers) /\ longer[k] = answers[k]
  BY AppendOf
<1>3. Expected(entries, last, rest, answers)
  BY TakingKeeps
<1> HIDE DEF rest, longer
<1>4. /\ \A k \in 1..Len(answers) : IsOurs(answers[k]) => answers[k].id # m.id
      /\ \A k \in 1..Len(rest) : rest[k].id # m.id
      /\ \E r \in entries : r.id = m.id /\ r.address = m.address
  <2>1. m.id = asked[1].id /\ m.address = asked[1].address
    BY <1>1
  <2>2. \A k \in 1..Len(answers) : IsOurs(answers[k]) => answers[k].id # m.id
    BY <2>1, <1>1 DEF Expected
  <2>3. \E r \in entries : r.id = m.id /\ r.address = m.address
    BY <2>1, <1>1 DEF Expected
  <2>4. ASSUME NEW k \in 1..Len(rest)
        PROVE  rest[k].id # m.id
    <3>1. k + 1 \in 1..Len(asked) /\ rest[k] = asked[k + 1] /\ k + 1 # 1
      BY <1>1
    <3>2. asked[k + 1].id # asked[1].id
      BY <3>1, <1>1 DEF Expected
    <3> QED BY <2>1, <3>1, <3>2
  <2> QED BY <2>2, <2>3, <2>4
<1>5. ASSUME NEW j \in 1..Len(rest), NEW k \in 1..Len(longer), IsOurs(longer[k])
      PROVE  rest[j].id # longer[k].id
  <2>1. CASE longer[k] = m
    BY <2>1, <1>4
  <2>2. CASE k \in 1..Len(answers) /\ longer[k] = answers[k]
    <3>1. \A i \in 1..Len(rest), n \in 1..Len(answers) : IsOurs(answers[n]) => rest[i].id # answers[n].id
      BY <1>3 DEF Expected
    <3> QED BY <1>5, <2>2, <3>1
  <2> QED BY <1>2, <2>1, <2>2
<1>6. ASSUME NEW j \in 1..Len(longer), IsOurs(longer[j])
      PROVE  /\ \E r \in entries : r.id = longer[j].id /\ r.address = longer[j].address
             /\ \A k \in 1..Len(longer) : IsOurs(longer[k]) /\ longer[j].id = longer[k].id => j = k
  <2>1. CASE j = Len(answers) + 1 /\ longer[j] = m
    BY <2>1, <1>2, <1>4
  <2>2. CASE j \in 1..Len(answers) /\ longer[j] = answers[j]
    <3>1. IsOurs(answers[j])
      BY <2>2, <1>6
    <3>2. \E r \in entries : r.id = answers[j].id /\ r.address = answers[j].address
      BY <2>2, <3>1, <1>3 DEF Expected
    <3>3. ASSUME NEW k \in 1..Len(longer), IsOurs(longer[k]), longer[j].id = longer[k].id
          PROVE  j = k
      <4>1. k \in 1..Len(answers) /\ longer[k] = answers[k]
        BY <2>2, <3>1, <3>3, <1>2, <1>4
      <4>2. IsOurs(answers[k]) /\ answers[j].id = answers[k].id
        BY <2>2, <3>3, <4>1
      <4> QED BY <2>2, <3>1, <4>1, <4>2, <1>3 DEF Expected
    <3> QED BY <2>2, <3>2, <3>3
  <2> QED BY <1>2, <2>1, <2>2
<1>7. Expected(entries, last, rest, longer)
  BY <1>3, <1>5, <1>6 DEF Expected
<1> QED BY <1>7 DEF rest, longer

\* A message arrives: only the entry it answers may go.
LEMMA ArrivingKeeps ==
  ASSUME NEW entries, NEW last, NEW asked \in Seq(Requests), NEW answers \in Seq(Messages),
         Expected(entries, last, asked, answers), answers # <<>>,
         NEW left \in SUBSET entries,
         \A r \in entries : r \in left \/ (IsOurs(Head(answers)) /\ r.id = Head(answers).id)
  PROVE  Expected(left, last, asked, Tail(answers))
<1> DEFINE rest == Tail(answers)
<1>1. /\ Head(answers) = answers[1] /\ 1 \in 1..Len(answers)
      /\ \A k \in 1..Len(rest) : k + 1 \in 1..Len(answers) /\ rest[k] = answers[k + 1] /\ k + 1 # 1
  BY TailOf
<1> HIDE DEF rest
<1>2. \A k \in 1..Len(asked) : \E r \in left : r.id = asked[k].id /\ r.address = asked[k].address
  BY <1>1 DEF Expected
<1>3. ASSUME NEW k \in 1..Len(rest), IsOurs(rest[k])
      PROVE  \E r \in left : r.id = rest[k].id /\ r.address = rest[k].address
  <2>1. k + 1 \in 1..Len(answers) /\ rest[k] = answers[k + 1] /\ k + 1 # 1 /\ IsOurs(answers[k + 1])
    BY <1>1, <1>3
  <2>2. IsOurs(answers[1]) => answers[k + 1].id # answers[1].id
    BY <1>1, <2>1 DEF Expected
  <2>3. PICK r \in entries : r.id = rest[k].id /\ r.address = rest[k].address
    BY <2>1 DEF Expected
  <2> QED BY <1>1, <2>1, <2>2, <2>3
<1>4. ASSUME NEW j \in 1..Len(rest), IsOurs(rest[j]), NEW k \in 1..Len(rest), IsOurs(rest[k]), rest[j].id = rest[k].id
      PROVE  j = k
  <2>1. /\ j + 1 \in 1..Len(answers) /\ k + 1 \in 1..Len(answers)
        /\ rest[j] = answers[j + 1] /\ rest[k] = answers[k + 1]
    BY <1>1
  <2>2. IsOurs(answers[j + 1]) /\ IsOurs(answers[k + 1]) /\ answers[j + 1].id = answers[k + 1].id
    BY <1>4, <2>1
  <2>3. j + 1 = k + 1
    BY <2>1, <2>2 DEF Expected
  <2> QED BY <2>3
<1>5. \A j \in 1..Len(asked) : \A k \in 1..Len(rest) : IsOurs(rest[k]) => asked[j].id # rest[k].id
  BY <1>1 DEF Expected
<1>6. /\ \A r \in left : r.id <= last
      /\ \A j \in 1..Len(asked) : \A k \in 1..Len(asked) : asked[j].id = asked[k].id => j = k
  BY DEF Expected
<1>7. Expected(left, last, asked, rest)
  BY <1>2, <1>3, <1>4, <1>5, <1>6 DEF Expected
<1> QED BY <1>7 DEF rest

\* Connections that are closed have been opened, whatever is appended or arrives.
LEMMA OpenedGrows ==
  ASSUME NEW S, NEW s \in Seq(Messages), Opened(S, s), NEW x \in Messages,
         x.to = "sender" /\ x.id = 0 => x.address \in {"connection"} \X S
  PROVE  Opened(S, Append(s, x))
<1>1. \A k \in 1..Len(Append(s, x)) : Append(s, x)[k] = x \/ (k \in 1..Len(s) /\ Append(s, x)[k] = s[k])
  BY AppendOf
<1> QED BY <1>1 DEF Opened

LEMMA OpenedShrinks ==
  ASSUME NEW S, NEW T, S \subseteq T, NEW s \in Seq(Messages), s # <<>>, Opened(S, s)
  PROVE  Opened(T, Tail(s))
<1>1. \A k \in 1..Len(Tail(s)) : k + 1 \in 1..Len(s) /\ Tail(s)[k] = s[k + 1]
  BY TailOf
<1> QED BY <1>1 DEF Opened

-----------------------------------------------------------------------------
(* One Launch alone *)

LEMMA InitQuiet == Init => Quiet
  BY DEF Init, Quiet, Alone, Spared, Undisturbed, Expected, Opened

\* What is true of the variables when nobody disturbs.
LEMMA Typed ==
  ASSUME IInv
  PROVE  /\ pending \in SUBSET Requests /\ toReceiver \in Seq(Requests) /\ toSender \in Seq(Messages)
         /\ counter \in Nat /\ ops \in Nat /\ onLaunched \in Nat
         /\ application \in Apps \cup {None} /\ None \notin Apps
         /\ conn \in [Apps -> 0..MaxTransport] /\ media \in [Apps -> 0..MaxTransport]
         /\ connected \subseteq Transports
         /\ \A r \in Requests : r.id \in Nat \ {0}
         /\ \A m \in Messages : m.id \in Nat
<1> USE ConstantsAssumption
<1>1. (\A r \in Requests : r.id \in 1..MaxId) /\ (\A m \in Messages : m.id \in 0..MaxId)
  BY DEF Requests, Messages
<1>2. /\ pending \in SUBSET Requests /\ toReceiver \in Seq(Requests) /\ toSender \in Seq(Messages)
      /\ counter \in 0..MaxId /\ ops \in 0..MaxOps /\ onLaunched \in 0..MaxOps
      /\ application \in Apps \cup {None} /\ None \notin Apps
      /\ conn \in [Apps -> 0..MaxTransport] /\ media \in [Apps -> 0..MaxTransport]
      /\ connected \subseteq Transports
  BY DEF IInv, TypeOK
<1> QED BY <1>1, <1>2

\* Sending a request.
LEMMA RequestExpected ==
  ASSUME IInv, IInv', Undisturbed,
         NEW left \in SUBSET Requests, \A r \in left : r.id <= counter,
         \A r \in pending : \E s \in left : s.id = r.id /\ s.address = r.address,
         NEW address, NEW kind, NEW a, NEW l, Request(left, address, kind, a, l),
         toSender' \in Seq(Messages), Expected(pending, counter, toReceiver, toSender')
  PROVE  /\ Expected(pending', counter', toReceiver', toSender')
         /\ \A r \in pending' : r \in left \/ (r.kind = kind /\ r.address = address)
<1> DEFINE r == [id |-> counter + 1, tag |-> counter + 1, address |-> address,
                 kind |-> kind, app |-> a, op |-> l, armed |-> TRUE]
<1>1. counter' = counter + 1 /\ pending' = left \cup {r} /\ toReceiver' = Append(toReceiver, r)
  BY DEF Request, NextId
<1>2. r.id = counter + 1 /\ r.kind = kind /\ r.address = address
  OBVIOUS
<1> HIDE DEF r
<1>3. r \in Requests
  BY <1>1, Typed DEF IInv, TypeOK
<1>4. Expected(pending', counter', toReceiver', toSender')
  BY <1>1, <1>2, <1>3, Typed, SendingKeeps
<1> QED BY <1>1, <1>2, <1>4

LEMMA UserQuiet ==
  ASSUME IInv, IInv', Quiet,
         (\E a \in Apps : Launch(a) \/ Join(a) \/ Drop(a)) \/ (\E r \in pending : Retry(r))
  PROVE  Quiet'
<1>1. ASSUME NEW a \in Apps, Launch(a) PROVE Quiet'
  <2>1. /\ ops' = ops + 1 /\ onLaunched' = ops + 1 /\ application' = a
        /\ status = "running" /\ UNCHANGED <<conn, toSender, status, connected, taken>>
        /\ media' = [b \in Apps |-> IF b = application THEN 0 ELSE media[b]]
    BY <1>1 DEF Launch
  <2>2. SUFFICES ASSUME Spared' PROVE Undisturbed'
    BY <2>1, Typed DEF Quiet
  <2>3. ops = 0 /\ Undisturbed
    BY <2>1, <2>2, Typed DEF Alone, Spared, Quiet
  <2>4. application = None /\ pending = {}
    BY <2>3 DEF Undisturbed
  <2>5. Request({}, Receiver, "launch", a, ops + 1)
    <3>1. WithoutChannels(pending, {}) = {}
      BY <2>4 DEF WithoutChannels
    <3> QED BY <1>1, <2>4, <3>1 DEF Launch
  <2>6. /\ Expected(pending', counter', toReceiver', toSender')
        /\ \A r \in pending' : r.kind = "launch" /\ r.address = Receiver
    BY <2>1, <2>3, <2>4, <2>5, Typed, RequestExpected DEF Undisturbed
  <2>7. \A b \in Apps : conn'[b] = 0 /\ media'[b] = 0
    BY <2>1, <2>3, <2>4, Typed DEF Undisturbed
  <2>8. \A t \in connected : \E b \in Apps : conn'[b] = t
    BY <2>1, <2>3 DEF Undisturbed
  <2> QED BY <2>1, <2>3, <2>6, <2>7, <2>8, Typed DEF Undisturbed
<1>2. ASSUME NEW a \in Apps, Join(a) PROVE Quiet'
  <2>1. ops' = ops + 1 /\ onLaunched' = onLaunched
    BY <1>2 DEF Join
  <2>2. ops \in Nat /\ onLaunched \in Nat /\ onLaunched <= ops
    BY Typed DEF Quiet
  <2>3. onLaunched' <= ops' /\ ~Alone'
    BY <2>1, <2>2 DEF Alone
  <2> QED BY <2>3 DEF Quiet, Spared
<1>3. ASSUME NEW a \in Apps, Drop(a) PROVE Quiet'
  <2>1. /\ a # application
        /\ pending' = WithoutChannels(pending, ChannelsOf(a))
        /\ conn' = [conn EXCEPT ![a] = 0] /\ media' = [media EXCEPT ![a] = 0]
        /\ UNCHANGED <<application, launching, onLaunched, counter, ops, toReceiver, toSender, status,
                       connected, taken>>
    BY <1>3 DEF Drop
  <2>2. SUFFICES ASSUME Undisturbed PROVE Undisturbed'
    BY <2>1 DEF Quiet, Alone, Spared
  <2>3. conn[a] = 0 /\ media[a] = 0
    BY <2>1, <2>2 DEF Undisturbed
  <2>4. ChannelsOf(a) = {}
    BY <2>3 DEF ChannelsOf, Addresses, Transports
  <2>5. pending' = pending
    BY <2>1, <2>4 DEF WithoutChannels
  <2>6. \A b \in Apps : conn'[b] = conn[b] /\ media'[b] = media[b]
    BY <2>1, <2>3, Typed
  <2> QED BY <2>1, <2>2, <2>5, <2>6 DEF Undisturbed
<1>4. ASSUME NEW r \in pending, Retry(r) PROVE Quiet'
  <2> DEFINE disarmed == [r EXCEPT !.armed = FALSE]
             left == (pending \ {r}) \cup {disarmed}
  <2>1. /\ Request(left, r.address, r.kind, r.app, r.op)
        /\ UNCHANGED <<application, launching, onLaunched, conn, media, ops, toSender, status, connected, taken>>
    BY <1>4 DEF Retry
  <2>2. SUFFICES ASSUME Undisturbed PROVE Undisturbed'
    BY <2>1 DEF Quiet, Alone, Spared
  <2>3. /\ disarmed \in Requests /\ disarmed.id = r.id /\ disarmed.address = r.address /\ disarmed.kind = r.kind
    <3>1. r \in Requests
      BY Typed
    <3> QED BY <3>1 DEF Requests
  <2> HIDE DEF disarmed
  <2>4. left \in SUBSET Requests /\ \A s \in left : s.id <= counter
    BY <2>2, <2>3, Typed DEF Undisturbed, Expected
  <2>5. \A s \in pending : \E t \in left : t.id = s.id /\ t.address = s.address
    BY <2>3
  <2>6. \A s \in left : \E t \in pending : s.kind = t.kind /\ s.address = t.address
    BY <2>3
  <2> HIDE DEF left
  <2>7. /\ Expected(pending', counter', toReceiver', toSender')
        /\ \A s \in pending' : s \in left \/ (s.kind = r.kind /\ s.address = r.address)
    BY <2>1, <2>2, <2>4, <2>5, Typed, RequestExpected DEF Undisturbed
  <2>8. \A s \in pending' : (s.kind = "launch" /\ s.address = Receiver) \/ s.kind = "initLaunched"
    BY <2>2, <2>6, <2>7 DEF Undisturbed
  <2> QED BY <2>1, <2>2, <2>7, <2>8 DEF Undisturbed
<1> QED BY <1>1, <1>2, <1>3, <1>4


\* An answer finds its entry, at a channel that is registered.
LEMMA MessageQuiet ==
  ASSUME IInv, IInv', Quiet, Arrives
  PROVE  Quiet'
<1> DEFINE m == Head(toSender)
<1>1. /\ toSender # <<>> /\ m = toSender[1] /\ 1 \in 1..Len(toSender) /\ m \in Messages
      /\ m.running # 0 => m.running \in Transports
      /\ toSender' = Tail(toSender) /\ Tail(toSender) \in Seq(Messages)
      /\ status = "running" /\ UNCHANGED <<onLaunched, ops>>
  <2>1. toSender # <<>> /\ OnMessage(m)
    BY DEF Arrives
  <2>2. m = toSender[1] /\ 1 \in 1..Len(toSender) /\ m \in Messages /\ Tail(toSender) \in Seq(Messages)
    BY <2>1, Typed, TailOf
  <2> HIDE DEF m
  <2>3. m.running # 0 => m.running \in Transports
    BY <2>2, ConstantsAssumption DEF Messages, Transports
  <2>4. toSender' = Tail(toSender) /\ status = "running" /\ UNCHANGED <<onLaunched, ops>>
    BY <2>1 DEF OnMessage, OnReceiverStatus, OnLaunchResponse, OnJoinRefused, OnJoinAccepted, OnInitialized, Completes,
       OnUnrecognizedAddress, OnInvalidRequest, OnClose, OnUnhandledMessage, EndsWith, Received
  <2> QED BY <2>1, <2>2, <2>3, <2>4
<1>2. taken' = {} => taken = {}
  <2>1. taken \subseteq taken'
    BY DEF Arrives, OnMessage, OnReceiverStatus, OnLaunchResponse, OnJoinRefused, OnJoinAccepted, OnInitialized, Completes,
       OnUnrecognizedAddress, OnInvalidRequest, OnClose, OnUnhandledMessage, EndsWith
  <2> QED BY <2>1
<1>3. SUFFICES ASSUME Spared', Undisturbed PROVE Undisturbed'
  BY <1>1, <1>2 DEF Quiet, Alone, Spared
<1>4. OnMessage(m) /\ taken' = {} /\ status' \notin {"refused", "closed"}
  BY <1>3 DEF Arrives, Spared
<1> HIDE DEF m
<1>5. \A r \in pending : r.kind \notin {"join", "initJoined"}
  BY <1>3 DEF Undisturbed
<1>6. Opened(connected, Tail(toSender))
  BY <1>1, <1>3, Typed, OpenedShrinks DEF Undisturbed
\* Nothing but an entry that has been answered goes.
<1>7. ASSUME NEW left \in SUBSET pending, \A r \in pending : r \in left \/ (IsOurs(m) /\ r.id = m.id), pending' = left,
             launching' \in {launching, FALSE},
             UNCHANGED <<application, conn, media, counter, ops, toReceiver, status, connected>>
      PROVE  Undisturbed'
  <2>1. Expected(pending, counter, toReceiver, toSender)
    BY <1>3 DEF Undisturbed
  <2>2. Expected(left, counter, toReceiver, Tail(toSender))
    BY <2>1, <1>1, <1>7, Typed, ArrivingKeeps DEF m
  <2>3. Expected(pending', counter', toReceiver', toSender')
    <3>1. pending' = left /\ counter' = counter /\ toReceiver' = toReceiver /\ toSender' = Tail(toSender)
      BY <1>1, <1>7
    <3> QED BY <2>2, <3>1
  <2>4. ~launching => ~launching'
    BY <1>7
  <2>5. \A a \in Apps : conn'[a] # 0 \/ media'[a] # 0 => a = application' /\ ~launching'
    BY <2>4, <1>3, <1>7 DEF Undisturbed
  <2>6. \A r \in pending' : (r.kind = "launch" /\ r.address = Receiver) \/ r.kind = "initLaunched"
    BY <1>3, <1>7 DEF Undisturbed
  <2>7. (application' = None <=> ops' = 0) /\ (application' = None => pending' = {}) /\ status' = "running"
    BY <1>3, <1>7 DEF Undisturbed
  <2>8. Opened(connected', toSender') /\ \A t \in connected' : \E a \in Apps : conn'[a] = t
    <3>1. connected' = connected /\ conn' = conn /\ toSender' = Tail(toSender)
      BY <1>1, <1>7
    <3> QED BY <1>3, <1>6, <3>1 DEF Undisturbed
  <2> QED BY <2>3, <2>5, <2>6, <2>7, <2>8 DEF Undisturbed
<1>8. CASE OnReceiverStatus(m)
  <2>1. CASE application = None \/ m.running = 0 \/ ~launching
    <3>1. pending' = pending /\ UNCHANGED <<launching, application, conn, media, counter, ops, toReceiver, status, connected>>
      BY <1>8, <2>1 DEF OnReceiverStatus, Received
    <3> QED BY <3>1, <1>7
  <2>2. CASE application # None /\ m.running # 0 /\ launching
    <3> DEFINE t == m.running
    <3>1. /\ launching' = FALSE /\ UNCHANGED <<application, ops>> /\ m.id = 0
          /\ Initialize(application, t, pending, "initLaunched", onLaunched)
      BY <1>8, <2>2 DEF OnReceiverStatus, Received
    <3>2. t \in Transports /\ application \in Apps
      BY <1>1, <2>2, Typed
    <3> HIDE DEF t
    <3>3. \A a \in Apps : conn[a] = 0 /\ media[a] = 0
      BY <1>3, <2>2 DEF Undisturbed
    <3>4. registry[<<"connection", t>>] = None /\ registry[<<"media", t>>] = None
      <4>1. t # 0 /\ <<"connection", t>> \in Addresses /\ <<"media", t>> \in Addresses
        BY <3>2 DEF Transports, Addresses
      <4>2. registry[<<"connection", t>>] \in Apps \cup {None} /\ registry[<<"media", t>>] \in Apps \cup {None}
        BY <4>1 DEF IInv, TypeOK
      <4> QED BY <4>1, <4>2, <3>2, <3>3 DEF IInv, RegistryIsExact
    <3>5. ChannelsOf(application) = {}
      BY <3>2, <3>3 DEF ChannelsOf, Addresses, Transports
    <3>6. WithoutChannels(pending, ChannelsOf(application)) = pending
      BY <3>5 DEF WithoutChannels
    <3>7. /\ Request(pending, <<"media", t>>, "initLaunched", application, onLaunched)
          /\ conn' = [conn EXCEPT ![application] = t] /\ media' = [media EXCEPT ![application] = t]
          /\ connected' = connected \cup {t}
          /\ UNCHANGED status
      BY <3>1, <3>4, <3>6 DEF Initialize
    <3>8. Expected(pending, counter, toReceiver, toSender')
      BY <1>1, <1>3, Typed, ArrivingKeeps DEF Undisturbed, m
    <3>9. pending \in SUBSET Requests /\ \A r \in pending : r.id <= counter
      BY <1>3, Typed DEF Undisturbed, Expected
    <3>10. /\ Expected(pending', counter', toReceiver', toSender')
           /\ \A r \in pending' : r \in pending \/ r.kind = "initLaunched"
      BY <1>1, <1>3, <3>7, <3>8, <3>9, RequestExpected
    <3>11. \A a \in Apps : conn'[a] # 0 \/ media'[a] # 0 => a = application
      BY <3>3, <3>7, Typed
    <3>12. Opened(connected', toSender')
      <4>1. connected \subseteq connected'
        BY <3>7
      <4> QED BY <1>1, <1>3, <4>1, Typed, OpenedShrinks DEF Undisturbed
    <3>13. \A u \in connected' : \E a \in Apps : conn'[a] = u
      <4>1. connected = {}
        <5>1. \A u \in connected : u # 0 /\ \E a \in Apps : conn[a] = u
          BY <1>3, Typed DEF Undisturbed, Transports
        <5> QED BY <3>3, <5>1
      <4>2. conn'[application] = t
        BY <3>2, <3>7, Typed
      <4> QED BY <3>2, <3>7, <4>1, <4>2
    <3> QED BY <1>3, <2>2, <3>1, <3>7, <3>10, <3>11, <3>12, <3>13 DEF Undisturbed
  <2> QED BY <2>1, <2>2
<1>9. ASSUME NEW r \in pending, OnLaunchResponse(m, r) \/ OnInitialized(m, r)
      PROVE  Undisturbed'
  <2>1. /\ Completes(m, r) /\ pending' = pending \ {r}
        /\ UNCHANGED <<application, conn, media, counter, toReceiver, status, connected>>
    BY <1>9 DEF OnLaunchResponse, OnInitialized
  <2>2. r.id = m.id /\ launching' = launching /\ ops' = ops /\ (m.to = "*" => m.id \in taken')
    BY <2>1 DEF Completes, Entry, Received
  <2>3. m.to = "sender" /\ m.id # 0
    <3>1. m.to \in {"sender", "*"} /\ r.id # 0
      BY <1>1, Typed DEF Messages
    <3> QED BY <1>4, <2>2, <3>1
  <2> QED BY <1>7, <2>1, <2>2, <2>3 DEF IsOurs
<1>10. \A r \in pending : ~OnJoinRefused(m, r) /\ ~OnJoinAccepted(m, r)
  BY <1>5 DEF OnJoinRefused, OnJoinAccepted
<1>11. \A t \in Transports, a \in Apps :
         /\ conn[a] = t => registry[<<"connection", t>>] # None
         /\ media[a] = t => registry[<<"media", t>>] # None
  BY ConstantsAssumption DEF IInv, RegistryIsExact
\* An answer to a request of ours has an entry.
<1>12. ASSUME IsOurs(m)
       PROVE  HasChannel(m) /\ \E r \in pending : r.id = m.id /\ r.address = m.address
  <2>1. PICK r \in pending : r.id = m.id /\ r.address = m.address
    BY <1>1, <1>3, <1>12 DEF Undisturbed, Expected
  <2>2. ASSUME m.address \in Addresses
        PROVE  registry[m.address] # None
    <3>1. r.address # Receiver
      BY <2>1, <2>2 DEF Addresses, Receiver, Transports
    <3>2. r.kind = "initLaunched"
      BY <1>3, <3>1 DEF Undisturbed
    <3>3. r.app = application /\ r.address = <<"media", media[application]>> /\ r.app \in Apps
      <4>1. r \in Requests
        BY Typed
      <4> QED BY <3>2, <4>1 DEF IInv, Initializing, InitKinds, Requests
    <3>4. media[application] \in Transports
      BY <2>1, <2>2, <3>3 DEF Addresses
    <3> QED BY <1>11, <2>1, <3>3, <3>4
  <2> QED BY <2>1, <2>2 DEF HasChannel
\* A connection that is closed has a channel.
<1>13. ASSUME m.to = "sender", m.id = 0
       PROVE  HasChannel(m)
  <2>1. m.address \in {"connection"} \X connected
    BY <1>1, <1>3, <1>13 DEF Undisturbed, Opened
  <2>2. PICK t \in connected : m.address = <<"connection", t>>
    BY <2>1
  <2>3. PICK a \in Apps : conn[a] = t
    BY <1>3 DEF Undisturbed
  <2>4. registry[m.address] # None
    BY <1>11, <2>2, <2>3, Typed
  <2> QED BY <2>4 DEF HasChannel
<1>14. CASE OnUnrecognizedAddress(m) \/ OnUnhandledMessage(m)
  <2>1. m.to = "*"
    <3>1. m.to \in {"sender", "*"}
      BY <1>1 DEF Messages
    <3>2. ~IsOurs(m)
      BY <1>12, <1>14 DEF OnUnrecognizedAddress, OnUnhandledMessage, Entry
    <3>3. ~(m.to = "sender" /\ m.id = 0)
      BY <1>13, <1>14 DEF OnUnrecognizedAddress, OnUnhandledMessage
    <3> QED BY <3>1, <3>2, <3>3 DEF IsOurs
  <2>2. /\ status' = status /\ pending' = pending
        /\ UNCHANGED <<launching, application, conn, media, counter, ops, toReceiver, connected>>
    BY <1>1, <1>14, <2>1 DEF OnUnrecognizedAddress, OnUnhandledMessage, EndsWith, Received
  <2> QED BY <1>7, <2>2
<1>15. ~OnInvalidRequest(m) /\ ~OnClose(m)
  BY <1>4 DEF OnInvalidRequest, OnClose, EndsWith
<1> QED BY <1>4, <1>8, <1>9, <1>10, <1>14, <1>15 DEF OnMessage

\* What the receiver does adds answers to our requests, and messages to all.
LEMMA ReceiverQuiet ==
  ASSUME IInv, IInv', Quiet, ReceiverActs
  PROVE  Quiet'
<1>1. UNCHANGED <<sender, counter, ops>> /\ \E s, u \in Seq(Messages) : Grows(toSender, s) /\ Grows(s, u) /\ Sends(u)
  BY ReceiverSends DEF IInv
<1>2. UNCHANGED <<application, launching, onLaunched, conn, media, counter, pending, ops, status, connected, taken>>
  BY <1>1 DEF sender
<1>3. SUFFICES ASSUME Undisturbed PROVE Undisturbed'
  BY <1>2 DEF Quiet, Alone, Spared
<1> DEFINE Fits(asked, s) == Expected(pending, counter, asked, s) /\ Opened(connected, s)
<1>4. Fits(toReceiver, toSender)
  BY <1>3 DEF Undisturbed
<1>5. SUFFICES Fits(toReceiver', toSender')
  BY <1>2, <1>3 DEF Undisturbed
<1>6. ASSUME NEW s \in Seq(Messages), NEW u \in Seq(Messages), Fits(toReceiver, s), Grows(s, u)
      PROVE  Fits(toReceiver, u)
  <2>1. CASE u = s
    BY <1>6, <2>1
  <2>2. ASSUME NEW x \in Messages, Unasked(x), u = Append(s, x)
        PROVE  Fits(toReceiver, u)
    <3>1. ~IsOurs(x) /\ (x.to = "sender" /\ x.id = 0 => x.address \in {"connection"} \X connected)
      BY <2>2 DEF Unasked, IsOurs
    <3>2. Expected(pending, counter, toReceiver, u)
      BY <1>6, <2>2, <3>1, Typed, OthersKeep
    <3>3. Opened(connected, u)
      BY <1>6, <2>2, <3>1, OpenedGrows
    <3> QED BY <3>2, <3>3
  <2> QED BY <1>6, <2>1, <2>2 DEF Grows
<1>7. PICK u \in Seq(Messages) : Fits(toReceiver, u) /\ Sends(u)
  <2>1. PICK s, u \in Seq(Messages) : Grows(toSender, s) /\ Grows(s, u) /\ Sends(u)
    BY <1>1
  <2>2. Fits(toReceiver, s)
    BY <1>4, <1>6, <2>1, Typed
  <2>3. Fits(toReceiver, u)
    BY <1>6, <2>1, <2>2
  <2> QED BY <2>1, <2>3
<1>8. CASE toReceiver' = toReceiver /\ toSender' = u
  BY <1>7, <1>8
<1>9. CASE toReceiver # <<>> /\ toReceiver' = Tail(toReceiver) /\ toSender' = u
  BY <1>7, <1>9, Typed, TakingKeeps
<1>10. ASSUME toReceiver # <<>>, toReceiver' = Tail(toReceiver),
              NEW w \in Messages, w.id = Head(toReceiver).id, w.address = Head(toReceiver).address, toSender' = Append(u, w)
       PROVE  Fits(toReceiver', toSender')
  <2>1. Expected(pending, counter, Tail(toReceiver), Append(u, w))
    BY <1>7, <1>10, Typed, AnsweringKeeps
  <2>2. w.id # 0
    <3>1. Head(toReceiver) \in Requests
      BY <1>10, Typed, TailOf
    <3> QED BY <1>10, <3>1, Typed
  <2>3. Opened(connected, Append(u, w))
    BY <1>7, <2>2, OpenedGrows
  <2> QED BY <1>10, <2>1, <2>3
<1> QED BY <1>7, <1>8, <1>9, <1>10 DEF Sends

LEMMA NextQuiet == IInv /\ IInv' /\ Quiet /\ [Next]_vars => Quiet'
<1> SUFFICES ASSUME IInv, IInv', Quiet, [Next]_vars PROVE Quiet'
  OBVIOUS
<1>1. CASE UNCHANGED vars
  BY <1>1 DEF vars, Quiet, Alone, Spared, Undisturbed
<1>2. CASE Next
  BY <1>2, UserQuiet, MessageQuiet, ReceiverQuiet DEF Next, ReceiverActs
<1> QED BY <1>1, <1>2

-----------------------------------------------------------------------------

\* Every variable keeps its type: transports, ids and entries.
THEOREM TypeCorrect == Spec => []TypeOK
  BY Invariance, PTL DEF IInv

\* The map of the connection holds exactly the channels that exist: whatever is
\* launched, joined, dropped and retried, no channel is destroyed and left in it,
\* or taken out by another's destructor, even when an initialisation throws.
THEOREM RegistryStaysExact == Spec => []RegistryIsExact
  BY Invariance, PTL DEF IInv

\* The callback that an initialisation runs, and finds only at its end, is that of
\* the Launch the initialisation belongs to.
THEOREM LaunchCallbacksAreOwn == Spec => []LaunchCallbackIsOwn
  BY Invariance, PTL DEF IInv

\* An application that has been replaced is no longer called back.
THEOREM OnlyTheCurrentInitializes == Spec => []OnlyCurrentIsInitializing
<1>1. IInv => OnlyCurrentIsInitializing
  <2> SUFFICES ASSUME IInv, NEW r \in pending, r.kind \in InitKinds
      PROVE r.app = application /\ media[r.app] = r.address[2]
    BY DEF OnlyCurrentIsInitializing, InitKinds
  <2>1. r.app = application /\ r.address = <<"media", media[r.app]>>
    BY DEF IInv, Initializing
  <2>2. r.address[2] = media[r.app]
    BY <2>1, SMT
  <2> QED BY <2>1, <2>2
<1> QED BY <1>1, Invariance, PTL

\* An answer completes the request it was sent for: ids are unique over all the
\* channels, and over the lives of the channels at one address.
THEOREM AnswersAreNotCrossed == Spec => []AnswersFindTheirRequest
<1>1. IInv => AnswersFindTheirRequest
  <2> SUFFICES ASSUME IInv, NEW k \in 1..Len(toSender), NEW r \in pending, toSender[k].to = "sender",
                      Entry(toSender[k], r)
      PROVE toSender[k].tag = r.tag
    BY DEF AnswersFindTheirRequest
  <2> QED BY DEF IInv, TagsAreIds, AnswersTagged, Entry
<1> QED BY <1>1, Invariance, PTL

\* A Launch that is the only call ends in an exception for the causes named only:
\* whatever is retried, stopped or launched by others, neither connection.cpp:175 nor
\* channel.cpp:42 throws unless another client's answer has taken an entry.
THEOREM LaunchAloneHaltsForCause == Spec => []HaltsForCause
<1>1. Quiet => HaltsForCause
  BY DEF Quiet, Alone, Spared, Undisturbed, HaltsForCause
<1>2. Spec => []Quiet
  BY InitQuiet, NextQuiet, Invariance, PTL DEF Spec
<1> QED BY <1>1, <1>2, PTL
=============================================================================
