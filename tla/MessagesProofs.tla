---------------------------- MODULE MessagesProofs ----------------------------
(***************************************************************************)
(* Theorems about the messages that report a status, and what the sender   *)
(* makes of them: MediaMessages, for any media and any bounds, and         *)
(* ReceiverStatus, for any levels, applications and bounds.  The two share *)
(* no state, and no theorem is about both.                                 *)
(***************************************************************************)
EXTENDS MediaMessages, ReceiverStatus, TLAPS

-----------------------------------------------------------------------------
(* MediaMessages                                                           *)
(*                                                                         *)
(* What the sender knows of tracks is Told: a track that is text has the   *)
(* name of a text.  What the receiver plays is either the user's media, as *)
(* they were written, or such that only its texts are marked as text.      *)

\* A list of tracks of the program, and one in JSON.
TrackList(tracks) == \E n \in Nat : tracks \in [1..n -> Tracks]
Told(tracks) == \A k \in DOMAIN tracks : tracks[k].type = "Text" => tracks[k].name \in TextNames
Marked(parts) == \E n \in Nat : parts \in [1..n -> ForeignTracks]

\* Media the user may load: he knows the type of his tracks, or has read them.
Loadable(media) == TrackList(media.tracks) /\ Told(media.tracks)

\* The message is what the user asked for, and what is played what he loaded.
IInv ==
  /\ message # None => message = ToMessage(asked) /\ Loadable(asked) /\ CanWrite(asked)
  /\ loaded # None => playing = ToMessage(loaded).media /\ Loadable(loaded) /\ CanWrite(loaded)
  /\ playing # None /\ HasMember(playing, "tracks") => Marked(playing.tracks)
  /\ known # None => Loadable(known)
  /\ OwnMediaComeBack

-----------------------------------------------------------------------------
(* The conversions *)

Written(media) == [k \in DOMAIN media.tracks |-> [type |-> "TEXT", name |-> media.tracks[k].name]]

LEMMA WrittenMedia ==
  ASSUME NEW media
  PROVE  /\ DOMAIN ToMessage(media).media = {"contentId", "streamType", "tracks"}
         /\ ToMessage(media).media.contentId = media.content
         /\ ToMessage(media).media.tracks = Written(media)
<1>1. ToMessage(media).media = [contentId |-> media.content, streamType |-> media.stream, tracks |-> Written(media)]
  BY DEF ToMessage, Assign, WriteTracks, WriteTrack, Empty, Written
<1> QED  BY <1>1

\* What is written is read again as it was.
LEMMA TracksComeBack ==
  ASSUME NEW media, Loadable(media), CanWrite(media)
  PROVE  /\ Marked(ToMessage(media).media.tracks)
         /\ ReadTracks(ToMessage(media).media) = media.tracks
<1> DEFINE parts == Written(media)
<1> USE DEF Written
<1>1. PICK n \in Nat : media.tracks \in [1..n -> Tracks]
  BY DEF Loadable, TrackList
<1>2. \A k \in 1..n : media.tracks[k] \in Tracks /\ media.tracks[k].type = "Text"
  BY <1>1 DEF CanWrite
<1>3. Marked(parts)
  <2>1. \A k \in 1..n : parts[k] \in ForeignTracks
    BY <1>1, <1>2 DEF Loadable, Told, ForeignTracks
  <2> QED  BY <1>1, <2>1 DEF Marked
<1>4. \A k \in 1..n : ReadTrack(parts[k]) = media.tracks[k]
  BY <1>1, <1>2 DEF ReadTrack, Tracks
<1>5. [k \in DOMAIN parts |-> ReadTrack(parts[k])] = [k \in 1..n |-> media.tracks[k]]
  BY <1>1, <1>4
<1> QED  BY <1>1, <1>3, <1>5, WrittenMedia DEF ReadTracks, HasMember

\* What is read can be loaded.
LEMMA ReadTracksAreLoadable ==
  ASSUME NEW part, HasMember(part, "tracks") => Marked(part.tracks)
  PROVE  TrackList(ReadTracks(part)) /\ Told(ReadTracks(part))
<1>1. CASE HasMember(part, "tracks")
  <2>1. PICK n \in Nat : part.tracks \in [1..n -> ForeignTracks]
    BY <1>1 DEF Marked
  <2>2. ReadTracks(part) = [k \in 1..n |-> ReadTrack(part.tracks[k])]
    BY <1>1, <2>1 DEF ReadTracks
  <2>3. \A k \in 1..n :
          /\ ReadTrack(part.tracks[k]) \in Tracks
          /\ ReadTrack(part.tracks[k]).type = "Text" => ReadTrack(part.tracks[k]).name \in TextNames
    BY <2>1 DEF ReadTrack, ForeignTracks, Tracks
  <2> QED  BY <2>2, <2>3 DEF TrackList, Told
<1>2. CASE ~HasMember(part, "tracks")
  <2>1. ReadTracks(part) = <<>>
    BY <1>2 DEF ReadTracks
  <2>2. <<>> \in [1..0 -> Tracks] /\ DOMAIN <<>> = {}
    OBVIOUS
  <2> QED  BY <2>1, <2>2 DEF TrackList, Told
<1> QED  BY <1>1, <1>2

LEMMA ForeignTracksAreMarked ==
  ASSUME NEW part \in ForeignParts, HasMember(part, "tracks")
  PROVE  Marked(part.tracks)
<1> DEFINE ok(p) == HasMember(p, "tracks") => \E n \in Nat : p.tracks \in [1..n -> ForeignTracks]
<1>1. ASSUME NEW parts, NEW name, NEW values, \A p \in parts : ok(p), name # "tracks"
      PROVE  \A p \in With(parts, name, values) : ok(p)
  <2> SUFFICES ASSUME NEW q \in parts, NEW v \in values
               PROVE  ok(Assign(q, name, v))
    BY <1>1 DEF With
  <2>1. "tracks" \in DOMAIN Assign(q, name, v) => "tracks" \in DOMAIN q /\ Assign(q, name, v)["tracks"] = q["tracks"]
    BY <1>1 DEF Assign
  <2> QED  BY <2>1, <1>1 DEF HasMember
<1> DEFINE bare == [contentId : Contents, streamType : {"LIVE"}]
           withTracks == With(bare, "tracks", UpTo(MaxTracks, ForeignTracks))
<1>2. \A p \in bare : ok(p)
  BY DEF HasMember
<1>3. \A list \in UpTo(MaxTracks, ForeignTracks) : \E n \in Nat : list \in [1..n -> ForeignTracks]
  BY ConstantsAssumption DEF UpTo
<1>4. \A p \in withTracks : ok(p)
  <2> SUFFICES ASSUME NEW q \in bare, NEW list \in UpTo(MaxTracks, ForeignTracks)
               PROVE  ok(Assign(q, "tracks", list))
    BY <1>2 DEF With
  <2>1. Assign(q, "tracks", list)["tracks"] = list
    BY DEF Assign
  <2> QED  BY <2>1, <1>3
<1>5. ForeignParts = With(With(withTracks, "metadata", MetaData), "textTrackStyle", {"style"})
  BY DEF ForeignParts, Bare
<1> HIDE DEF withTracks, ok
<1>6. \A p \in With(withTracks, "metadata", MetaData) : ok(p)
  BY <1>1, <1>4
<1>7. ok(part)
  BY <1>1, <1>5, <1>6
<1> QED  BY <1>7 DEF ok, Marked

\* Every status of a receiver has the media it plays.
LEMMA StatusHasMedia ==
  ASSUME NEW part, NEW s \in StatusParts(part)
  PROVE  s.media = part
<1> DEFINE ok(p) == HasMember(p, "media") /\ p.media = part
<1>1. ASSUME NEW parts, NEW name, NEW values, \A p \in parts : ok(p), name # "media"
      PROVE  \A p \in With(parts, name, values) : ok(p)
  <2> SUFFICES ASSUME NEW q \in parts, NEW v \in values
               PROVE  ok(Assign(q, name, v))
    BY <1>1 DEF With
  <2> QED  BY <1>1 DEF Assign, HasMember
<1> DEFINE bare == [playerState : {"IDLE", "LOADING"}, media : {part}]
           idle == With(bare, "currentItemId", {1})
           repeats == With(idle, "repeatMode", {"REPEAT_OFF", "REPEAT_ALL"})
<1>2. \A p \in bare : ok(p)
  BY DEF HasMember
<1>3. StatusParts(part) = With(repeats, "items", UpTo(MaxItems, Items(part)))
  BY DEF StatusParts
<1> HIDE DEF bare, ok
<1>4. \A p \in idle : ok(p)
  BY <1>1, <1>2
<1> HIDE DEF idle
<1>5. \A p \in repeats : ok(p)
  BY <1>1, <1>4
<1> HIDE DEF repeats
<1>6. ok(s)
  BY <1>1, <1>3, <1>5
<1> QED  BY <1>6 DEF ok

\* Whatever the user has loaded can be read.
LEMMA OwnMediaCanBeRead ==
  ASSUME NEW media
  PROVE  CanRead(ToMessage(media).media)
<1>1. DOMAIN ToMessage(media).media = {"contentId", "streamType", "tracks"}
  BY WrittenMedia
<1> QED  BY <1>1 DEF CanRead, HasMember

-----------------------------------------------------------------------------

LEMMA InitIInv == Init => IInv
BY DEF Init, IInv, OwnMediaComeBack

LEMMA LoadIInv ==
  ASSUME IInv, NEW media, Loadable(media), Load(media)
  PROVE  IInv'
BY DEF Load, IInv, OwnMediaComeBack

LEMMA OwnMediaAreLoadable ==
  ASSUME NEW media \in OwnMedia
  PROVE  Loadable(media)
<1>1. media.tracks \in UpTo(MaxTracks, Tracks) /\ \A k \in DOMAIN media.tracks : media.tracks[k] \in OwnTracks
  BY DEF OwnMedia, Media
<1>2. \E n \in Nat : media.tracks \in [1..n -> Tracks]
  BY <1>1, ConstantsAssumption DEF UpTo
<1> QED  BY <1>1, <1>2 DEF Loadable, TrackList, Told, OwnTracks

LEMMA ReadIInv ==
  ASSUME IInv, playing # None, NEW s \in StatusParts(playing), OnMediaStatus(s)
  PROVE  IInv'
<1>1. CASE UNCHANGED <<known, fresh>>
  BY <1>1 DEF OnMediaStatus, IInv, OwnMediaComeBack
<1>2. CASE known' \in FromMessage(playing)
  <2>1. UNCHANGED <<message, asked, loaded, playing>>
    BY DEF OnMediaStatus
  <2>2. known'.tracks = ReadTracks(playing) /\ known'.content = playing.contentId
    BY <1>2 DEF FromMessage
  <2>3. Loadable(known')
    BY <1>2, <2>2, ReadTracksAreLoadable DEF IInv, Loadable
  <2>4. loaded # None => known'.tracks = loaded.tracks /\ known'.content = loaded.content
    <3> SUFFICES ASSUME loaded # None
                 PROVE  known'.tracks = loaded.tracks /\ known'.content = loaded.content
      OBVIOUS
    <3>1. playing = ToMessage(loaded).media /\ Loadable(loaded) /\ CanWrite(loaded)
      BY DEF IInv
    <3> QED  BY <3>1, <2>2, TracksComeBack, WrittenMedia
  <2> QED  BY <2>1, <2>3, <2>4 DEF IInv, OwnMediaComeBack
<1> QED  BY <1>1, <1>2, StatusHasMedia DEF OnMediaStatus

LEMMA ReceiverIInv ==
  ASSUME IInv, ReceiverLoads \/ \E part \in ForeignParts : OtherLoads(part)
  PROVE  IInv'
<1>1. CASE ReceiverLoads
  <2>1. /\ message # None /\ playing' = message.media /\ loaded' = asked /\ message' = None
        /\ fresh' = FALSE /\ UNCHANGED <<asked, known>>
    BY <1>1 DEF ReceiverLoads
  <2>2. message = ToMessage(asked) /\ Loadable(asked) /\ CanWrite(asked)
    BY <2>1 DEF IInv
  <2>3. Marked(playing'.tracks)
    BY <2>1, <2>2, TracksComeBack
  <2> QED  BY <2>1, <2>2, <2>3 DEF IInv, OwnMediaComeBack
<1>2. ASSUME NEW part \in ForeignParts, OtherLoads(part)
      PROVE  IInv'
  <2>1. /\ playing' = part /\ loaded' = None /\ fresh' = FALSE
        /\ UNCHANGED <<message, asked, known>>
    BY <1>2 DEF OtherLoads
  <2>2. HasMember(part, "tracks") => Marked(part.tracks)
    BY ForeignTracksAreMarked
  <2> QED  BY <2>1, <2>2 DEF IInv, OwnMediaComeBack
<1> QED  BY <1>1, <1>2

LEMMA NextIInv == IInv /\ [Next]_vars => IInv'
<1> SUFFICES ASSUME IInv, [Next]_vars
             PROVE  IInv'
  OBVIOUS
<1>1. ASSUME NEW media \in OwnMedia, Load(media)
      PROVE  IInv'
  BY <1>1, LoadIInv, OwnMediaAreLoadable
<1>2. CASE known # None /\ Load(known)
  BY <1>2, LoadIInv DEF IInv
<1>3. ASSUME playing # None, NEW s \in StatusParts(playing), OnMediaStatus(s)
      PROVE  IInv'
  BY <1>3, ReadIInv
<1>4. CASE ReceiverLoads \/ \E part \in ForeignParts : OtherLoads(part)
  BY <1>4, ReceiverIInv
<1>5. CASE UNCHANGED vars
  BY <1>5 DEF vars, IInv, OwnMediaComeBack
<1> QED  BY <1>1, <1>2, <1>3, <1>4, <1>5 DEF Next

-----------------------------------------------------------------------------
(* The theorems *)

LEMMA Invariance == Spec => []IInv
BY InitIInv, NextIInv, PTL DEF Spec

\* What the media are made of, and all their tracks in order, come back in the status: for
\* any number of tracks, whatever other clients load and whatever is loaded again.
THEOREM MediaComeBack == Spec => []OwnMediaComeBack
<1>1. IInv => OwnMediaComeBack
  BY DEF IInv
<1> QED  BY <1>1, Invariance, PTL

\* A track that is not text is never sent as text, even one read from a status.
THEOREM OnlyTextIsSent == Spec => []OnlyTextIsSentAsText
<1>1. IInv => OnlyTextIsSentAsText
  <2> SUFFICES ASSUME IInv, message # None
               PROVE  \A k \in DOMAIN message.media.tracks : message.media.tracks[k].name \in TextNames
    BY DEF OnlyTextIsSentAsText
  <2>1. message = ToMessage(asked) /\ Told(asked.tracks) /\ CanWrite(asked)
    BY DEF IInv, Loadable
  <2>2. message.media.tracks = Written(asked)
    BY <2>1, WrittenMedia
  <2> QED  BY <2>1, <2>2 DEF Told, CanWrite, Written
<1> QED  BY <1>1, Invariance, PTL

\* Media that the user has loaded can be read in every status, whatever its other parts.
THEOREM OwnMediaCanAlwaysBeRead == Spec => OwnMediaAreReadable
<1>1. IInv /\ [Next]_vars => [status' = "media" => status' = status \/ loaded = None]_vars
  <2> SUFFICES ASSUME IInv, Next, status' = "media", status' # status, loaded # None
               PROVE  FALSE
    BY DEF vars
  <2>1. ASSUME playing # None, NEW s \in StatusParts(playing), OnMediaStatus(s)
        PROVE  ~CanRead(playing)
    <3>1. Fault(s) = "media"
      BY <2>1 DEF OnMediaStatus
    <3>2. ~CanRead(s.media)
      BY <3>1 DEF Fault
    <3> QED  BY <2>1, <3>2, StatusHasMedia
  <2>2. ~CanRead(playing)
    BY <2>1 DEF Next, Load, ReceiverLoads, OtherLoads
  <2> QED  BY <2>2, OwnMediaCanBeRead DEF IInv
<1> QED  BY <1>1, Invariance, PTL DEF Spec, OwnMediaAreReadable

-----------------------------------------------------------------------------
(* ReceiverStatus                                                          *)
(*                                                                         *)
(* The last status under way is the receiver's, and every answer under way *)
(* tells a volume it has had since the call was first served.              *)

\* The messages the sender keeps the status of.
Keeps(m) == m.to = Broadcast \/ m.to.kind = "GET_STATUS"

\* The last of them in a queue has the status s.
LastKeptIs(queue, s) ==
  \A k \in 1..Len(queue) :
    Keeps(queue[k]) /\ (\A j \in 1..Len(queue) : j > k => ~Keeps(queue[j])) => queue[k].status = s

NoneKept(queue) == \A k \in 1..Len(queue) : ~Keeps(queue[k])

\* What the sender knows of the status s, when it has read it.
Reflects(kept, s) ==
  /\ kept.volume = s.volume
  /\ s.active # "absent" => kept.active = s.active
  /\ Len(kept.applications) = Len(s.applications)
  /\ Len(s.applications) <= 1 => kept.applications = s.applications

\* The status that is kept last is the receiver's.
BecomesCurrent ==
  /\ LastKeptIs(toSender, device)
  /\ NoneKept(toSender) /\ heard => Reflects(last, device)

\* An attempt of a call that was made.
Made(calls, q) ==
  q.call \in 1..Len(calls) /\ calls[q.call].kind = q.kind /\ calls[q.call].level = q.level

\* The volumes in the answers are among those that were seen since the call was served.
Recent(queue, calls, seen) ==
  \A k \in 1..Len(queue) :
    queue[k].to # Broadcast =>
      Made(calls, queue[k].to) /\ queue[k].status.volume \in seen[queue[k].to.call]

\* An attempt is that of its call, and its answer tells a volume the receiver has had
\* since it first served the call.
AnswersAreRecent ==
  /\ \A q \in timers : Made(made, q)
  /\ \A k \in 1..Len(toReceiver) : Made(made, toReceiver[k])
  /\ Recent(toSender, made, had)

Confirmed ==
  /\ \A n \in 1..MaxCalls : result[n] # "none" => n \in 1..Len(made)
  /\ VolumeIsConfirmed

StatusIInv == StatusTypeOK /\ BecomesCurrent /\ AnswersAreRecent /\ Confirmed


-----------------------------------------------------------------------------
(* Queues of messages *)

LEMMA QueueTail ==
  ASSUME NEW S, NEW queue \in Seq(S), queue # <<>>
  PROVE  /\ Tail(queue) \in Seq(S) /\ Head(queue) = queue[1] /\ Head(queue) \in S
         /\ Len(queue) \in Nat \ {0} /\ 1 \in 1..Len(queue) /\ Len(Tail(queue)) = Len(queue) - 1
         /\ \A k \in 1..Len(Tail(queue)) : k + 1 \in 1..Len(queue) /\ Tail(queue)[k] = queue[k + 1]
OBVIOUS

LEMMA QueueAppend ==
  ASSUME NEW S, NEW queue \in Seq(S), NEW m \in S
  PROVE  /\ Append(queue, m) \in Seq(S) /\ Len(queue) \in Nat
         /\ Len(Append(queue, m)) = Len(queue) + 1
         /\ Append(queue, m)[Len(queue) + 1] = m
         /\ \A k \in 1..Len(queue) : Append(queue, m)[k] = queue[k]
OBVIOUS

\* Every element of a longer queue is an element of the old one or the new one.
LEMMA QueueElements ==
  ASSUME NEW S, NEW queue \in Seq(S), NEW m \in S, NEW k \in 1..Len(Append(queue, m))
  PROVE  \/ k \in 1..Len(queue) /\ Append(queue, m)[k] = queue[k]
         \/ k = Len(queue) + 1 /\ Append(queue, m)[k] = m
<1>1. /\ Len(queue) \in Nat /\ Len(Append(queue, m)) = Len(queue) + 1
      /\ Append(queue, m)[Len(queue) + 1] = m
      /\ \A i \in 1..Len(queue) : Append(queue, m)[i] = queue[i]
  BY QueueAppend
<1>2. k \in 1..Len(queue) \/ k = Len(queue) + 1
  BY <1>1
<1> QED  BY <1>1, <1>2, Zenon

LEMMA QueueConcat ==
  ASSUME NEW S, NEW queue \in Seq(S), NEW m \in S
  PROVE  queue \o <<>> = queue /\ queue \o <<m>> = Append(queue, m)
OBVIOUS

\* A message that is kept becomes the last one; any other changes nothing.
LEMMA KeptIsLast ==
  ASSUME NEW queue \in Seq(Messages), NEW m \in Messages, NEW s,
         Keeps(m) => m.status = s, Keeps(m) \/ LastKeptIs(queue, s)
  PROVE  /\ LastKeptIs(Append(queue, m), s)
         /\ NoneKept(Append(queue, m)) => NoneKept(queue) /\ ~Keeps(m)
<1> DEFINE longer == Append(queue, m)
           N == Len(queue)
<1>1. /\ N \in Nat /\ Len(longer) = N + 1 /\ longer[N + 1] = m
      /\ \A k \in 1..N : longer[k] = queue[k]
  BY QueueAppend
<1> HIDE DEF longer, N
<1>2. /\ N + 1 \in 1..Len(longer) /\ \A k \in 1..N : k \in 1..Len(longer) /\ N + 1 > k
      /\ \A k \in 1..Len(longer) : k \in 1..N \/ k = N + 1
  BY <1>1
<1>3. ASSUME NEW k \in 1..Len(longer), Keeps(longer[k]),
             \A j \in 1..Len(longer) : j > k => ~Keeps(longer[j])
      PROVE  longer[k].status = s
  <2>1. CASE k = N + 1
    BY <1>1, <1>3, <2>1
  <2>2. CASE k # N + 1
    <3>1. k \in 1..N /\ ~Keeps(m)
      BY <1>1, <1>2, <1>3, <2>2, Zenon
    <3>2. LastKeptIs(queue, s) /\ Keeps(queue[k]) /\ longer[k] = queue[k]
      BY <1>1, <1>3, <3>1, Zenon
    <3>3. \A j \in 1..N : j > k => ~Keeps(queue[j])
      BY <1>1, <1>2, <1>3, Zenon
    <3> QED  BY <3>1, <3>2, <3>3, Zenon DEF LastKeptIs, N
  <2> QED  BY <2>1, <2>2
<1>4. LastKeptIs(longer, s)
  BY <1>3, Zenon DEF LastKeptIs
<1>5. NoneKept(longer) => NoneKept(queue) /\ ~Keeps(m)
  BY <1>1, <1>2, Zenon DEF NoneKept, N
<1> QED  BY <1>4, <1>5, Zenon DEF longer

\* What was kept last is, when the first message is taken.
LEMMA KeptInTail ==
  ASSUME NEW queue \in Seq(Messages), queue # <<>>, NEW s, LastKeptIs(queue, s)
  PROVE  /\ LastKeptIs(Tail(queue), s)
         /\ NoneKept(Tail(queue)) => NoneKept(queue) \/ (Keeps(Head(queue)) /\ Head(queue).status = s)
<1> DEFINE rest == Tail(queue)
           N == Len(queue)
<1>1. /\ Head(queue) = queue[1] /\ N \in Nat \ {0} /\ Len(rest) = N - 1 /\ 1 \in 1..N
      /\ \A k \in 1..Len(rest) : k + 1 \in 1..N /\ rest[k] = queue[k + 1]
  BY QueueTail
<1> HIDE DEF rest, N
<1>2. \A j \in 1..N : j > 1 => j - 1 \in 1..Len(rest) /\ (j - 1) + 1 = j
  BY <1>1
<1>3. ASSUME NEW k \in 1..Len(rest), Keeps(rest[k]),
             \A j \in 1..Len(rest) : j > k => ~Keeps(rest[j])
      PROVE  rest[k].status = s
  <2>1. ASSUME NEW j \in 1..N, j > k + 1
        PROVE  ~Keeps(queue[j])
    <3>1. j > 1 /\ j - 1 > k
      BY <2>1
    <3>2. j - 1 \in 1..Len(rest) /\ rest[j - 1] = queue[j]
      BY <1>1, <1>2, <3>1
    <3> QED  BY <1>3, <3>1, <3>2, Zenon
  <2>2. k + 1 \in 1..N /\ rest[k] = queue[k + 1]
    BY <1>1
  <2> QED  BY <1>3, <2>1, <2>2, Zenon DEF LastKeptIs, N
<1>4. LastKeptIs(rest, s)
  BY <1>3, Zenon DEF LastKeptIs
<1>5. ASSUME NoneKept(rest), ~NoneKept(queue)
      PROVE  Keeps(queue[1]) /\ queue[1].status = s
  <2>1. \A j \in 1..N : j > 1 => ~Keeps(queue[j])
    <3> TAKE j \in 1..N
    <3> SUFFICES ASSUME j > 1 PROVE ~Keeps(queue[j])
      OBVIOUS
    <3>1. j - 1 \in 1..Len(rest) /\ rest[j - 1] = queue[j]
      BY <1>1, <1>2
    <3> QED  BY <1>5, <3>1, Zenon DEF NoneKept
  <2>2. \A j \in 1..N : j > 1 \/ j = 1
    BY <1>1
  <2>3. Keeps(queue[1])
    BY <1>5, <2>1, <2>2, Zenon DEF NoneKept, N
  <2> QED  BY <1>1, <2>1, <2>3, Zenon DEF LastKeptIs, N
<1> QED  BY <1>1, <1>4, <1>5, Zenon DEF rest

-----------------------------------------------------------------------------
(* What is read from a status *)

LEMMA ReadsApplications ==
  ASSUME NEW l \in Lists
  PROVE  LET read == [k \in DOMAIN l |-> l[1]]
         IN  read \in Lists /\ Len(read) = Len(l) /\ (Len(l) <= 1 => read = l)
<1> DEFINE read == [k \in DOMAIN l |-> l[1]]
<1>1. CASE l = <<>>
  <2>1. read = <<>> /\ <<>> \in Lists
    BY <1>1 DEF Lists
  <2> QED  BY <1>1, <2>1, Zenon
<1>2. ASSUME NEW a \in Apps, l = <<a>>
      PROVE  read \in Lists /\ Len(read) = Len(l) /\ (Len(l) <= 1 => read = l)
  <2>1. read = <<a>> /\ <<a>> \in Lists
    BY <1>2 DEF Lists
  <2> QED  BY <1>2, <2>1, Zenon
<1>3. ASSUME NEW a \in Apps, NEW b \in Apps, l = <<a, b>>
      PROVE  read \in Lists /\ Len(read) = Len(l) /\ (Len(l) <= 1 => read = l)
  <2>1. read = <<a, a>> /\ <<a, a>> \in Lists
    BY <1>3 DEF Lists
  <2>2. Len(<<a, a>>) = 2 /\ Len(<<a, b>>) = 2 /\ ~(2 <= 1)
    OBVIOUS
  <2> QED  BY <1>3, <2>1, <2>2, Zenon
<1> QED  BY <1>1, <1>2, <1>3 DEF Lists

LEMMA PartsOfStatus ==
  ASSUME NEW s \in Statuses
  PROVE  s.volume \in Volumes /\ s.active \in Inputs /\ s.applications \in Lists
BY DEF Statuses

LEMMA KeptReflects ==
  ASSUME NEW old \in Statuses, NEW s \in Statuses
  PROVE  AssignStatus(old, Read(s)) \in Statuses /\ Reflects(AssignStatus(old, Read(s)), s)
<1> DEFINE read == [k \in DOMAIN s.applications |-> s.applications[1]]
           kept == AssignStatus(old, Read(s))
<1>1. /\ read \in Lists /\ Len(read) = Len(s.applications)
      /\ Len(s.applications) <= 1 => read = s.applications
  BY PartsOfStatus, ReadsApplications
<1>2. Read(s) = [s EXCEPT !.applications = read]
  BY Zenon DEF Read
<1> HIDE DEF read
<1>3. /\ kept = [volume |-> s.volume, applications |-> read,
                 active |-> IF s.active = "absent" THEN old.active ELSE s.active]
  <2>1. /\ s = [volume |-> s.volume, active |-> s.active, applications |-> s.applications]
        /\ old = [volume |-> old.volume, active |-> old.active, applications |-> old.applications]
    BY DEF Statuses
  <2>2. Read(s) = [volume |-> s.volume, active |-> s.active, applications |-> read]
    BY <1>2, <2>1
  <2>3. /\ Read(s).active = s.active
        /\ kept = [Read(s) EXCEPT !.active = IF s.active = "absent" THEN old.active ELSE s.active]
    BY <2>2 DEF AssignStatus
  <2> HIDE DEF kept
  <2> QED  BY <2>2, <2>3
<1>4. kept \in Statuses
  BY <1>1, <1>3, PartsOfStatus DEF Statuses
<1>5. kept.volume = s.volume /\ kept.applications = read /\ (s.active # "absent" => kept.active = s.active)
  BY <1>3
<1> QED  BY <1>1, <1>4, <1>5, Zenon DEF Reflects

-----------------------------------------------------------------------------

LEMMA InitStatusIInv == StatusInit => StatusIInv
<1> SUFFICES ASSUME StatusInit PROVE StatusIInv
  OBVIOUS
<1>1. StatusTypeOK
  <2>1. <<>> \in Lists
    BY DEF Lists
  <2>2. [muted |-> FALSE, level |-> 0] \in Volumes
    BY StatusAssumption DEF Volumes, Levels
  <2>3. /\ last = [volume |-> [muted |-> FALSE, level |-> 0], active |-> "absent", applications |-> <<>>]
        /\ device \in [volume : {[muted |-> FALSE, level |-> 0]}, active : {"yes", "absent"}, applications : {<<>>}]
    BY DEF StatusInit
  <2>4. last \in Statuses /\ device \in Statuses
    BY <2>1, <2>2, <2>3 DEF Statuses, Inputs
  <2>5. /\ heard = FALSE /\ changes = 0 /\ made = <<>> /\ timers = {} /\ toReceiver = <<>> /\ toSender = <<>>
        /\ had = [n \in 1..MaxCalls |-> {}] /\ result = [n \in 1..MaxCalls |-> "none"]
    BY DEF StatusInit
  <2>6. 0 \in 0..MaxChanges /\ Len(<<>>) <= MaxCalls
    BY StatusAssumption
  <2>7. had \in [1..MaxCalls -> SUBSET Volumes] /\ result \in [1..MaxCalls -> {"none", "true", "false"}]
    BY <2>5
  <2>8. /\ made \in Seq(Requests) /\ toReceiver \in Seq(Requests)
        /\ toSender \in Seq(Messages) /\ timers \subseteq Requests
    BY <2>5
  <2> QED  BY <2>4, <2>5, <2>6, <2>7, <2>8 DEF StatusTypeOK
<1>2. BecomesCurrent
  BY DEF StatusInit, BecomesCurrent, LastKeptIs
<1>3. AnswersAreRecent /\ Confirmed
  BY DEF StatusInit, AnswersAreRecent, Recent, Confirmed, VolumeIsConfirmed
<1> QED  BY <1>1, <1>2, <1>3 DEF StatusIInv

LEMMA QueuesAreTyped ==
  ASSUME StatusTypeOK
  PROVE  /\ made \in Seq(Requests) /\ toReceiver \in Seq(Requests) /\ toSender \in Seq(Messages)
         /\ timers \subseteq Requests /\ Len(made) \in Nat /\ Len(made) <= MaxCalls /\ MaxCalls \in Nat
         /\ last \in Statuses /\ device \in Statuses
         /\ had \in [1..MaxCalls -> SUBSET Volumes] /\ result \in [1..MaxCalls -> {"none", "true", "false"}]
BY StatusAssumption DEF StatusTypeOK

LEMMA CallIInv ==
  ASSUME StatusIInv, NEW kind \in {"GET_STATUS", "GET_APP_AVAILABILITY", "mute", "level"},
         NEW muted \in BOOLEAN, NEW level \in Levels, Call(kind, muted, level)
  PROVE  StatusIInv'
<1> DEFINE n == Len(made) + 1
           q == [call |-> n, kind |-> kind, muted |-> muted, level |-> level, attempt |-> 1]
<1>0. StatusTypeOK /\ BecomesCurrent /\ AnswersAreRecent /\ Confirmed
  BY DEF StatusIInv
<1>1. /\ made' = Append(made, q) /\ timers' = timers \cup {q} /\ toReceiver' = Append(toReceiver, q)
      /\ Len(made) < MaxCalls
      /\ UNCHANGED <<last, heard, device, changes, toSender, had, result>>
  BY DEF Call
<1>2. n \in 1..MaxCalls /\ n \in Nat /\ Len(made) \in Nat /\ n \notin 1..Len(made)
  BY <1>0, <1>1, QueuesAreTyped
<1>3. q \in Requests /\ q.call = n
  BY <1>2, StatusAssumption DEF Requests
<1> HIDE DEF q, n
<1>4. /\ made' \in Seq(Requests) /\ Len(made') = n /\ made'[n] = q /\ \A i \in 1..Len(made) : made'[i] = made[i]
      /\ toReceiver' \in Seq(Requests)
  <2>1. made \in Seq(Requests) /\ toReceiver \in Seq(Requests)
    BY <1>0, QueuesAreTyped
  <2>2. /\ Append(made, q) \in Seq(Requests) /\ Len(Append(made, q)) = n /\ Append(made, q)[n] = q
        /\ \A i \in 1..Len(made) : Append(made, q)[i] = made[i]
    BY <1>3, <2>1, QueueAppend DEF n
  <2>3. Append(toReceiver, q) \in Seq(Requests)
    BY <1>3, <2>1
  <2> QED  BY <1>1, <2>2, <2>3, Zenon
<1>5. \A i \in 1..Len(made') : i \in 1..Len(made) \/ i = n
  BY <1>2, <1>4 DEF n
<1>6. \A i \in 1..Len(made) : i \in 1..Len(made') /\ i \in 1..MaxCalls /\ i # n
  BY <1>0, <1>2, <1>4, QueuesAreTyped DEF n
<1>7. n \in 1..Len(made')
  BY <1>2, <1>4
<1>8. StatusTypeOK'
  <2>1. n <= MaxCalls
    BY <1>2
  <2> QED  BY <1>0, <1>1, <1>3, <1>4, <2>1 DEF StatusTypeOK
<1>9. BecomesCurrent'
  BY <1>0, <1>1 DEF BecomesCurrent
<1>10. \A p : Made(made, p) => Made(made', p)
  BY <1>4, <1>6 DEF Made
<1>11. AnswersAreRecent'
  <2>1. Made(made', q)
    BY <1>3, <1>4, <1>7 DEF Made
  <2>2. \A p \in timers' : Made(made', p)
    BY <1>0, <1>1, <1>10, <2>1 DEF AnswersAreRecent
  <2>3. \A k \in 1..Len(toReceiver') : Made(made', toReceiver'[k])
    <3> TAKE k \in 1..Len(toReceiver')
    <3>1. \/ k \in 1..Len(toReceiver) /\ toReceiver'[k] = toReceiver[k]
          \/ toReceiver'[k] = q
      <4>1. toReceiver \in Seq(Requests) /\ k \in 1..Len(Append(toReceiver, q))
        BY <1>0, <1>1, QueuesAreTyped
      <4> QED  BY <1>1, <1>3, <4>1, QueueElements
    <3> QED  BY <1>0, <1>10, <2>1, <3>1 DEF AnswersAreRecent
  <2>4. ASSUME NEW k \in 1..Len(toSender), toSender[k].to # Broadcast
        PROVE  Made(made', toSender[k].to) /\ toSender[k].status.volume \in had[toSender[k].to.call]
    BY <1>0, <1>10, <2>4 DEF AnswersAreRecent, Recent
  <2>5. Recent(toSender, made', had)
    BY <2>4 DEF Recent
  <2> QED  BY <1>1, <2>2, <2>3, <2>5 DEF AnswersAreRecent
<1>12. Confirmed'
  <2>1. \A i \in 1..MaxCalls : result[i] # "none" => i \in 1..Len(made)
    BY <1>0 DEF Confirmed
  <2>2. ASSUME NEW i \in DOMAIN made', result[i] # "none"
        PROVE  i \in DOMAIN made /\ made'[i] = made[i]
    <3>1. i \in 1..Len(made')
      BY <1>4
    <3>2. i \in 1..MaxCalls
      BY <1>2, <1>5, <1>6, <3>1
    <3>3. i \in 1..Len(made)
      BY <2>1, <2>2, <3>2
    <3>4. i \in DOMAIN made
      BY <1>0, <3>3, QueuesAreTyped
    <3> QED  BY <1>4, <1>6, <3>3, <3>4
  <2>3. VolumeIsConfirmed'
    BY <1>0, <1>1, <2>2 DEF Confirmed, VolumeIsConfirmed
  <2>4. \A i \in 1..MaxCalls : result'[i] # "none" => i \in 1..Len(made')
    BY <1>1, <1>6, <2>1
  <2> QED  BY <2>3, <2>4 DEF Confirmed
<1> QED  BY <1>8, <1>9, <1>11, <1>12 DEF StatusIInv

LEMMA RetryIInv ==
  ASSUME StatusIInv, NEW p \in timers, Retry(p)
  PROVE  StatusIInv'
<1> DEFINE q == [p EXCEPT !.attempt = p.attempt + 1]
<1>0. /\ StatusTypeOK /\ BecomesCurrent /\ AnswersAreRecent /\ Confirmed
      /\ p.attempt < MaxAttempts
      /\ timers' = (timers \ {p}) \cup {q} /\ toReceiver' = Append(toReceiver, q)
      /\ UNCHANGED <<last, heard, device, changes, made, toSender, had, result>>
  BY DEF StatusIInv, Retry
<1>1. toReceiver \in Seq(Requests) /\ timers \subseteq Requests /\ q \in Requests /\ Made(made, q)
  <2>1. toReceiver \in Seq(Requests) /\ p \in Requests /\ timers \subseteq Requests /\ Made(made, p)
    BY <1>0, QueuesAreTyped DEF AnswersAreRecent
  <2>2. p.attempt + 1 \in 1..MaxAttempts
    BY <1>0, <2>1, StatusAssumption DEF Requests
  <2>3. q \in Requests /\ q.call = p.call /\ q.kind = p.kind /\ q.level = p.level
    BY <2>1, <2>2 DEF Requests
  <2> QED  BY <2>1, <2>3 DEF Made
<1> HIDE DEF q
<1>2. StatusTypeOK'
  <2>1. toReceiver' \in Seq(Requests)
    BY <1>0, <1>1
  <2>2. timers' \subseteq Requests
    BY <1>0, <1>1
  <2> QED  BY <1>0, <2>1, <2>2 DEF StatusTypeOK
<1>3. AnswersAreRecent'
  <2>1. \A k \in 1..Len(toReceiver') : Made(made, toReceiver'[k])
    <3> TAKE k \in 1..Len(toReceiver')
    <3>1. \/ k \in 1..Len(toReceiver) /\ toReceiver'[k] = toReceiver[k]
          \/ toReceiver'[k] = q
      <4>1. k \in 1..Len(Append(toReceiver, q))
        BY <1>0
      <4> QED  BY <1>0, <1>1, <4>1, QueueElements
    <3> QED  BY <1>0, <1>1, <3>1 DEF AnswersAreRecent
  <2>2. \A r \in timers' : Made(made, r)
    BY <1>0, <1>1 DEF AnswersAreRecent
  <2> QED  BY <1>0, <2>1, <2>2 DEF AnswersAreRecent
<1>4. BecomesCurrent' /\ Confirmed'
  BY <1>0 DEF BecomesCurrent, Confirmed, VolumeIsConfirmed
<1> QED  BY <1>2, <1>3, <1>4 DEF StatusIInv

\* What the sender does with the next message.
LEMMA TakesMessage ==
  ASSUME StatusIInv, toSender # <<>>, toSender' = Tail(toSender), UNCHANGED <<device, made, had>>
  PROVE  /\ toSender' \in Seq(Messages) /\ Head(toSender) \in Messages
         /\ LastKeptIs(toSender', device) /\ Recent(toSender', made, had)
         /\ heard /\ NoneKept(toSender') /\ ~Keeps(Head(toSender)) => Reflects(last, device)
         /\ NoneKept(toSender') /\ Keeps(Head(toSender)) =>
              NoneKept(toSender) \/ Head(toSender).status = device
         /\ NoneKept(toSender) => ~Keeps(Head(toSender))
         /\ Head(toSender).to # Broadcast =>
              /\ Made(made, Head(toSender).to)
              /\ Head(toSender).status.volume \in had[Head(toSender).to.call]
<1> DEFINE m == Head(toSender)
<1>0. StatusTypeOK /\ BecomesCurrent /\ AnswersAreRecent /\ toSender \in Seq(Messages)
  BY QueuesAreTyped DEF StatusIInv
<1>1. /\ toSender' \in Seq(Messages) /\ m = toSender[1] /\ m \in Messages /\ 1 \in 1..Len(toSender)
      /\ \A k \in 1..Len(toSender') : k + 1 \in 1..Len(toSender) /\ toSender'[k] = toSender[k + 1]
  BY <1>0, QueueTail
<1>2. /\ LastKeptIs(toSender, device) /\ Recent(toSender, made, had)
      /\ NoneKept(toSender) /\ heard => Reflects(last, device)
  BY <1>0 DEF BecomesCurrent, AnswersAreRecent
<1>3. /\ LastKeptIs(Tail(toSender), device)
      /\ NoneKept(Tail(toSender)) => NoneKept(toSender) \/ (Keeps(m) /\ m.status = device)
  BY <1>0, <1>2, KeptInTail, Zenon
<1> HIDE DEF m
<1>4. Recent(toSender', made, had)
  BY <1>1, <1>2 DEF Recent
<1>5. NoneKept(toSender) => ~Keeps(m)
  BY <1>1 DEF NoneKept
<1>6. m.to # Broadcast => Made(made, m.to) /\ m.status.volume \in had[m.to.call]
  BY <1>1, <1>2 DEF Recent
<1> QED  BY <1>1, <1>2, <1>3, <1>4, <1>5, <1>6, Zenon DEF m

LEMMA OnReceiverStatusIInv ==
  ASSUME StatusIInv, NEW m, toSender # <<>>, OnReceiverStatus(m)
  PROVE  StatusIInv'
<1>0. /\ StatusTypeOK /\ BecomesCurrent /\ AnswersAreRecent /\ Confirmed
      /\ m = Head(toSender) /\ toSender' = Tail(toSender) /\ m.to = Broadcast
      /\ last' = AssignStatus(last, Read(m.status)) /\ heard' = TRUE
      /\ UNCHANGED <<device, changes, made, toReceiver, had, timers, result>>
  BY DEF StatusIInv, OnReceiverStatus, Received, Keep
<1>1. /\ toSender' \in Seq(Messages) /\ m \in Messages
      /\ LastKeptIs(toSender', device) /\ Recent(toSender', made, had)
      /\ NoneKept(toSender') => m.status = device
  <2>1. Keeps(m)
    BY <1>0 DEF Keeps
  <2> QED  BY <1>0, <2>1, TakesMessage
<1>2. last' \in Statuses /\ Reflects(last', m.status)
  <2>1. m.status \in Statuses /\ last \in Statuses
    BY <1>0, <1>1, QueuesAreTyped DEF Messages
  <2> QED  BY <1>0, <2>1, KeptReflects
<1>3. StatusTypeOK'
  BY <1>0, <1>1, <1>2 DEF StatusTypeOK
<1>4. BecomesCurrent'
  BY <1>0, <1>1, <1>2 DEF BecomesCurrent
<1>5. AnswersAreRecent' /\ Confirmed'
  BY <1>0, <1>1 DEF AnswersAreRecent, Confirmed, VolumeIsConfirmed
<1> QED  BY <1>3, <1>4, <1>5 DEF StatusIInv

Fits(q, v) ==
  CASE q.kind = "mute" -> v.muted
    [] q.kind = "level" -> Near(q.level, v.level)
    [] OTHER -> TRUE

LEMMA OnResponseIInv ==
  ASSUME StatusIInv, NEW m, toSender # <<>>, OnResponse(m)
  PROVE  StatusIInv'
<1> DEFINE q == m.to
           told == IF Succeeds(q, m.status) THEN "true" ELSE "false"
<1>0. /\ StatusTypeOK /\ BecomesCurrent /\ AnswersAreRecent /\ Confirmed
      /\ m = Head(toSender) /\ toSender' = Tail(toSender) /\ q # Broadcast
      /\ timers' \subseteq timers /\ result' = [result EXCEPT ![q.call] = told]
      /\ IF q.kind = "GET_STATUS" THEN Keep(m.status) ELSE UNCHANGED <<last, heard>>
      /\ UNCHANGED <<device, changes, made, toReceiver, had>>
  BY DEF StatusIInv, OnResponse, Received
<1>1. /\ toSender' \in Seq(Messages) /\ m \in Messages
      /\ LastKeptIs(toSender', device) /\ Recent(toSender', made, had)
      /\ heard /\ NoneKept(toSender') /\ ~Keeps(m) => Reflects(last, device)
      /\ NoneKept(toSender') /\ Keeps(m) => m.status = device
      /\ Made(made, q) /\ m.status.volume \in had[q.call]
  BY <1>0, TakesMessage
<1>2. /\ m.status \in Statuses /\ last \in Statuses
      /\ q.call \in 1..MaxCalls /\ q.call \in 1..Len(made) /\ made[q.call].kind = q.kind /\ made[q.call].level = q.level
  <2>1. m.status \in Statuses /\ last \in Statuses
    BY <1>0, <1>1, QueuesAreTyped DEF Messages
  <2>2. q.call \in 1..Len(made) /\ made[q.call].kind = q.kind /\ made[q.call].level = q.level
    BY <1>1 DEF Made
  <2>3. q.call \in 1..MaxCalls
    BY <1>0, <2>2, QueuesAreTyped
  <2> QED  BY <2>1, <2>2, <2>3
<1>3. last' \in Statuses /\ heard' \in BOOLEAN /\ (heard' /\ NoneKept(toSender') => Reflects(last', device))
  <2>1. CASE q.kind = "GET_STATUS"
    <3>1. last' = AssignStatus(last, Read(m.status)) /\ heard' = TRUE /\ Keeps(m)
      BY <1>0, <2>1 DEF Keep, Keeps
    <3> QED  BY <1>1, <1>2, <3>1, KeptReflects
  <2>2. CASE q.kind # "GET_STATUS"
    <3>1. last' = last /\ heard' = heard /\ ~Keeps(m)
      BY <1>0, <2>2 DEF Keeps
    <3>2. heard \in BOOLEAN
      BY <1>0 DEF StatusTypeOK
    <3> QED  BY <1>1, <1>2, <3>1, <3>2
  <2> QED  BY <2>1, <2>2
<1>4. /\ told \in {"true", "false"} /\ (told = "true" <=> Fits(q, m.status.volume))
  BY DEF Succeeds, Fits
<1> HIDE DEF told
<1>5. /\ result' \in [1..MaxCalls -> {"none", "true", "false"}] /\ result'[q.call] = told
      /\ \A n \in 1..MaxCalls : n # q.call => result'[n] = result[n]
  <2>1. result \in [1..MaxCalls -> {"none", "true", "false"}]
    BY <1>0, QueuesAreTyped
  <2> QED  BY <1>0, <1>2, <1>4, <2>1
<1>6. StatusTypeOK'
  BY <1>0, <1>1, <1>3, <1>5 DEF StatusTypeOK
<1>7. BecomesCurrent'
  BY <1>0, <1>1, <1>3 DEF BecomesCurrent
<1>8. AnswersAreRecent'
  BY <1>0, <1>1 DEF AnswersAreRecent
<1>9. Confirmed'
  <2>1. ASSUME NEW n \in DOMAIN made, result'[n] # "none"
        PROVE  \E v \in had[n] : result'[n] = "true" <=> Fits(made[n], v)
    <3>1. CASE n = q.call
      <4>1. Fits(made[n], m.status.volume) <=> Fits(q, m.status.volume)
        BY <1>2, <3>1 DEF Fits
      <4> QED  BY <1>1, <1>2, <1>4, <1>5, <3>1, <4>1
    <3>2. CASE n # q.call
      <4>1. n \in 1..MaxCalls
        BY <1>0, QueuesAreTyped
      <4>2. result'[n] = result[n]
        BY <1>5, <3>2, <4>1
      <4> QED  BY <1>0, <2>1, <4>2 DEF Confirmed, VolumeIsConfirmed, Fits
    <3> QED  BY <3>1, <3>2
  <2>2. VolumeIsConfirmed'
    BY <1>0, <2>1 DEF VolumeIsConfirmed, Fits
  <2>3. \A n \in 1..MaxCalls : result'[n] # "none" => n \in 1..Len(made)
    BY <1>0, <1>2, <1>5 DEF Confirmed
  <2> QED  BY <1>0, <2>2, <2>3 DEF Confirmed
<1> QED  BY <1>6, <1>7, <1>8, <1>9 DEF StatusIInv

\* The receiver's status becomes s, which it broadcasts if it is another, and it answers or not.
LEMMA ChangingIInv ==
  ASSUME StatusIInv, NEW s \in Statuses, NEW answers, NEW served, Changes(s, answers, served),
         \/ answers = <<>>
         \/ \E q \in Requests : Made(made, q) /\ q.call \in served /\ answers = <<[status |-> s, to |-> q]>>,
         toReceiver' \in Seq(Requests), \A k \in 1..Len(toReceiver') : Made(made, toReceiver'[k]),
         changes' \in 0..MaxChanges, UNCHANGED <<last, heard, made, timers, result>>
  PROVE  StatusIInv'
<1> DEFINE b == [status |-> s, to |-> Broadcast]
           queue == toSender \o (IF s = device THEN <<>> ELSE <<b>>)
<1>0. /\ StatusTypeOK /\ BecomesCurrent /\ AnswersAreRecent /\ Confirmed
      /\ toSender \in Seq(Messages) /\ device' = s /\ toSender' = queue \o answers
      /\ had' = [n \in 1..MaxCalls |-> IF had[n] # {} \/ n \in served THEN had[n] \cup {s.volume} ELSE {}]
  BY QueuesAreTyped DEF StatusIInv, Changes
<1>1. b \in Messages /\ Keeps(b) /\ b.status = s /\ b.to = Broadcast
  BY DEF Messages, Keeps
<1> HIDE DEF b
<1>2. /\ had' \in [1..MaxCalls -> SUBSET Volumes]
      /\ \A n \in 1..Len(made) :
           n \in 1..MaxCalls /\ had[n] \subseteq had'[n] /\ (n \in served => s.volume \in had'[n])
  <2>1. had \in [1..MaxCalls -> SUBSET Volumes] /\ s.volume \in Volumes
    BY <1>0, QueuesAreTyped, PartsOfStatus
  <2>2. \A n \in 1..MaxCalls : had[n] \cup {s.volume} \in SUBSET Volumes
    BY <2>1
  <2>3. \A n \in 1..Len(made) : n \in 1..MaxCalls
    BY <1>0, QueuesAreTyped
  <2> QED  BY <1>0, <2>1, <2>2, <2>3
<1>3. \A q : Made(made, q) => had[q.call] \subseteq had'[q.call] /\ (q.call \in served => s.volume \in had'[q.call])
  BY <1>2 DEF Made
<1>4. Recent(toSender, made, had')
  BY <1>0, <1>3 DEF AnswersAreRecent, Recent
<1>5. ASSUME NEW old \in Seq(Messages), Recent(old, made, had'), NEW m \in Messages,
             m.to = Broadcast \/ (Made(made, m.to) /\ m.to.call \in served /\ m.status = s)
      PROVE  Recent(Append(old, m), made, had')
  <2> SUFFICES ASSUME NEW k \in 1..Len(Append(old, m)), Append(old, m)[k].to # Broadcast
               PROVE  /\ Made(made, Append(old, m)[k].to)
                      /\ Append(old, m)[k].status.volume \in had'[Append(old, m)[k].to.call]
    BY DEF Recent
  <2>1. \/ k \in 1..Len(old) /\ Append(old, m)[k] = old[k]
        \/ k = Len(old) + 1 /\ Append(old, m)[k] = m
    BY QueueElements
  <2>2. m.to # Broadcast => Made(made, m.to) /\ m.status.volume \in had'[m.to.call]
    BY <1>3, <1>5
  <2> QED  BY <1>5, <2>1, <2>2 DEF Recent
<1>6. /\ queue \in Seq(Messages) /\ LastKeptIs(queue, s) /\ Recent(queue, made, had')
      /\ NoneKept(queue) /\ heard => Reflects(last, s)
  <2>1. CASE s = device
    <3>1. queue = toSender
      BY <1>0, <1>1, <2>1, QueueConcat
    <3> HIDE DEF queue
    <3> QED  BY <1>0, <1>4, <2>1, <3>1 DEF BecomesCurrent
  <2>2. CASE s # device
    <3>1. queue = Append(toSender, b)
      BY <1>0, <1>1, <2>2, QueueConcat
    <3> HIDE DEF queue
    <3>2. LastKeptIs(Append(toSender, b), s) /\ ~NoneKept(Append(toSender, b))
      BY <1>0, <1>1, KeptIsLast
    <3>3. Append(toSender, b) \in Seq(Messages)
      BY <1>0, <1>1
    <3>4. b \in Messages /\ b.to = Broadcast
      BY <1>1
    <3>5. Recent(Append(toSender, b), made, had')
      BY <1>0, <1>4, <1>5, <3>4, Zenon
    <3> QED  BY <3>1, <3>2, <3>3, <3>5
  <2> QED  BY <2>1, <2>2
<1> HIDE DEF queue
<1>7. /\ toSender' \in Seq(Messages) /\ LastKeptIs(toSender', s) /\ Recent(toSender', made, had')
      /\ NoneKept(toSender') /\ heard => Reflects(last, s)
  <2>1. CASE answers = <<>>
    <3>1. toSender' = queue
      BY <1>0, <1>1, <1>6, <2>1, QueueConcat
    <3> QED  BY <1>6, <3>1
  <2>2. ASSUME NEW q \in Requests, Made(made, q), q.call \in served, answers = <<[status |-> s, to |-> q]>>
        PROVE  /\ toSender' \in Seq(Messages) /\ LastKeptIs(toSender', s) /\ Recent(toSender', made, had')
               /\ NoneKept(toSender') /\ heard => Reflects(last, s)
    <3> DEFINE a == [status |-> s, to |-> q]
    <3>1. a \in Messages /\ a.status = s /\ a.to = q
      BY DEF Messages
    <3>2. answers = <<a>>
      BY <2>2
    <3> HIDE DEF a
    <3>3. toSender' = Append(queue, a)
      BY <1>0, <1>6, <3>1, <3>2, QueueConcat
    <3>4. LastKeptIs(Append(queue, a), s) /\ (NoneKept(Append(queue, a)) => NoneKept(queue))
      BY <1>6, <3>1, KeptIsLast
    <3>5. Recent(Append(queue, a), made, had') /\ Append(queue, a) \in Seq(Messages)
      BY <1>5, <1>6, <2>2, <3>1
    <3> QED  BY <1>6, <3>3, <3>4, <3>5
  <2> QED  BY <2>1, <2>2
<1>8. StatusTypeOK'
  BY <1>0, <1>2, <1>7 DEF StatusTypeOK
<1>9. BecomesCurrent'
  BY <1>0, <1>7 DEF BecomesCurrent
<1>10. AnswersAreRecent'
  BY <1>0, <1>2, <1>7 DEF AnswersAreRecent
<1>11. Confirmed'
  <2>1. \A n \in DOMAIN made : n \in 1..Len(made)
    BY <1>0, QueuesAreTyped
  <2>2. \A n \in DOMAIN made : had[n] \subseteq had'[n]
    BY <1>2, <2>1
  <2>3. VolumeIsConfirmed'
    BY <1>0, <2>2 DEF Confirmed, VolumeIsConfirmed
  <2> QED  BY <1>0, <2>3 DEF Confirmed
<1> QED  BY <1>8, <1>9, <1>10, <1>11 DEF StatusIInv

LEMMA ReceiverAnswersIInv ==
  ASSUME StatusIInv, NEW q, ReceiverAnswers(q)
  PROVE  StatusIInv'
<1>0. /\ StatusTypeOK /\ AnswersAreRecent
      /\ toReceiver # <<>> /\ q = Head(toReceiver) /\ toReceiver' = Tail(toReceiver)
      /\ UNCHANGED <<last, heard, changes, made, timers, result>>
  BY DEF StatusIInv, ReceiverAnswers
<1>1. /\ toReceiver' \in Seq(Requests) /\ q \in Requests /\ Made(made, q)
      /\ \A k \in 1..Len(toReceiver') : Made(made, toReceiver'[k])
  <2>1. toReceiver \in Seq(Requests)
    BY <1>0, QueuesAreTyped
  <2>2. /\ toReceiver' \in Seq(Requests) /\ q = toReceiver[1] /\ q \in Requests /\ 1 \in 1..Len(toReceiver)
        /\ \A k \in 1..Len(toReceiver') : k + 1 \in 1..Len(toReceiver) /\ toReceiver'[k] = toReceiver[k + 1]
    BY <1>0, <2>1, QueueTail
  <2> QED  BY <1>0, <2>2 DEF AnswersAreRecent
<1>2. Wanted(q) \in Statuses /\ device \in Statuses
  <2>1. /\ device \in Statuses /\ q.muted \in BOOLEAN /\ q.level \in Levels
    BY <1>0, <1>1, QueuesAreTyped DEF Requests
  <2>2. /\ [device EXCEPT !.volume.muted = q.muted] \in Statuses
        /\ [device EXCEPT !.volume.level = q.level] \in Statuses
    BY <2>1 DEF Statuses, Volumes
  <2> QED  BY <2>1, <2>2 DEF Wanted
<1>3. PICK s \in Statuses : Changes(s, <<[status |-> s, to |-> q]>>, {q.call})
  BY <1>2 DEF ReceiverAnswers
<1>4. changes' \in 0..MaxChanges
  BY <1>0 DEF StatusTypeOK
<1> QED  BY <1>0, <1>1, <1>3, <1>4, ChangingIInv

LEMMA StatusChangesIInv ==
  ASSUME StatusIInv, StatusChanges
  PROVE  StatusIInv'
<1>0. /\ StatusTypeOK /\ AnswersAreRecent /\ changes < MaxChanges /\ changes' = changes + 1
      /\ UNCHANGED <<last, heard, made, timers, toReceiver, result>>
  BY DEF StatusIInv, StatusChanges
<1>1. device \in Statuses /\ toReceiver' \in Seq(Requests) /\ changes' \in 0..MaxChanges
  <2>1. changes \in 0..MaxChanges /\ MaxChanges \in Nat
    BY <1>0, StatusAssumption DEF StatusTypeOK
  <2>2. changes' \in 0..MaxChanges
    BY <1>0, <2>1
  <2> QED  BY <1>0, <2>2, QueuesAreTyped
<1>2. PICK s \in Statuses : Changes(s, <<>>, {})
  <2>1. \A v \in Volumes : [device EXCEPT !.volume = v] \in Statuses
    BY <1>1 DEF Statuses
  <2>2. \A a \in Inputs : [device EXCEPT !.active = a] \in Statuses
    BY <1>1 DEF Statuses
  <2>3. \A l \in Lists : [device EXCEPT !.applications = l] \in Statuses
    BY <1>1 DEF Statuses
  <2>4. \/ \E v \in Volumes : Changes([device EXCEPT !.volume = v], <<>>, {})
        \/ \E a \in Inputs : Changes([device EXCEPT !.active = a], <<>>, {})
        \/ \E l \in Lists : Changes([device EXCEPT !.applications = l], <<>>, {})
    BY Zenon DEF StatusChanges
  <2> QED  BY <2>1, <2>2, <2>3, <2>4, Zenon
<1>3. \A k \in 1..Len(toReceiver') : Made(made, toReceiver'[k])
  BY <1>0 DEF AnswersAreRecent
<1> QED  BY <1>0, <1>1, <1>2, <1>3, ChangingIInv

LEMMA NextStatusIInv == StatusIInv /\ [StatusNext]_statusVars => StatusIInv'
<1> SUFFICES ASSUME StatusIInv, [StatusNext]_statusVars PROVE StatusIInv'
  OBVIOUS
<1>0. 0 \in Levels /\ FALSE \in BOOLEAN
  BY StatusAssumption DEF Levels
<1>1. CASE GetStatus \/ GetAppAvailabillity
  <2>1. CASE GetStatus
    BY <1>0, <2>1, CallIInv, Zenon DEF GetStatus
  <2>2. CASE GetAppAvailabillity
    BY <1>0, <2>2, CallIInv, Zenon DEF GetAppAvailabillity
  <2> QED  BY <1>1, <2>1, <2>2
<1>2. CASE \E muted \in BOOLEAN : Mute(muted)
  BY <1>0, <1>2, CallIInv, Zenon DEF Mute
<1>3. CASE \E level \in Levels : SetVolume(level)
  BY <1>3, CallIInv DEF SetVolume
<1>4. CASE \E q \in timers : Retry(q)
  BY <1>4, RetryIInv
<1>5. CASE toSender # <<>> /\ (OnReceiverStatus(Head(toSender)) \/ OnResponse(Head(toSender)))
  BY <1>5, OnReceiverStatusIInv, OnResponseIInv
<1>6. CASE toReceiver # <<>> /\ ReceiverAnswers(Head(toReceiver))
  BY <1>6, ReceiverAnswersIInv
<1>7. CASE StatusChanges
  BY <1>7, StatusChangesIInv
<1>8. CASE UNCHANGED statusVars
  BY <1>8 DEF statusVars, StatusIInv, StatusTypeOK, BecomesCurrent, AnswersAreRecent, Confirmed, VolumeIsConfirmed
<1> QED  BY <1>1, <1>2, <1>3, <1>4, <1>5, <1>6, <1>7, <1>8 DEF StatusNext

LEMMA StatusInvariance == StatusSpec => []StatusIInv
<1> QED  BY InitStatusIInv, NextStatusIInv, PTL DEF StatusSpec

\* Every variable keeps its type.
THEOREM StatusIsTyped == StatusSpec => []StatusTypeOK
<1>1. StatusIInv => StatusTypeOK
  BY DEF StatusIInv
<1> QED  BY <1>1, StatusInvariance, PTL

\* When nothing is under way the last status that was heard is the receiver's, whoever
\* changed it and however many operations were called (receiver_channel.cpp:142-152).
THEOREM StatusIsHeard == StatusSpec => []LastStatusIsCurrent
<1>1. StatusIInv => LastStatusIsCurrent
  BY DEF StatusIInv, BecomesCurrent, NoneKept, Reflects, LastStatusIsCurrent
<1> QED  BY <1>1, StatusInvariance, PTL

\* What the callback of SetVolume or Mute is told has been true since the receiver served
\* the call, for any number of calls, attempts and changes (receiver_channel.cpp:75-84,
\* 213-235).
THEOREM VolumesAreConfirmed == StatusSpec => []VolumeIsConfirmed
<1>1. StatusIInv => VolumeIsConfirmed
  BY DEF StatusIInv, Confirmed
<1> QED  BY <1>1, StatusInvariance, PTL
=============================================================================
