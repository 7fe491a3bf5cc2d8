---------------------------- MODULE MediaMessages ----------------------------
(***************************************************************************)
(* What a LOAD says of the media and what a status says of it: the         *)
(* conversions of media_messages.cpp, over the JSON values of              *)
(* JsonMessage.  The five strings of a track are one name here, those of   *)
(* the media another.  A status has the media that are played here.        *)
(***************************************************************************)
EXTENDS JsonMessage, SequencesExt

CONSTANTS
  Contents,     \* what media are made of
  TextNames,    \* names of tracks of text
  OtherNames,   \* names of tracks of any other type
  Urls,         \* of images
  MaxTracks, MaxImages, MaxItems,
  None

ASSUME ConstantsAssumption ==
  /\ TextNames \cap OtherNames = {}
  /\ MaxTracks \in Nat /\ MaxImages \in Nat /\ MaxItems \in Nat

VARIABLES
  message,  \* the last LOAD of the user, until the receiver takes it
  asked,    \* the media he gave
  loaded,   \* the media the receiver plays, if it is the user's, as he gave it
  playing,  \* the media the receiver plays, as JSON
  known,    \* the media of the last status
  fresh,    \* whether that is what the receiver plays
  status    \* of run(): the part of a status that could not be read

vars == <<message, asked, loaded, playing, known, fresh, status>>

UpTo(n, S) == UNION {[1..k -> S] : k \in 0..n}

\* Structures of the program.
Tracks == [type : {"Text", "Unknown"}, name : TextNames \cup OtherNames]
Media == [content : Contents, stream : {"BUFFERED", "LIVE"}, tracks : UpTo(MaxTracks, Tracks),
          images : UpTo(MaxImages, Urls)]

\* The user knows the type of his tracks.
OwnTracks == [type : {"Text"}, name : TextNames] \cup [type : {"Unknown"}, name : OtherNames]
OwnMedia == {m \in Media : \A k \in DOMAIN m.tracks : m.tracks[k] \in OwnTracks}

-----------------------------------------------------------------------------
(* To JSON *)

\* Track::ToMessage throws on a type it does not know.
CanWrite(media) == \A k \in DOMAIN media.tracks : media.tracks[k].type = "Text"
WriteTrack(track) == [type |-> "TEXT", name |-> track.name]
WriteTracks(tracks) == [k \in DOMAIN tracks |-> WriteTrack(tracks[k])]

\* MetaData::ToMessage: each image is assigned to the same member.
WriteImages(part, images) == FoldLeft(LAMBDA p, url : Assign(p, "url", url), part, images)

WriteMetaData(part, media) ==
  Assign(Assign(part, "type", 0), "images", WriteImages(Empty, media.images))

\* Media::ToMessage, called with the whole message: the metadata is beside the media,
\* not in it.
ToMessage(media) ==
  LET message1 == Assign(Empty, "media",
        [contentId |-> media.content, streamType |-> media.stream,
         tracks |-> WriteTracks(media.tracks)]) IN
  Assign(message1, "metadata", WriteMetaData(Member(message1, "metadata"), media))

-----------------------------------------------------------------------------
(* From JSON *)

\* Mutated ReadTrack: tracks are taken for text.
ReadTrackAsText(part) == [type |-> "Text", name |-> part.name]

\* Track::FromMessage.
ReadTrack(part) == [type |-> IF part.type = "TEXT" THEN "Text" ELSE "Unknown", name |-> part.name]

\* Mutated ReadTracks: the loop ends one element early.
ReadTracksButLast(part) ==
  IF HasMember(part, "tracks") /\ part.tracks # <<>>
  THEN [k \in 1..(Len(part.tracks) - 1) |-> ReadTrack(part.tracks[k])] ELSE <<>>

ReadTracks(part) ==
  IF HasMember(part, "tracks") THEN [k \in DOMAIN part.tracks |-> ReadTrack(part.tracks[k])] ELSE <<>>

ReadImages(part) ==
  IF ~HasMember(part, "metadata") THEN <<>> ELSE
  LET images == part.metadata.images IN [k \in DOMAIN images |-> images[k].url]

\* Mutated CanRead: the metadata is read without asking whether it is there.
CanReadMetaData(part) == ~HasMember(part, "textTrackStyle") /\ HasMember(part, "metadata")

\* TextTrackStyle::FromMessage throws: it looks for the colours beside the style, and
\* no two digits are a byte to lexical_cast.  MetaData::FromMessage wants a "type".
CanRead(part) ==
  /\ ~HasMember(part, "textTrackStyle")
  /\ HasMember(part, "metadata") => CanReadMembers(part.metadata, {"type", "images"})

\* Media::FromMessage; the stream type is not assigned.
FromMessage(part) ==
  {[content |-> part.contentId, stream |-> s, tracks |-> ReadTracks(part), images |-> ReadImages(part)] :
     s \in {"BUFFERED", "LIVE"}}

\* MediaItem::FromMessage wants all of its members.
CanReadItem(item) ==
  /\ CanReadMembers(item, {"itemId", "autoplay", "startTime", "activeTrackIds", "media"})
  /\ CanRead(item.media)

PlayerStates == {"PLAYING", "BUFFERING", "PAUSED", "IDLE"}

\* The part of a status at which MediaStatus::FromMessage throws, in the order it reads
\* them.  It wants seven other members, currentItemId one of them.
Fault(s) ==
  IF ~CanReadMembers(s, {"currentItemId", "playerState"}) THEN "member"
  ELSE IF s.playerState \notin PlayerStates THEN "playerState"
  ELSE IF HasMember(s, "repeatMode") /\ s.repeatMode # "REPEAT_OFF" THEN "repeatMode"
  ELSE IF ~CanRead(s.media) THEN "media"
  ELSE IF HasMember(s, "items") /\ \E k \in DOMAIN s.items : ~CanReadItem(s.items[k]) THEN "items"
  ELSE "none"

-----------------------------------------------------------------------------
(* The values *)

OwnMessages == {ToMessage(m) : m \in {n \in OwnMedia : CanWrite(n)}}

\* What other clients load may have tracks, a style and metadata: these, as they write
\* them, have no "type".
With(parts, name, values) == parts \cup {Assign(p, name, v) : p \in parts, v \in values}
ForeignTracks == [type : {"TEXT"}, name : TextNames] \cup [type : {"AUDIO"}, name : OtherNames]
MetaData == With([images : UpTo(MaxImages, [url : Urls])], "type", {0})
Bare == [contentId : Contents, streamType : {"LIVE"}]
ForeignParts ==
  LET withTracks == With(Bare, "tracks", UpTo(MaxTracks, ForeignTracks))
  IN  With(With(withTracks, "metadata", MetaData), "textTrackStyle", {"style"})

\* The statuses of a receiver that plays part: other clients may have put items into its
\* queue and set how it repeats, and it may be newer than the library.
Items(part) ==
  With([itemId : {1}, autoplay : {TRUE}, startTime : {0}, media : {part} \cup With(Bare, "textTrackStyle", {"style"})],
       "activeTrackIds", {<<>>})
StatusParts(part) ==
  LET idle == With([playerState : {"IDLE", "LOADING"}, media : {part}], "currentItemId", {1})
  IN  With(With(idle, "repeatMode", {"REPEAT_OFF", "REPEAT_ALL"}), "items", UpTo(MaxItems, Items(part)))

TypeOK ==
  /\ message \in OwnMessages \cup {None}
  /\ asked \in Media \cup {None} /\ loaded \in Media \cup {None}
  /\ playing \in ForeignParts \cup {m.media : m \in OwnMessages} \cup {None}
  /\ known \in OwnMedia \cup {None}
  /\ fresh \in BOOLEAN
  /\ status \in {"running", "member", "playerState", "repeatMode", "media", "items"}

Init ==
  /\ message = None /\ asked = None /\ loaded = None
  /\ playing = None /\ known = None /\ fresh = FALSE
  /\ status = "running"

-----------------------------------------------------------------------------

\* MediaChannel::Load, which does not send autoplay.  If the media cannot be written
\* the user gets an exception and nothing is sent.
Load(media) ==
  /\ status = "running"
  /\ message = None
  /\ CanWrite(media)
  /\ message' = ToMessage(media)
  /\ asked' = media
  /\ UNCHANGED <<loaded, playing, known, fresh, status>>

\* MediaStatus::FromMessage: the media of the status, or an exception.
OnMediaStatus(s) ==
  /\ status = "running"
  /\ \/ /\ Fault(s) = "none"
        /\ known' \in FromMessage(s.media)
        /\ fresh' = TRUE
        /\ UNCHANGED status
     \/ /\ Fault(s) # "none"
        /\ status' = Fault(s)
        /\ UNCHANGED <<known, fresh>>
  /\ UNCHANGED <<message, asked, loaded, playing>>

\* The receiver, as long as there is someone to hear it, looks at the media of the message.
ReceiverLoads ==
  /\ status = "running"
  /\ message # None
  /\ playing' = message.media
  /\ loaded' = asked
  /\ message' = None
  /\ fresh' = FALSE
  /\ UNCHANGED <<asked, known, status>>

\* Another client loads media.
OtherLoads(part) ==
  /\ status = "running"
  /\ playing' = part
  /\ loaded' = None
  /\ fresh' = FALSE
  /\ UNCHANGED <<message, asked, known, status>>

Next ==
  \/ \E media \in OwnMedia : Load(media)
  \/ known # None /\ Load(known)
  \/ playing # None /\ \E s \in StatusParts(playing) : OnMediaStatus(s)
  \/ ReceiverLoads
  \/ \E part \in ForeignParts : OtherLoads(part)

Spec == Init /\ [][Next]_vars

-----------------------------------------------------------------------------
(* Properties *)

\* The user's own media come back in the status as he gave them, if he gave no track
\* that is not text: what they are made of and all tracks, in order.
OwnMediaComeBack ==
  loaded # None /\ fresh => known.content = loaded.content /\ known.tracks = loaded.tracks

\* A track that another client loaded and that is not text is never sent as text,
\* even if the user loads the media of a status again.
OnlyTextIsSentAsText ==
  message # None => \A k \in DOMAIN message.media.tracks : message.media.tracks[k].name \in TextNames

\* Media that the user has loaded can be read: they are another client's if reading the
\* media of a status ends run().  The rest of the status may still do so.
OwnMediaAreReadable == [][status' = "media" => status' = status \/ loaded = None]_vars
=============================================================================
