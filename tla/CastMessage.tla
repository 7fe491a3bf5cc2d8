------------------------------ MODULE CastMessage ------------------------------
(***************************************************************************)
(* The message of the protocol: the class generated for it from            *)
(* cast_channel.proto (google_cast_message.h and .cpp), and how the        *)
(* library saves its own struct into it and loads it (cast_message.cpp).   *)
(*                                                                         *)
(* A text is a number, 0 the empty one.  What is written is a sequence of  *)
(* tokens, one per field; their bytes, and how a field is skipped, are     *)
(* the protobuf library's.  A string member is either a string of the      *)
(* message's own or the empty one that all messages share, which must      *)
(* never be written or deleted.                                            *)
(***************************************************************************)
EXTENDS Naturals, Sequences, FiniteSets, FiniteSetsExt

CONSTANTS
  Objs,      \* messages in memory
  Texts,     \* texts given to setters
  Packets,   \* structs the library saves
  Added,     \* tokens a peer may add to what it sends
  MaxSteps   \* bound on calls of accessors and changes by the peer

\* The fields in the order of their numbers, which is the order they are written in.
FieldOrder == <<"protocol_version", "source_id", "destination_id", "namespace",
                "payload_type", "payload_utf8", "payload_binary">>
Fields == {FieldOrder[i] : i \in 1..7}
EnumFields == {"protocol_version", "payload_type"}
StringFields == Fields \ EnumFields
Required == {FieldOrder[i] : i \in 1..5}

IsValid(f, v) == v \in IF f = "protocol_version" THEN {0} ELSE {0, 1}

\* A token that is not whole ends the input inside its value.  "unknown" stands for
\* a number the class does not know, or the wrong wire type; "end" for tag 0 or the
\* end of a group.
Tokens == [f : Fields \cup {"unknown", "end"}, v : Nat, whole : BOOLEAN]
Token(f, v) == [f |-> f, v |-> v, whole |-> TRUE]

Messages == [has : SUBSET Fields, own : SUBSET StringFields, val : [Fields -> Nat],
             unknown : Seq(Tokens)]

PacketType == [source : Nat, destination : Nat, namespace : Nat, type : {0, 1}, payload : Nat]
NoPacket == [source |-> 0, destination |-> 0, namespace |-> 0, type |-> 2, payload |-> 0]

ASSUME ConstantsAssumption ==
  /\ IsFiniteSet(Objs)
  /\ Texts \subseteq Nat /\ MaxSteps \in Nat
  /\ Packets \subseteq PacketType
  /\ Added \subseteq Tokens

VARIABLES
  msg,     \* the messages
  live,    \* strings allocated and not deleted
  held,    \* those of them that were released to the caller
  wire,    \* the packet: what was written last, as its sender has it
  origin,  \* the struct it was saved from, unless the sender is one that says more
  target,  \* the message that the packet is parsed into
  pos,     \* the token to be read next
  phase,   \* of the parser, or of the struct's Serialize
  steps

memory == <<live, held>>
written == <<wire, origin>>
vars == <<msg, memory, written, target, pos, phase, steps>>

TypeOK ==
  /\ msg \in [Objs -> Messages]
  /\ live \in Nat /\ held \in Nat
  /\ wire \in Seq(Tokens)
  /\ origin \in PacketType \cup {NoPacket}
  /\ target \in Objs /\ pos \in Nat
  /\ phase \in {"idle", "parsing", "parsed", "failed", "refused"}
  /\ steps \in 0..MaxSteps

\* SharedCtor
Fresh == [has |-> {}, own |-> {}, val |-> [f \in Fields |-> 0], unknown |-> <<>>]

Init ==
  /\ msg = [o \in Objs |-> Fresh]
  /\ live = 0 /\ held = 0
  /\ wire = <<>> /\ origin = NoPacket
  /\ target \in Objs /\ pos = 1 /\ phase = "idle"
  /\ steps = 0

-----------------------------------------------------------------------------
(* What the accessors do to a message *)

\* The strings set_ and mutable_ have to allocate.
Missing(x, fs) == Cardinality((fs \cap StringFields) \ x.own)

Mutable(x, f) == [x EXCEPT !.has = @ \cup {f}, !.own = @ \cup ({f} \cap StringFields)]
Set(x, f, v) == [Mutable(x, f) EXCEPT !.val[f] = v]

\* Mutated ClearField: only the bit is cleared.
ClearBitOnly(x, f) == [x EXCEPT !.has = @ \ {f}]

\* The shared string is not cleared: it is empty.
ClearField(x, f) ==
  [x EXCEPT !.has = @ \ {f}, !.val[f] = IF f \in EnumFields \cup x.own THEN 0 ELSE @]

\* release_, and set_allocated_ with NULL: the member is the shared string again.
Detach(x, f) == [x EXCEPT !.has = @ \ {f}, !.own = @ \ {f}, !.val[f] = 0]

\* Clear.  Only strings whose bit is set are emptied; nothing is deleted.
Cleared(x) ==
  LET emptied == IF x.has = {} THEN {} ELSE EnumFields \cup (x.has \cap x.own) IN
  [x EXCEPT !.has = {}, !.unknown = <<>>,
            !.val = [f \in Fields |-> IF f \in emptied THEN 0 ELSE x.val[f]]]

Merged(x, from) ==
  [x EXCEPT !.has = @ \cup from.has, !.own = @ \cup (from.has \cap StringFields),
            !.val = [f \in Fields |-> IF f \in from.has THEN from.val[f] ELSE x.val[f]],
            !.unknown = @ \o from.unknown]

Copied(x, from) == Merged(Cleared(x), from)

IsInitialized(x) == Required \subseteq x.has

-----------------------------------------------------------------------------
(* The operations of the class.  A parser runs to its end before anything else does. *)

Call ==
  /\ phase # "parsing" /\ phase' = "idle"
  /\ steps < MaxSteps /\ steps' = steps + 1
  /\ UNCHANGED <<written, target, pos>>

Becomes(o, x) == Call /\ msg' = [msg EXCEPT ![o] = x]

Owned(x, fs) == Cardinality(fs \cap x.own)

\* Mutated accessors: the string that set_allocated_ replaces is not deleted.
StringAccessLeaks(f) ==
  \E o \in Objs :
    /\ \E t \in Texts : Becomes(o, Set(msg[o], f, t))
    /\ live' = live + 1 /\ UNCHANGED held

\* The accessors of a string: set_, mutable_, release_, set_allocated_ (a new string,
\* one that was released, or NULL) and clear_.
StringAccess(f) ==
  \E o \in Objs :
    LET x == msg[o] IN
    \/ /\ \/ \E t \in Texts : Becomes(o, Set(x, f, t))
          \/ Becomes(o, Mutable(x, f))
       /\ live' = live + Missing(x, {f}) /\ UNCHANGED held
    \/ /\ Becomes(o, Detach(x, f))
       /\ held' = held + Owned(x, {f}) /\ UNCHANGED live
    \/ /\ \E t \in Texts : Becomes(o, Set(x, f, t))
       /\ \/ live' = (live + 1) - Owned(x, {f}) /\ UNCHANGED held
          \/ held > 0 /\ held' = held - 1 /\ live' = live - Owned(x, {f})
    \/ /\ Becomes(o, Detach(x, f))
       /\ live' = live - Owned(x, {f}) /\ UNCHANGED held
    \/ /\ Becomes(o, ClearField(x, f))
       /\ UNCHANGED memory

\* The accessors of an enumeration; set_ asserts that the value is one of its own.
EnumAccess(f) ==
  \E o \in Objs :
    /\ \/ \E v \in {0, 1} : IsValid(f, v) /\ Becomes(o, Set(msg[o], f, v))
       \/ Becomes(o, ClearField(msg[o], f))
    /\ UNCHANGED memory

ProtocolVersion == EnumAccess("protocol_version")
SourceId == StringAccess("source_id")
DestinationId == StringAccess("destination_id")
Namespace == StringAccess("namespace")
PayloadType == EnumAccess("payload_type")
PayloadUtf8 == StringAccess("payload_utf8")
PayloadBinary == StringAccess("payload_binary")

\* The caller deletes a string that was released to it.
DeleteReleased ==
  /\ held > 0
  /\ held' = held - 1 /\ live' = live - 1
  /\ UNCHANGED <<msg, written, target, pos, phase, steps>>

Clear(o) == Becomes(o, Cleared(msg[o])) /\ UNCHANGED memory

MergeFrom(o, p) ==
  /\ o # p
  /\ Becomes(o, Merged(msg[o], msg[p]))
  /\ live' = live + Missing(msg[o], msg[p].has) /\ UNCHANGED held

CopyFrom(o, p) ==
  /\ o # p
  /\ Becomes(o, Copied(msg[o], msg[p]))
  /\ live' = live + Missing(msg[o], msg[p].has) /\ UNCHANGED held

Swap(o, p) ==
  /\ Call
  /\ msg' = [msg EXCEPT ![o] = msg[p], ![p] = msg[o]]
  /\ UNCHANGED memory

\* SharedDtor; another message takes the place of this one.
Destroy(o) ==
  /\ Becomes(o, Fresh)
  /\ live' = live - Owned(msg[o], StringFields) /\ UNCHANGED held

-----------------------------------------------------------------------------
(* Writing *)

\* SerializeWithCachedSizes
Part(x, i) ==
  LET f == FieldOrder[i] IN IF f \in x.has THEN <<Token(f, x.val[f])>> ELSE <<>>
Written(x) ==
  Part(x, 1) \o Part(x, 2) \o Part(x, 3) \o Part(x, 4) \o Part(x, 5) \o Part(x, 6)
    \o Part(x, 7) \o x.unknown

Write(x, from) ==
  /\ wire' = Written(x) /\ origin' = from
  /\ UNCHANGED <<msg, memory, target, pos, steps>>

\* SerializeToCodedStream.  Bound: one packet, and what was parsed from it again.
Serialize(o) ==
  /\ phase # "parsing" /\ phase' = "idle"
  /\ wire = <<>> \/ (phase = "parsed" /\ o = target)
  /\ Write(msg[o], NoPacket)

\* The message that the struct's Serialize fills.
Saved(p) ==
  LET payload == IF p.type = 0 THEN "payload_utf8" ELSE "payload_binary"
      text == [source_id |-> p.source, destination_id |-> p.destination,
               namespace |-> p.namespace] IN
  [Fresh EXCEPT !.has = Required \cup {payload},
                !.own = {payload} \cup DOMAIN text,
                !.val = [f \in Fields |-> IF f \in DOMAIN text THEN text[f] ELSE
                                          IF f = payload THEN p.payload ELSE
                                          IF f = "payload_type" THEN p.type ELSE 0]]

\* The struct's Serialize, which the connection calls twice: once to measure the
\* packet, and once to send it.  A struct whose bytes are empty is refused.
Save(p) ==
  /\ phase # "parsing" /\ wire = <<>>
  /\ IF p.type = 1 /\ p.payload = 0
     THEN phase' = "refused" /\ UNCHANGED <<msg, memory, written, target, pos, steps>>
     ELSE phase' = "idle" /\ Write(Saved(p), p)

-----------------------------------------------------------------------------
(* What another sender's packet may be *)

Known(t) == t.f \in StringFields \/ (t.f \in EnumFields /\ IsValid(t.f, t.v))

Sends(tokens, from) ==
  /\ phase # "parsing" /\ phase' = "idle" /\ wire # <<>>
  /\ steps < MaxSteps /\ steps' = steps + 1
  /\ wire' = tokens /\ origin' = from
  /\ UNCHANGED <<msg, memory, target, pos>>

\* A token more: a field that is newer than the class, a field again, a broken one.
PeerAdds(t, i) ==
  Sends(SubSeq(wire, 1, i) \o <<t>> \o SubSeq(wire, i + 1, Len(wire)),
        IF t.whole /\ t.f # "end" /\ ~Known(t) THEN origin ELSE NoPacket)

PeerOmits(i) == Sends(SubSeq(wire, 1, i - 1) \o SubSeq(wire, i + 1, Len(wire)), NoPacket)

\* Fields may come in any order.
PeerReorders(i) ==
  /\ i < Len(wire)
  /\ Sends([wire EXCEPT ![i] = wire[i + 1], ![i + 1] = wire[i]],
           IF wire[i].f = wire[i + 1].f THEN NoPacket ELSE origin)

-----------------------------------------------------------------------------
(* Reading *)

\* ParseFromCodedStream clears the message first.
ParseFromCodedStream(o) ==
  /\ phase # "parsing" /\ wire # <<>>
  /\ msg' = [msg EXCEPT ![o] = Cleared(@)]
  /\ target' = o /\ pos' = 1 /\ phase' = "parsing"
  /\ UNCHANGED <<memory, written, steps>>

\* Mutated Parsed: an enumeration takes any value.
ParsedUnchecked(x, t) ==
  IF t.f \in Fields THEN Set(x, t.f, t.v)
  ELSE IF t.whole THEN [x EXCEPT !.unknown = Append(@, t)] ELSE x

\* One token: into its field, or else to the unknown ones.
Parsed(x, t) ==
  IF t.f \in StringFields \/ (t.whole /\ Known(t)) THEN Set(x, t.f, t.v)
  ELSE IF t.whole THEN [x EXCEPT !.unknown = Append(@, t)] ELSE x

\* MergePartialFromCodedStream, one turn of its loop.
ParseField ==
  /\ phase = "parsing" /\ pos \in DOMAIN wire /\ wire[pos].f # "end"
  /\ LET t == wire[pos] IN
       /\ msg' = [msg EXCEPT ![target] = Parsed(@, t)]
       /\ live' = live + (IF t.f \in StringFields THEN Missing(msg[target], {t.f}) ELSE 0)
       /\ phase' = IF t.whole THEN "parsing" ELSE "failed"
  /\ pos' = pos + 1
  /\ UNCHANGED <<held, written, target, steps>>

\* The end of the input, or of a group: what follows is left alone.  The message must
\* be complete; if not, the struct's Serialize throws.
EndParse ==
  /\ phase = "parsing"
  /\ pos \in DOMAIN wire => wire[pos].f = "end"
  /\ phase' = IF IsInitialized(msg[target]) THEN "parsed" ELSE "failed"
  /\ UNCHANGED <<msg, memory, written, target, pos, steps>>

\* Mutated Loaded: the payload is taken from the text, whatever its type.
LoadedAsText(x) ==
  [source |-> x.val["source_id"], destination |-> x.val["destination_id"],
   namespace |-> x.val["namespace"], type |-> x.val["payload_type"],
   payload |-> x.val["payload_utf8"]]

\* What the struct takes from the message.
Loaded(x) ==
  [source |-> x.val["source_id"], destination |-> x.val["destination_id"],
   namespace |-> x.val["namespace"], type |-> x.val["payload_type"],
   payload |-> x.val[IF x.val["payload_type"] = 0 THEN "payload_utf8" ELSE "payload_binary"]]

Next ==
  \/ ProtocolVersion \/ SourceId \/ DestinationId \/ Namespace
  \/ PayloadType \/ PayloadUtf8 \/ PayloadBinary
  \/ DeleteReleased
  \/ \E o \in Objs : Clear(o) \/ Destroy(o) \/ Serialize(o) \/ ParseFromCodedStream(o)
  \/ \E o, p \in Objs : MergeFrom(o, p) \/ CopyFrom(o, p) \/ Swap(o, p)
  \/ \E p \in Packets : Save(p)
  \/ \E t \in Added, i \in 0..Len(wire) : PeerAdds(t, i)
  \/ \E i \in DOMAIN wire : PeerOmits(i) \/ PeerReorders(i)
  \/ ParseField \/ EndParse

Spec == Init /\ [][Next]_vars

-----------------------------------------------------------------------------
(* Properties *)

\* A field that is not there has its default value, whatever was done before, so that
\* Clear may leave the strings without a bit alone; and nobody has written into the
\* string all messages share.
AbsentIsDefault ==
  \A o \in Objs, f \in Fields :
    f \notin msg[o].has \/ f \in StringFields \ msg[o].own => msg[o].val[f] = 0

\* Every string has one owner: a message, or the caller it was released to.  None is
\* lost, and none is deleted twice.
Owners == {p \in Objs \X StringFields : p[2] \in msg[p[1]].own}
StringsAreOwned == live = held + Cardinality(Owners)

Sound(i) == \A j \in 1..i : wire[j].whole /\ wire[j].f # "end"

Broken == \E i \in DOMAIN wire : Sound(i - 1) /\ ~wire[i].whole /\ wire[i].f # "end"

Occurrences(f) == {i \in DOMAIN wire : Sound(i) /\ wire[i].f = f /\ Known(wire[i])}
Unknowns == {i \in DOMAIN wire : Sound(i) /\ ~Known(wire[i])}

\* These are the tokens at some places of the packet, in their order.
TokensAt(tokens, places) ==
  /\ Len(tokens) = Cardinality(places)
  /\ \A i \in places : tokens[Cardinality({j \in places : j <= i})] = wire[i]

\* Whatever the message was used for before: it is parsed if all that is required comes
\* before the input ends or breaks.  Each field is the last of its values that is
\* valid, and what is unknown is kept in its order.
LoadIsLastValid ==
  LET x == msg[target] IN
  /\ phase = "parsed" =>
       /\ ~Broken
       /\ TokensAt(x.unknown, Unknowns)
       /\ \A f \in Fields : LET at == Occurrences(f) IN
            /\ f \in x.has <=> at # {}
            /\ at # {} => x.val[f] = wire[Max(at)].v
  /\ phase = "failed" => Broken \/ \E f \in Required : Occurrences(f) = {}

\* What the library saves is loaded as it was, also from a sender that orders the
\* fields as it likes or adds fields and values that are newer than the class.
LoadedIsSaved ==
  /\ phase = "parsed" /\ origin # NoPacket => Loaded(msg[target]) = origin
  /\ phase = "failed" => origin = NoPacket
=============================================================================
