-------------------------- MODULE CastMessageProofs --------------------------
(***************************************************************************)
(* Theorems about CastMessage, for any messages in memory, any texts, any  *)
(* packets and any number of calls and changes by the peer.                *)
(***************************************************************************)
EXTENDS CastMessage, FiniteSetTheorems, TLAPS

\* What is absent from one message has its default value.
Defaults(x) ==
  \A f \in Fields : f \notin x.has \/ f \in StringFields \ x.own => x.val[f] = 0

\* A message as the class leaves it.
Proper(x) == x \in Messages /\ Defaults(x)

IInv ==
  /\ msg \in [Objs -> Messages]
  /\ \A o \in Objs : Defaults(msg[o])
  /\ wire \in Seq(Tokens) /\ target \in Objs

-----------------------------------------------------------------------------
(* Every operation on a message keeps it proper *)

LEMMA FieldKinds ==
  /\ EnumFields \subseteq Fields /\ StringFields \subseteq Fields
  /\ EnumFields \cap StringFields = {} /\ Fields = EnumFields \cup StringFields
BY DEF Fields, EnumFields, StringFields, FieldOrder

\* A new message is proper.
LEMMA FreshIsProper == Proper(Fresh)
<1>1. Fresh \in Messages
  BY FieldKinds DEF Fresh, Messages
<1> QED BY <1>1 DEF Proper, Defaults, Fresh

\* A field that is set is present, and a string that is set is the message's own.
LEMMA SetIsProper ==
  ASSUME NEW x, Proper(x), NEW f \in Fields, NEW v \in Nat
  PROVE  Proper(Set(x, f, v)) /\ Proper(Mutable(x, f))
<1> DEFINE y == Mutable(x, f)
<1>1. y \in Messages /\ y.has = x.has \cup {f} /\ y.own = x.own \cup ({f} \cap StringFields)
        /\ y.val = x.val
  BY FieldKinds DEF Mutable, Messages, Proper
<1>2. Proper(y)
  BY <1>1 DEF Proper, Defaults
<1>3. Set(x, f, v) = [y EXCEPT !.val[f] = v]
  BY DEF Set
<1>4. Set(x, f, v) \in Messages
  <2>1. [y.val EXCEPT ![f] = v] \in [Fields -> Nat]
    BY <1>1 DEF Messages
  <2> HIDE DEF y
  <2>2. Set(x, f, v) = [has |-> y.has, own |-> y.own, val |-> [y.val EXCEPT ![f] = v],
                        unknown |-> y.unknown]
    BY <1>1, <1>3 DEF Messages
  <2> QED BY <1>1, <2>1, <2>2 DEF Messages
<1>5. Defaults(Set(x, f, v))
  BY <1>1, <1>2, <1>3, FieldKinds DEF Proper, Defaults, Messages
<1> QED BY <1>2, <1>4, <1>5 DEF Proper

LEMMA ClearFieldIsProper ==
  ASSUME NEW x, Proper(x), NEW f \in Fields
  PROVE  Proper(ClearField(x, f)) /\ Proper(Detach(x, f))
<1>1. ClearField(x, f) \in Messages /\ Detach(x, f) \in Messages
  BY DEF ClearField, Detach, Proper, Messages
<1>2. Defaults(ClearField(x, f))
  BY FieldKinds DEF ClearField, Proper, Defaults, Messages
<1>3. Defaults(Detach(x, f))
  BY FieldKinds DEF Detach, Proper, Defaults, Messages
<1> QED BY <1>1, <1>2, <1>3 DEF Proper

\* Clear empties all there is, although it looks only at strings whose bit is set.
LEMMA ClearedIsFresh ==
  ASSUME NEW x, Proper(x)
  PROVE  /\ Proper(Cleared(x))
         /\ Cleared(x).has = {} /\ Cleared(x).own = x.own
         /\ Cleared(x).val = Fresh.val /\ Cleared(x).unknown = <<>>
<1>1. /\ Cleared(x) \in Messages
      /\ Cleared(x).has = {} /\ Cleared(x).own = x.own /\ Cleared(x).unknown = <<>>
  <2> DEFINE emptied == IF x.has = {} THEN {} ELSE EnumFields \cup (x.has \cap x.own)
             val == [f \in Fields |-> IF f \in emptied THEN 0 ELSE x.val[f]]
  <2>1. val \in [Fields -> Nat]
    BY DEF Proper, Messages
  <2>2. Cleared(x) = [x EXCEPT !.has = {}, !.unknown = <<>>, !.val = val]
    BY DEF Cleared
  <2>3. <<>> \in Seq(Tokens)
    OBVIOUS
  <2>4. /\ x \in Messages /\ x.own \in SUBSET StringFields
    BY DEF Proper, Messages
  <2> HIDE DEF emptied, val
  <2>5. Cleared(x) = [has |-> {}, own |-> x.own, val |-> val, unknown |-> <<>>]
    BY <2>2, <2>4 DEF Messages
  <2> QED BY <2>1, <2>3, <2>4, <2>5 DEF Messages
<1>2. \A f \in Fields : Cleared(x).val[f] = 0
  BY FieldKinds DEF Cleared, Proper, Defaults, Messages
<1>3. Cleared(x).val = [f \in Fields |-> 0]
  <2> DEFINE val == Cleared(x).val
  <2>1. val \in [Fields -> Nat]
    BY <1>1 DEF Messages
  <2> HIDE DEF val
  <2>2. val = [f \in Fields |-> val[f]]
    BY <2>1
  <2>3. \A f \in Fields : val[f] = 0
    BY <1>2 DEF val
  <2>4. val = [f \in Fields |-> 0]
    BY <2>2, <2>3
  <2> QED BY <2>4 DEF val
<1> QED BY <1>1, <1>2, <1>3 DEF Proper, Defaults, Fresh

LEMMA MergedIsProper ==
  ASSUME NEW x, Proper(x), NEW y, Proper(y)
  PROVE  Proper(Merged(x, y))
<1> DEFINE val == [f \in Fields |-> IF f \in y.has THEN y.val[f] ELSE x.val[f]]
<1>1. val \in [Fields -> Nat]
  BY DEF Proper, Messages
<1>2. x.unknown \o y.unknown \in Seq(Tokens)
  BY DEF Proper, Messages
<1>3. /\ Merged(x, y).has = x.has \cup y.has
      /\ Merged(x, y).own = x.own \cup (y.has \cap StringFields)
      /\ Merged(x, y).val = val
      /\ Merged(x, y) \in Messages
  <2> HIDE DEF val
  <2> QED BY <1>1, <1>2, FieldKinds DEF Merged, Proper, Messages, val
<1>4. Defaults(Merged(x, y))
  BY <1>3, FieldKinds DEF Proper, Defaults, Messages
<1> QED BY <1>3, <1>4 DEF Proper

LEMMA ParsedIsProper ==
  ASSUME NEW x, Proper(x), NEW t \in Tokens
  PROVE  Proper(Parsed(x, t))
<1>1. CASE t.f \in StringFields \/ (t.whole /\ Known(t))
  BY <1>1, SetIsProper, FieldKinds DEF Parsed, Known, Tokens
<1>2. CASE ~(t.f \in StringFields \/ (t.whole /\ Known(t))) /\ t.whole
  <2>1. Parsed(x, t) = [x EXCEPT !.unknown = Append(@, t)]
    BY <1>2 DEF Parsed
  <2>2. Append(x.unknown, t) \in Seq(Tokens)
    BY DEF Proper, Messages
  <2>3. Parsed(x, t) \in Messages /\ Parsed(x, t).has = x.has /\ Parsed(x, t).own = x.own
          /\ Parsed(x, t).val = x.val
    BY <2>1, <2>2 DEF Proper, Messages
  <2> QED BY <2>3 DEF Proper, Defaults
<1>3. CASE ~(t.f \in StringFields \/ (t.whole /\ Known(t))) /\ ~t.whole
  BY <1>3 DEF Parsed
<1> QED BY <1>1, <1>2, <1>3

\* What is written of a proper message are tokens.
LEMMA WrittenIsTokens ==
  ASSUME NEW x, Proper(x)
  PROVE  Written(x) \in Seq(Tokens)
<1>1. \A i \in 1..7 : FieldOrder[i] \in Fields
  BY DEF Fields
<1>2. \A f \in Fields : Token(f, x.val[f]) \in Tokens
  BY DEF Token, Tokens, Proper, Messages
<1>3. \A i \in 1..7 : Part(x, i) \in Seq(Tokens)
  BY <1>1, <1>2 DEF Part
<1>4. x.unknown \in Seq(Tokens)
  BY DEF Proper, Messages
<1> QED BY <1>3, <1>4 DEF Written

\* What the struct's Serialize fills is a proper message.
LEMMA SavedIsProper ==
  ASSUME NEW p \in PacketType
  PROVE  Proper(Saved(p))
<1> DEFINE payload == IF p.type = 0 THEN "payload_utf8" ELSE "payload_binary"
           text == [source_id |-> p.source, destination_id |-> p.destination,
                    namespace |-> p.namespace]
           val == [f \in Fields |-> IF f \in DOMAIN text THEN text[f] ELSE
                                    IF f = payload THEN p.payload ELSE
                                    IF f = "payload_type" THEN p.type ELSE 0]
<1>1. DOMAIN text = {"source_id", "destination_id", "namespace"}
        /\ \A f \in DOMAIN text : text[f] \in Nat
  BY DEF PacketType
<1>2. val \in [Fields -> Nat]
  BY <1>1 DEF PacketType
<1>3. {payload} \cup DOMAIN text \subseteq StringFields /\ Required \cup {payload} \subseteq Fields
        /\ DOMAIN text \cup {"payload_type"} \subseteq Required /\ "payload_type" \notin StringFields
  BY <1>1 DEF StringFields, EnumFields, Fields, FieldOrder, Required
<1>4. Saved(p) = [Fresh EXCEPT !.has = Required \cup {payload}, !.own = {payload} \cup DOMAIN text,
                               !.val = val]
  BY DEF Saved
<1> HIDE DEF payload, text, val
<1>5. /\ Saved(p) \in Messages /\ Saved(p).val = val
      /\ Saved(p).has = Required \cup {payload} /\ Saved(p).own = {payload} \cup DOMAIN text
  BY <1>2, <1>3, <1>4, FreshIsProper DEF Proper, Messages
<1>6. \A f \in Fields : f \notin {payload, "payload_type"} \cup DOMAIN text => val[f] = 0
  BY DEF val
<1> QED BY <1>3, <1>5, <1>6, FieldKinds DEF Proper, Defaults

\* Properness is kept by replacing messages with proper ones.
LEMMA OthersStay ==
  ASSUME IInv, NEW o \in Objs, NEW x, Proper(x), msg' = [msg EXCEPT ![o] = x],
         wire' \in Seq(Tokens), target' \in Objs
  PROVE  IInv'
BY DEF IInv, Proper, Defaults

\* The messages there are, taken one by one.
LEMMA AllProper ==
  ASSUME IInv, NEW o \in Objs
  PROVE  Proper(msg[o])
BY DEF IInv, Proper

\* The calls of a message leave the packet and the parser alone.
LEMMA CallKeeps ==
  ASSUME IInv, Call
  PROVE  wire' \in Seq(Tokens) /\ target' \in Objs
BY DEF IInv, Call, written

-----------------------------------------------------------------------------
(* The invariant *)

LEMMA StringAccessKeeps ==
  ASSUME IInv, NEW f \in StringFields, StringAccess(f)
  PROVE  IInv'
<1> USE ConstantsAssumption
<1> DEFINE Results(o) == {ClearField(msg[o], f), Detach(msg[o], f), Mutable(msg[o], f)}
                         \cup {Set(msg[o], f, t) : t \in Texts}
<1>1. PICK o \in Objs : \E x \in Results(o) : Becomes(o, x)
  BY DEF StringAccess
<1>2. f \in Fields /\ \A t \in Texts : t \in Nat
  BY FieldKinds
<1>3. \A x \in Results(o) : Proper(x)
  BY <1>2, AllProper, SetIsProper, ClearFieldIsProper
<1> QED BY <1>1, <1>3, CallKeeps, OthersStay DEF Becomes

LEMMA EnumAccessKeeps ==
  ASSUME IInv, NEW f \in EnumFields, EnumAccess(f)
  PROVE  IInv'
<1> DEFINE Results(o) == {ClearField(msg[o], f)} \cup {Set(msg[o], f, v) : v \in {0, 1}}
<1>1. PICK o \in Objs : \E x \in Results(o) : Becomes(o, x)
  BY DEF EnumAccess
<1>2. \A x \in Results(o) : Proper(x)
  BY AllProper, FieldKinds, SetIsProper, ClearFieldIsProper
<1> QED BY <1>1, <1>2, CallKeeps, OthersStay DEF Becomes

THEOREM InitIInv == Init => IInv
BY FreshIsProper DEF Init, IInv, Proper

THEOREM NextIInv == IInv /\ [Next]_vars => IInv'
<1> SUFFICES ASSUME IInv, [Next]_vars PROVE IInv'
  OBVIOUS
<1> USE ConstantsAssumption
<1>1. CASE ProtocolVersion \/ PayloadType
  BY <1>1, EnumAccessKeeps DEF ProtocolVersion, PayloadType, EnumFields
<1>2. CASE SourceId \/ DestinationId \/ Namespace \/ PayloadUtf8 \/ PayloadBinary
  <2>1. {"source_id", "destination_id", "namespace", "payload_utf8", "payload_binary"}
          \subseteq StringFields
    BY DEF StringFields, EnumFields, Fields, FieldOrder
  <2> QED BY <1>2, <2>1, StringAccessKeeps
          DEF SourceId, DestinationId, Namespace, PayloadUtf8, PayloadBinary
<1>3. CASE DeleteReleased
  BY <1>3 DEF DeleteReleased, IInv, Defaults, written
<1>4. ASSUME NEW o \in Objs, Clear(o) PROVE IInv'
  BY <1>4, AllProper, ClearedIsFresh, CallKeeps, OthersStay DEF Clear, Becomes
<1>5. ASSUME NEW o \in Objs, Destroy(o) PROVE IInv'
  BY <1>5, FreshIsProper, CallKeeps, OthersStay DEF Destroy, Becomes
<1>6. ASSUME NEW o \in Objs, Serialize(o) PROVE IInv'
  BY <1>6, AllProper, WrittenIsTokens DEF Serialize, Write, IInv, Defaults
<1>7. ASSUME NEW o \in Objs, ParseFromCodedStream(o) PROVE IInv'
  <2>1. wire' \in Seq(Tokens) /\ target' \in Objs /\ msg' = [msg EXCEPT ![o] = Cleared(msg[o])]
    BY <1>7 DEF ParseFromCodedStream, written, IInv
  <2> QED BY <2>1, AllProper, ClearedIsFresh, OthersStay
<1>8. ASSUME NEW o \in Objs, NEW p \in Objs, MergeFrom(o, p) PROVE IInv'
  BY <1>8, AllProper, MergedIsProper, CallKeeps, OthersStay DEF MergeFrom, Becomes
<1>9. ASSUME NEW o \in Objs, NEW p \in Objs, CopyFrom(o, p) PROVE IInv'
  BY <1>9, AllProper, ClearedIsFresh, MergedIsProper, CallKeeps, OthersStay
     DEF CopyFrom, Copied, Becomes
<1>10. ASSUME NEW o \in Objs, NEW p \in Objs, Swap(o, p) PROVE IInv'
  <2>1. wire' \in Seq(Tokens) /\ target' \in Objs
    BY <1>10, CallKeeps DEF Swap
  <2>2. msg' = [msg EXCEPT ![o] = msg[p], ![p] = msg[o]]
    BY <1>10 DEF Swap
  <2> QED BY <2>1, <2>2 DEF IInv, Defaults
<1>11. ASSUME NEW p \in Packets, Save(p) PROVE IInv'
  <2>1. CASE wire' = wire
    BY <1>11, <2>1 DEF Save, Write, IInv, Defaults
  <2>2. CASE wire' = Written(Saved(p))
    BY <1>11, <2>2, SavedIsProper, WrittenIsTokens DEF Save, Write, IInv, Defaults
  <2> QED BY <1>11, <2>1, <2>2 DEF Save, Write, written
<1>12. ASSUME NEW tokens \in Seq(Tokens), NEW from, Sends(tokens, from) PROVE IInv'
  BY <1>12 DEF Sends, IInv, Defaults
<1>13. ASSUME NEW t \in Added, NEW i \in 0..Len(wire), PeerAdds(t, i) PROVE IInv'
  <2>1. SubSeq(wire, 1, i) \o <<t>> \o SubSeq(wire, i + 1, Len(wire)) \in Seq(Tokens)
    BY DEF IInv
  <2> QED BY <1>12, <1>13, <2>1 DEF PeerAdds
<1>14. ASSUME NEW i \in DOMAIN wire, PeerOmits(i) PROVE IInv'
  <2>1. SubSeq(wire, 1, i - 1) \o SubSeq(wire, i + 1, Len(wire)) \in Seq(Tokens)
    BY DEF IInv
  <2> QED BY <1>12, <1>14, <2>1 DEF PeerOmits
<1>15. ASSUME NEW i \in DOMAIN wire, PeerReorders(i) PROVE IInv'
  <2>1. [wire EXCEPT ![i] = wire[i + 1], ![i + 1] = wire[i]] \in Seq(Tokens)
    BY <1>15 DEF PeerReorders, IInv
  <2> QED BY <1>12, <1>15, <2>1 DEF PeerReorders
<1>16. CASE ParseField
  <2>1. wire' \in Seq(Tokens) /\ target' \in Objs /\ target \in Objs /\ wire[pos] \in Tokens
    BY <1>16 DEF ParseField, written, IInv
  <2>2. msg' = [msg EXCEPT ![target] = Parsed(msg[target], wire[pos])]
    BY <1>16 DEF ParseField
  <2> QED BY <2>1, <2>2, AllProper, ParsedIsProper, OthersStay
<1>17. CASE EndParse
  BY <1>17 DEF EndParse, IInv, Defaults, written
<1>18. CASE UNCHANGED vars
  BY <1>18 DEF vars, written, IInv, Defaults
<1> QED
  BY <1>1, <1>2, <1>3, <1>4, <1>5, <1>6, <1>7, <1>8, <1>9, <1>10, <1>11, <1>13, <1>14, <1>15,
     <1>16, <1>17, <1>18 DEF Next

\* A field that is not there has its default value, whatever was called before.
THEOREM AbsentFieldsAreDefault == Spec => []AbsentIsDefault
<1>1. IInv => AbsentIsDefault
  BY DEF IInv, Defaults, AbsentIsDefault
<1> QED BY InitIInv, NextIInv, <1>1, PTL DEF Spec

\* Parsing begins with a message that says nothing, whatever it was used for before.
THEOREM ParsingStartsEmpty ==
  Spec => [][\A o \in Objs : ParseFromCodedStream(o) =>
               /\ msg'[o].has = {} /\ msg'[o].val = Fresh.val /\ msg'[o].unknown = <<>>]_vars
<1>1. IInv /\ [Next]_vars =>
        [\A o \in Objs : ParseFromCodedStream(o) =>
           /\ msg'[o].has = {} /\ msg'[o].val = Fresh.val /\ msg'[o].unknown = <<>>]_vars
  <2> SUFFICES ASSUME IInv, NEW o \in Objs, ParseFromCodedStream(o)
               PROVE  /\ msg'[o].has = {} /\ msg'[o].val = Fresh.val
                      /\ msg'[o].unknown = <<>>
    OBVIOUS
  <2>1. msg'[o] = Cleared(msg[o])
    BY DEF ParseFromCodedStream, IInv
  <2> QED BY <2>1, AllProper, ClearedIsFresh
<1> QED BY InitIInv, NextIInv, <1>1, PTL DEF Spec

-----------------------------------------------------------------------------
(* Who owns a string *)

OwnersOf(m) == {p \in Objs \X StringFields : p[2] \in m[p[1]].own}

LEMMA StringsAreFinite ==
  /\ IsFiniteSet(StringFields)
  /\ \A s \in SUBSET StringFields : IsFiniteSet(s) /\ Cardinality(s) \in Nat
<1>1. FieldOrder \in Surjection(1..7, Fields)
  BY DEF FieldOrder, Fields, Surjection
<1>2. IsFiniteSet(1..7)
  <2>1. 1 \in Int /\ 7 \in Int
    OBVIOUS
  <2> QED  BY ONLY <2>1, FS_Interval, Zenon
<1>3. IsFiniteSet(StringFields)
  BY <1>1, <1>2, FS_Surjection, FS_Subset, FieldKinds
<1> QED  BY <1>3, FS_Subset, FS_CardinalityType

LEMMA OwnersAreFinite ==
  ASSUME NEW m
  PROVE  IsFiniteSet(OwnersOf(m)) /\ Cardinality(OwnersOf(m)) \in Nat
<1>1. IsFiniteSet(Objs \X StringFields)
  BY ConstantsAssumption, StringsAreFinite, FS_Product
<1> QED  BY <1>1, FS_Subset, FS_CardinalityType DEF OwnersOf

\* What a set that grows, or shrinks, has more or less than before.
LEMMA Counting ==
  ASSUME NEW s \in SUBSET StringFields, NEW t \in SUBSET StringFields
  PROVE  /\ Cardinality(s \cup t) = Cardinality(s) + Cardinality(t \ s)
         /\ Cardinality(s \ t) = Cardinality(s) - Cardinality(t \cap s)
<1>1. IsFiniteSet(s) /\ IsFiniteSet(t \ s) /\ Cardinality(s) \in Nat /\ Cardinality(t \ s) \in Nat
  BY StringsAreFinite
<1>2. Cardinality(s \cup t) = Cardinality(s) + Cardinality(t \ s)
  <2>1. s \cup t = s \cup (t \ s) /\ s \cap (t \ s) = {}
    OBVIOUS
  <2>2. Cardinality(s \cup (t \ s)) = Cardinality(s) + Cardinality(t \ s) - Cardinality(s \cap (t \ s))
    BY <1>1, FS_Union, Zenon
  <2>3. Cardinality(s \cup t) = Cardinality(s) + Cardinality(t \ s) - 0
    BY <2>1, <2>2, FS_EmptySet, Zenon
  <2> QED  BY <1>1, <2>3
<1>3. Cardinality(s \ t) = Cardinality(s) - Cardinality(t \cap s)
  <2>1. s \cap t = t \cap s
    OBVIOUS
  <2>2. Cardinality(s \ t) = Cardinality(s) - Cardinality(s \cap t)
    BY ONLY <1>1, FS_Difference, Zenon
  <2> QED  BY <2>1, <2>2
<1> QED  BY <1>2, <1>3

\* If one message is replaced the others own what they did.
LEMMA ReplacingCounts ==
  ASSUME NEW m \in [Objs -> Messages], NEW o \in Objs, NEW x \in Messages
  PROVE  Cardinality(OwnersOf([m EXCEPT ![o] = x])) =
           Cardinality(OwnersOf(m)) - Cardinality(m[o].own) + Cardinality(x.own)
<1> DEFINE others == {p \in OwnersOf(m) : p[1] # o}
           own(s) == {o} \X s
<1>0. m[o].own \in SUBSET StringFields /\ x.own \in SUBSET StringFields
  BY DEF Messages
<1>1. IsFiniteSet(others) /\ Cardinality(others) \in Nat
  BY OwnersAreFinite, FS_Subset, FS_CardinalityType
<1>2. ASSUME NEW s \in SUBSET StringFields
      PROVE  Cardinality(others \cup own(s)) = Cardinality(others) + Cardinality(s)
  <2>1. IsFiniteSet(s) /\ Cardinality(s) \in Nat /\ IsFiniteSet({o}) /\ Cardinality({o}) = 1
    BY StringsAreFinite, FS_Singleton
  <2>2. IsFiniteSet(own(s)) /\ Cardinality(own(s)) = 1 * Cardinality(s)
    BY <2>1, FS_Product
  <2>3. others \cap own(s) = {}
    OBVIOUS
  <2>4. Cardinality(others \cup own(s)) = Cardinality(others) + Cardinality(own(s)) - Cardinality({})
    BY <1>1, <2>2, <2>3, FS_Union
  <2> QED  BY <1>1, <2>1, <2>2, <2>4, FS_EmptySet
<1>3. OwnersOf(m) = others \cup own(m[o].own)
  BY <1>0 DEF OwnersOf
<1>4. OwnersOf([m EXCEPT ![o] = x]) = others \cup own(x.own)
  BY <1>0 DEF OwnersOf
<1> HIDE DEF others, own
<1>5. Cardinality(m[o].own) \in Nat /\ Cardinality(x.own) \in Nat
  BY <1>0, StringsAreFinite
<1>6. Cardinality(OwnersOf(m)) = Cardinality(others) + Cardinality(m[o].own)
  BY <1>0, <1>2, <1>3, Zenon
<1>7. Cardinality(OwnersOf([m EXCEPT ![o] = x])) = Cardinality(others) + Cardinality(x.own)
  BY <1>0, <1>2, <1>4, Zenon
<1> QED  BY <1>1, <1>5, <1>6, <1>7

\* The strings there are.
Memory == held \in Nat /\ live = held + Cardinality(OwnersOf(msg))

\* A message owns more strings: those that had to be allocated.
LEMMA GainingKeeps ==
  ASSUME IInv, Memory, NEW o \in Objs, NEW x \in Messages, msg' = [msg EXCEPT ![o] = x],
         NEW fs \in SUBSET Fields, x.own = msg[o].own \cup (fs \cap StringFields),
         held' \in Nat, live' \in Int, live' - held' = (live - held) + Missing(msg[o], fs)
  PROVE  Memory'
<1> DEFINE own == msg[o].own
           new == fs \cap StringFields
<1>1. own \in SUBSET StringFields /\ new \in SUBSET StringFields
  BY AllProper DEF Proper, Messages
<1>2. Cardinality(own \cup new) = Cardinality(own) + Cardinality(new \ own)
  BY <1>1, Counting
<1>3. Cardinality(OwnersOf(msg')) = Cardinality(OwnersOf(msg)) - Cardinality(own) + Cardinality(own \cup new)
  <2>1. msg \in [Objs -> Messages]
    BY DEF IInv
  <2> QED  BY <2>1, ReplacingCounts
<1>4. live' - held' = (live - held) + Cardinality(new \ own)
  BY DEF Missing
<1>5. Cardinality(own) \in Nat /\ Cardinality(new \ own) \in Nat /\ Cardinality(OwnersOf(msg)) \in Nat
  BY <1>1, StringsAreFinite, OwnersAreFinite
<1> HIDE DEF own, new
<1> QED  BY <1>2, <1>3, <1>4, <1>5 DEF Memory

\* A message gives up a string, which is deleted or held by the caller.
LEMMA LosingKeeps ==
  ASSUME IInv, Memory, NEW o \in Objs, NEW x \in Messages, msg' = [msg EXCEPT ![o] = x],
         NEW fs \in SUBSET StringFields, x.own = msg[o].own \ fs, held' \in Nat,
         live' - held' = (live - held) - Owned(msg[o], fs), live' \in Int
  PROVE  Memory'
<1> DEFINE own == msg[o].own
<1>1. own \in SUBSET StringFields
  BY AllProper DEF Proper, Messages
<1>2. Cardinality(own \ fs) = Cardinality(own) - Cardinality(fs \cap own)
  BY <1>1, Counting
<1>3. Cardinality(OwnersOf(msg')) = Cardinality(OwnersOf(msg)) - Cardinality(own) + Cardinality(own \ fs)
  <2>1. msg \in [Objs -> Messages]
    BY DEF IInv
  <2> QED  BY <2>1, ReplacingCounts
<1>4. live' - held' = (live - held) - Cardinality(fs \cap own)
  BY DEF Owned
<1>5. Cardinality(own) \in Nat /\ Cardinality(fs \cap own) \in Nat /\ Cardinality(OwnersOf(msg)) \in Nat
  BY <1>1, StringsAreFinite, OwnersAreFinite
<1> HIDE DEF own
<1> QED  BY <1>2, <1>3, <1>4, <1>5 DEF Memory

\* A message owns what it did.
LEMMA OwningKeeps ==
  ASSUME IInv, Memory, NEW o \in Objs, NEW x \in Messages, msg' = [msg EXCEPT ![o] = x],
         x.own = msg[o].own, UNCHANGED memory
  PROVE  Memory'
<1>1. Cardinality(OwnersOf(msg')) =
        Cardinality(OwnersOf(msg)) - Cardinality(msg[o].own) + Cardinality(msg[o].own)
  BY ReplacingCounts DEF IInv
<1>2. Cardinality(msg[o].own) \in Nat /\ Cardinality(OwnersOf(msg)) \in Nat
  BY AllProper, StringsAreFinite, OwnersAreFinite DEF Proper, Messages
<1> QED  BY <1>1, <1>2 DEF Memory, memory

-----------------------------------------------------------------------------

LEMMA MemoryIsNumbers == Memory => held \in Nat /\ live \in Int
BY OwnersAreFinite DEF Memory

LEMMA CountsAreNumbers ==
  ASSUME IInv, NEW o \in Objs, NEW fs
  PROVE  Missing(msg[o], fs) \in Nat /\ Owned(msg[o], fs \cap StringFields) \in Nat
BY StringsAreFinite DEF Missing, Owned

\* What the accessors make of the strings of a message.
LEMMA AccessOwns ==
  ASSUME NEW x, Proper(x), NEW f \in Fields, NEW v
  PROVE  /\ Set(x, f, v).own = x.own \cup ({f} \cap StringFields)
         /\ Mutable(x, f).own = x.own \cup ({f} \cap StringFields)
         /\ Detach(x, f).own = x.own \ {f} /\ ClearField(x, f).own = x.own
BY DEF Set, Mutable, Detach, ClearField, Proper, Messages

LEMMA StringAccessKeepsMemory ==
  ASSUME IInv, Memory, NEW f \in StringFields, StringAccess(f)
  PROVE  Memory'
<1> USE ConstantsAssumption
<1>1. f \in Fields /\ {f} \in SUBSET Fields /\ {f} \in SUBSET StringFields
      /\ {f} \cap StringFields = {f} /\ \A t \in Texts : t \in Nat
  BY FieldKinds
<1>2. held \in Nat /\ live \in Int
  BY MemoryIsNumbers
<1>3. PICK o \in Objs :
        LET x == msg[o] IN
        \/ /\ \/ \E t \in Texts : Becomes(o, Set(x, f, t))
              \/ Becomes(o, Mutable(x, f))
           /\ live' = live + Missing(x, {f}) /\ UNCHANGED held
        \/ /\ Becomes(o, Detach(x, f))
           /\ held' = held + Owned(x, {f}) /\ UNCHANGED live
        \/ /\ \E t \in Texts : Becomes(o, Set(x, f, t))
           /\ \/ live' = (live + 1) - Owned(x, {f}) /\ UNCHANGED held
              \/ held > 0 /\ held' = held - 1 /\ live' = live - Owned(x, {f})
        \/ /\ Becomes(o, Detach(x, f))
           /\ live' = live - Owned(x, {f}) /\ UNCHANGED held
        \/ /\ Becomes(o, ClearField(x, f))
           /\ UNCHANGED memory
  BY DEF StringAccess
<1> DEFINE x == msg[o]
<1>4. Proper(x) /\ x.own \in SUBSET StringFields
  BY AllProper DEF Proper, Messages
<1>5. Missing(x, {f}) \in Nat /\ Owned(x, {f}) \in Nat
  BY <1>1, CountsAreNumbers, Zenon
<1>6. Missing(x, {f}) = 1 - Owned(x, {f})
  <2>1. Cardinality({f} \ x.own) = Cardinality({f}) - Cardinality(x.own \cap {f})
    BY <1>1, <1>4, Counting
  <2>2. Cardinality({f}) = 1 /\ x.own \cap {f} = {f} \cap x.own
    BY FS_Singleton
  <2> QED  BY <1>1, <2>1, <2>2 DEF Missing, Owned
<1>7. ASSUME NEW y \in Messages, Becomes(o, y), y.own = x.own \cup {f},
             held' \in Nat, live' \in Int, live' - held' = (live - held) + Missing(x, {f})
      PROVE  Memory'
  BY <1>1, <1>7, GainingKeeps DEF Becomes
<1>8. ASSUME NEW y \in Messages, Becomes(o, y), y.own = x.own \ {f},
             held' \in Nat, live' \in Int, live' - held' = (live - held) - Owned(x, {f})
      PROVE  Memory'
  BY <1>1, <1>8, LosingKeeps DEF Becomes
<1> HIDE DEF x
<1>9. ASSUME NEW t \in Nat
      PROVE  Set(x, f, t) \in Messages /\ Set(x, f, t).own = x.own \cup {f}
  <2>1. Proper(Set(x, f, t))
    BY <1>1, <1>4, SetIsProper, Zenon
  <2>2. Set(x, f, t).own = x.own \cup {f}
    BY <1>1, <1>4, AccessOwns
  <2> QED  BY <2>1, <2>2 DEF Proper
<1>10. /\ Mutable(x, f) \in Messages /\ Mutable(x, f).own = x.own \cup {f}
       /\ Detach(x, f) \in Messages /\ Detach(x, f).own = x.own \ {f}
       /\ ClearField(x, f) \in Messages /\ ClearField(x, f).own = x.own
  <2>1. Proper(Mutable(x, f)) /\ Proper(Detach(x, f)) /\ Proper(ClearField(x, f))
    BY <1>1, <1>4, 0 \in Nat, SetIsProper, ClearFieldIsProper, Zenon
  <2>2. /\ Mutable(x, f).own = x.own \cup {f} /\ Detach(x, f).own = x.own \ {f}
        /\ ClearField(x, f).own = x.own
    BY <1>1, <1>4, AccessOwns
  <2> QED  BY <2>1, <2>2 DEF Proper
<1>11. CASE /\ \/ \E t \in Texts : Becomes(o, Set(x, f, t))
               \/ Becomes(o, Mutable(x, f))
            /\ live' = live + Missing(x, {f}) /\ UNCHANGED held
  <2>1. held' \in Nat /\ live' \in Int /\ live' - held' = (live - held) + Missing(x, {f})
    BY <1>2, <1>5, <1>11
  <2> QED  BY <1>7, <1>9, <1>10, <1>11, <2>1
<1>12. CASE /\ Becomes(o, Detach(x, f))
            /\ \/ held' = held + Owned(x, {f}) /\ UNCHANGED live
               \/ live' = live - Owned(x, {f}) /\ UNCHANGED held
  <2>1. held' \in Nat /\ live' \in Int /\ live' - held' = (live - held) - Owned(x, {f})
    BY <1>2, <1>5, <1>12
  <2> QED  BY <1>8, <1>10, <1>12, <2>1
<1>13. CASE /\ \E t \in Texts : Becomes(o, Set(x, f, t))
            /\ \/ live' = (live + 1) - Owned(x, {f}) /\ UNCHANGED held
               \/ held > 0 /\ held' = held - 1 /\ live' = live - Owned(x, {f})
  <2>1. held' \in Nat /\ live' \in Int /\ live' - held' = (live - held) + Missing(x, {f})
    BY <1>2, <1>5, <1>6, <1>13
  <2> QED  BY <1>7, <1>9, <1>13, <2>1
<1>14. CASE Becomes(o, ClearField(x, f)) /\ UNCHANGED memory
  BY <1>10, <1>14, OwningKeeps DEF Becomes, x
<1> QED  BY <1>3, <1>11, <1>12, <1>13, <1>14 DEF x

LEMMA EnumAccessKeepsMemory ==
  ASSUME IInv, Memory, NEW f \in EnumFields, EnumAccess(f)
  PROVE  Memory'
<1>1. PICK o \in Objs :
        /\ \/ \E v \in {0, 1} : Becomes(o, Set(msg[o], f, v))
           \/ Becomes(o, ClearField(msg[o], f))
        /\ UNCHANGED memory
  BY DEF EnumAccess
<1> DEFINE x == msg[o]
<1>2. f \in Fields /\ {f} \cap StringFields = {}
  BY FieldKinds
<1>3. Proper(x)
  BY AllProper
<1>4. x.own \cup ({f} \cap StringFields) = x.own
  BY <1>2
<1>5. ASSUME NEW y \in Messages, Becomes(o, y), y.own = x.own
      PROVE  Memory'
  BY <1>1, <1>5, OwningKeeps DEF Becomes
<1> HIDE DEF x
<1>6. ASSUME NEW v \in Nat
      PROVE  Set(x, f, v) \in Messages /\ Set(x, f, v).own = x.own
  <2>1. Proper(Set(x, f, v))
    BY <1>2, <1>3, SetIsProper, Zenon
  <2>2. Set(x, f, v).own = x.own \cup ({f} \cap StringFields)
    BY <1>2, <1>3, AccessOwns
  <2> QED  BY <1>4, <2>1, <2>2 DEF Proper
<1>7. ClearField(x, f) \in Messages /\ ClearField(x, f).own = x.own
  <2>1. Proper(ClearField(x, f))
    BY <1>2, <1>3, ClearFieldIsProper, Zenon
  <2>2. ClearField(x, f).own = x.own
    BY <1>2, <1>3, AccessOwns
  <2> QED  BY <2>1, <2>2 DEF Proper
<1>8. CASE \E v \in {0, 1} : Becomes(o, Set(x, f, v))
  <2>1. PICK v \in {0, 1} : Becomes(o, Set(x, f, v))
    BY <1>8
  <2>2. v \in Nat
    OBVIOUS
  <2> QED  BY <1>5, <1>6, <2>1, <2>2
<1>9. CASE Becomes(o, ClearField(x, f))
  BY <1>5, <1>7, <1>9
<1> QED  BY <1>1, <1>8, <1>9 DEF x

\* MergeFrom and CopyFrom allocate the same strings, since Clear deletes none.
LEMMA MergingKeepsMemory ==
  ASSUME IInv, Memory, NEW o \in Objs, NEW p \in Objs, MergeFrom(o, p) \/ CopyFrom(o, p)
  PROVE  Memory'
<1> DEFINE x == msg[o]
           y == msg[p]
<1>1. Proper(x) /\ Proper(y) /\ Proper(Cleared(x)) /\ Cleared(x).own = x.own
  BY AllProper, ClearedIsFresh
<1>2. PICK z \in {Merged(x, y), Merged(Cleared(x), y)} :
        Becomes(o, z) /\ live' = live + Missing(x, y.has) /\ UNCHANGED held
  BY DEF MergeFrom, CopyFrom, Copied
<1>3. Proper(z)
  BY <1>1, MergedIsProper
<1>4. z.own = x.own \cup (y.has \cap StringFields)
  BY <1>1 DEF Merged, Proper, Messages
<1>5. y.has \in SUBSET Fields
  BY <1>1 DEF Proper, Messages
<1>6. held' \in Nat /\ live' \in Int /\ live' - held' = (live - held) + Missing(x, y.has)
  <2>1. held \in Nat /\ live \in Int /\ Missing(x, y.has) \in Nat
    BY MemoryIsNumbers, CountsAreNumbers, Zenon
  <2> QED  BY <1>2, <2>1
<1> HIDE DEF y
<1> QED  BY <1>2, <1>3, <1>4, <1>5, <1>6, GainingKeeps DEF Becomes, Proper

LEMMA SwapKeepsMemory ==
  ASSUME IInv, Memory, NEW o \in Objs, NEW p \in Objs, Swap(o, p)
  PROVE  Memory'
<1> DEFINE half == [msg EXCEPT ![o] = msg[p]]
<1>1. msg \in [Objs -> Messages] /\ msg[o] \in Messages /\ msg[p] \in Messages
      /\ half \in [Objs -> Messages] /\ half[p] = msg[p]
  BY DEF IInv
<1>2. msg' = [half EXCEPT ![p] = msg[o]] /\ UNCHANGED memory
  BY <1>1 DEF Swap
<1>3. Cardinality(OwnersOf(half)) =
        Cardinality(OwnersOf(msg)) - Cardinality(msg[o].own) + Cardinality(msg[p].own)
  BY <1>1, ReplacingCounts
<1> HIDE DEF half
<1>4. Cardinality(OwnersOf(msg')) =
        Cardinality(OwnersOf(half)) - Cardinality(half[p].own) + Cardinality(msg[o].own)
  BY <1>1, <1>2, ReplacingCounts
<1>5. Cardinality(msg[o].own) \in Nat /\ Cardinality(msg[p].own) \in Nat
      /\ Cardinality(OwnersOf(msg)) \in Nat
  BY <1>1, StringsAreFinite, OwnersAreFinite DEF Messages
<1> QED  BY <1>1, <1>2, <1>3, <1>4, <1>5 DEF Memory, memory

LEMMA DestroyKeepsMemory ==
  ASSUME IInv, Memory, NEW o \in Objs, Destroy(o)
  PROVE  Memory'
<1>1. Fresh \in Messages /\ msg[o].own \in SUBSET StringFields
  BY FreshIsProper, AllProper DEF Proper, Messages
<1>2. Fresh.own = msg[o].own \ StringFields
  BY <1>1 DEF Fresh
<1>3. held' \in Nat /\ live' \in Int /\ live' - held' = (live - held) - Owned(msg[o], StringFields)
  <2>1. held \in Nat /\ live \in Int
    BY MemoryIsNumbers
  <2>2. Owned(msg[o], StringFields) \in Nat
    BY StringsAreFinite DEF Owned
  <2> QED  BY <2>1, <2>2 DEF Destroy
<1> QED  BY <1>1, <1>2, <1>3, LosingKeeps DEF Destroy, Becomes

LEMMA ParseFieldKeepsMemory ==
  ASSUME IInv, Memory, ParseField
  PROVE  Memory'
<1> DEFINE t == wire[pos]
           x == msg[target]
<1>1. /\ t \in Tokens /\ target \in Objs /\ Proper(x)
      /\ msg' = [msg EXCEPT ![target] = Parsed(x, t)]
      /\ live' = live + (IF t.f \in StringFields THEN Missing(x, {t.f}) ELSE 0)
      /\ UNCHANGED held
  BY AllProper DEF ParseField, IInv
<1>2. Parsed(x, t) \in Messages
  BY <1>1, ParsedIsProper DEF Proper
<1>3. held \in Nat /\ live \in Int /\ Missing(x, {t.f}) \in Nat
  BY <1>1, MemoryIsNumbers, CountsAreNumbers, Zenon
<1> HIDE DEF t, x
<1>4. CASE t.f \in StringFields
  <2>1. Parsed(x, t) = Set(x, t.f, t.v) /\ t.f \in Fields
    BY <1>4, FieldKinds DEF Parsed
  <2>2. Parsed(x, t).own = x.own \cup ({t.f} \cap StringFields)
    BY <1>1, <2>1, AccessOwns
  <2>3. held' \in Nat /\ live' \in Int /\ live' - held' = (live - held) + Missing(x, {t.f})
    BY <1>1, <1>3, <1>4
  <2>4. {t.f} \in SUBSET Fields
    BY <2>1
  <2> QED  BY <1>1, <1>2, <2>2, <2>3, <2>4, GainingKeeps DEF x
<1>5. CASE t.f \notin StringFields
  <2>1. Parsed(x, t).own = x.own
    <3>1. CASE t.whole /\ Known(t)
      <4>1. Parsed(x, t) = Set(x, t.f, t.v) /\ t.f \in Fields /\ {t.f} \cap StringFields = {}
        BY <1>5, <3>1, FieldKinds DEF Parsed, Known
      <4>2. Set(x, t.f, t.v).own = x.own \cup ({t.f} \cap StringFields)
        BY <1>1, <4>1, AccessOwns
      <4>3. x.own \cup ({t.f} \cap StringFields) = x.own
        BY <4>1
      <4> QED  BY <4>1, <4>2, <4>3, Zenon
    <3>2. CASE ~(t.whole /\ Known(t))
      BY <1>1, <1>5, <3>2 DEF Parsed, Proper, Messages
    <3> QED  BY <3>1, <3>2
  <2>2. UNCHANGED memory
    BY <1>1, <1>3, <1>5 DEF memory
  <2> QED  BY <1>1, <1>2, <2>1, <2>2, OwningKeeps DEF x
<1> QED  BY <1>4, <1>5

LEMMA NextMemory == IInv /\ Memory /\ [Next]_vars => Memory'
<1> SUFFICES ASSUME IInv, Memory, [Next]_vars PROVE Memory'
  OBVIOUS
<1>1. CASE ProtocolVersion \/ PayloadType
  BY <1>1, EnumAccessKeepsMemory DEF ProtocolVersion, PayloadType, EnumFields
<1>2. CASE SourceId \/ DestinationId \/ Namespace \/ PayloadUtf8 \/ PayloadBinary
  <2>1. {"source_id", "destination_id", "namespace", "payload_utf8", "payload_binary"}
          \subseteq StringFields
    BY DEF StringFields, EnumFields, Fields, FieldOrder
  <2> QED BY <1>2, <2>1, StringAccessKeepsMemory
          DEF SourceId, DestinationId, Namespace, PayloadUtf8, PayloadBinary
<1>3. CASE DeleteReleased
  <2>1. Cardinality(OwnersOf(msg)) \in Nat
    BY OwnersAreFinite
  <2> QED  BY <1>3, <2>1 DEF DeleteReleased, Memory
<1>4. ASSUME NEW o \in Objs, Clear(o) \/ ParseFromCodedStream(o) PROVE Memory'
  <2>1. Cleared(msg[o]) \in Messages /\ Cleared(msg[o]).own = msg[o].own
    BY AllProper, ClearedIsFresh DEF Proper
  <2>2. msg' = [msg EXCEPT ![o] = Cleared(msg[o])] /\ UNCHANGED memory
    BY <1>4 DEF Clear, Becomes, ParseFromCodedStream
  <2> QED  BY <2>1, <2>2, OwningKeeps
<1>5. ASSUME NEW o \in Objs, NEW p \in Objs, MergeFrom(o, p) \/ CopyFrom(o, p) \/ Swap(o, p)
      PROVE  Memory'
  BY <1>5, MergingKeepsMemory, SwapKeepsMemory
<1>6. ASSUME NEW o \in Objs, Destroy(o) PROVE Memory'
  BY <1>6, DestroyKeepsMemory
<1>7. CASE ParseField
  BY <1>7, ParseFieldKeepsMemory
<1>8. CASE UNCHANGED <<msg, memory>>
  BY <1>8 DEF Memory, memory
<1>9. ASSUME NEW o \in Objs, Serialize(o) PROVE Memory'
  BY <1>8, <1>9 DEF Serialize, Write
<1>10. ASSUME NEW p \in Packets, Save(p) PROVE Memory'
  BY <1>8, <1>10 DEF Save, Write
<1>11. CASE (\E t \in Added, i \in 0..Len(wire) : PeerAdds(t, i))
            \/ \E i \in DOMAIN wire : PeerOmits(i) \/ PeerReorders(i)
  BY <1>8, <1>11 DEF PeerAdds, PeerOmits, PeerReorders, Sends
<1>12. CASE EndParse \/ UNCHANGED vars
  BY <1>8, <1>12 DEF EndParse, vars
<1> QED
  BY <1>1, <1>2, <1>3, <1>4, <1>5, <1>6, <1>7, <1>9, <1>10, <1>11, <1>12 DEF Next

\* Every string has one owner, for any messages and any calls: none is lost, and none is
\* deleted twice (google_cast_message.h:816-838 and SharedDtor).
THEOREM EveryStringHasAnOwner == Spec => []StringsAreOwned
<1>1. Init => Memory
  <2> SUFFICES ASSUME Init PROVE Memory
    OBVIOUS
  <2>1. OwnersOf(msg) = {}
    BY DEF Init, Fresh, OwnersOf
  <2> QED  BY <2>1, FS_EmptySet DEF Init, Memory
<1>2. Memory => StringsAreOwned
  BY DEF Memory, StringsAreOwned, Owners, OwnersOf
<1> QED  BY InitIInv, NextIInv, NextMemory, <1>1, <1>2, PTL DEF Spec

-----------------------------------------------------------------------------
(* What is read *)

\* Of the first n tokens: those that say something of a field, and those that are
\* unknown.
Seen(f, n) == {i \in 1..n : wire[i].f = f /\ Known(wire[i])}
UnknownTo(n) == {i \in 1..n : ~Known(wire[i])}

\* The message the parser fills is what the first n tokens say.
Filled(n) ==
  LET x == msg[target] IN
  /\ \A f \in Fields \ x.has : Seen(f, n) = {}
  /\ \A f \in x.has :
       \E i \in Seen(f, n) : x.val[f] = wire[i].v /\ \A j \in Seen(f, n) : j <= i
  /\ TokensAt(x.unknown, UnknownTo(n))

Progress == pos \in 1..(Len(wire) + 1) /\ Sound(pos - 1) /\ Filled(pos - 1)
Ended == pos \in DOMAIN wire => wire[pos].f = "end"

Parsing ==
  /\ phase \in {"parsing", "parsed"} => Progress
  /\ phase = "parsed" => Ended /\ Required \subseteq msg[target].has
  /\ phase = "failed" => Broken \/ (Progress /\ Ended /\ ~(Required \subseteq msg[target].has))

\* Places are counted in the order of the packet: a later one does not change the
\* number of an earlier one.
LEMMA PlacesAreCounted ==
  ASSUME NEW n \in Nat, NEW at \in SUBSET (1..n)
  PROVE  /\ Cardinality(at) \in Nat
         /\ Cardinality(at \cup {n + 1}) = Cardinality(at) + 1
         /\ {j \in at \cup {n + 1} : j <= n + 1} = at \cup {n + 1}
         /\ \A i \in at : /\ Cardinality({j \in at : j <= i}) \in 1..Cardinality(at)
                          /\ {j \in at \cup {n + 1} : j <= i} = {j \in at : j <= i}
<1>1. IsFiniteSet(at)
  <2>1. IsFiniteSet(1..n)
    BY FS_Interval
  <2> QED  BY <2>1, FS_Subset
<1>2. Cardinality(at) \in Nat
  BY <1>1, FS_CardinalityType
<1>3. Cardinality(at \cup {n + 1}) = Cardinality(at) + 1
  <2>1. n + 1 \notin at
    OBVIOUS
  <2> QED  BY <1>1, <2>1, FS_AddElement
<1>4. {j \in at \cup {n + 1} : j <= n + 1} = at \cup {n + 1}
  <2> DEFINE all == at \cup {n + 1}
  <2>1. \A j \in all : j <= n + 1
    OBVIOUS
  <2> HIDE DEF all
  <2>2. {j \in all : j <= n + 1} = all
    BY <2>1
  <2> QED  BY <2>2 DEF all
<1>5. ASSUME NEW i \in at
      PROVE  /\ Cardinality({j \in at : j <= i}) \in 1..Cardinality(at)
             /\ {j \in at \cup {n + 1} : j <= i} = {j \in at : j <= i}
  <2> DEFINE upTo == {j \in at : j <= i}
  <2>1. upTo \subseteq at /\ i \in upTo
    OBVIOUS
  <2>2. {j \in at \cup {n + 1} : j <= i} = upTo
    OBVIOUS
  <2> HIDE DEF upTo
  <2>3. IsFiniteSet(upTo) /\ Cardinality(upTo) <= Cardinality(at)
    BY <1>1, <2>1, FS_Subset
  <2>4. Cardinality(upTo) \in Nat /\ Cardinality(upTo) # 0
    BY <2>1, <2>3, FS_CardinalityType, FS_EmptySet
  <2>5. Cardinality(upTo) \in 1..Cardinality(at)
    BY <1>2, <2>3, <2>4
  <2> QED  BY <2>2, <2>5 DEF upTo
<1> QED  BY <1>2, <1>3, <1>4, <1>5

\* An unknown token is kept behind those that were.
LEMMA KeepingInOrder ==
  ASSUME wire \in Seq(Tokens), NEW n \in Nat, n + 1 \in DOMAIN wire,
         NEW at \in SUBSET (1..n), NEW tokens \in Seq(Tokens), TokensAt(tokens, at)
  PROVE  TokensAt(Append(tokens, wire[n + 1]), at \cup {n + 1})
<1> DEFINE t == wire[n + 1]
           longer == Append(tokens, t)
           upTo(s, i) == {j \in s : j <= i}
<1>1. /\ Len(tokens) = Cardinality(at) /\ Cardinality(at) \in Nat
      /\ \A i \in at : tokens[Cardinality(upTo(at, i))] = wire[i]
  BY PlacesAreCounted DEF TokensAt
<1>2. /\ Cardinality(at \cup {n + 1}) = Cardinality(at) + 1
      /\ upTo(at \cup {n + 1}, n + 1) = at \cup {n + 1}
      /\ \A i \in at : /\ Cardinality(upTo(at, i)) \in 1..Cardinality(at)
                       /\ upTo(at \cup {n + 1}, i) = upTo(at, i)
  BY PlacesAreCounted
<1>3. /\ Len(longer) = Cardinality(at) + 1 /\ longer[Cardinality(at) + 1] = t
      /\ \A k \in 1..Cardinality(at) : longer[k] = tokens[k]
  BY <1>1
<1> HIDE DEF longer, upTo
<1>4. ASSUME NEW i \in at \cup {n + 1}
      PROVE  longer[Cardinality(upTo(at \cup {n + 1}, i))] = wire[i]
  <2>1. CASE i = n + 1
    BY <2>1, <1>2, <1>3
  <2>2. CASE i \in at
    BY <2>2, <1>1, <1>2, <1>3
  <2> QED  BY <2>1, <2>2
<1>5. Len(longer) = Cardinality(at \cup {n + 1})
  BY <1>2, <1>3
<1> QED  BY <1>4, <1>5 DEF TokensAt, longer, upTo

\* A token is read: what the message says is what one token more says.
LEMMA ReadingFills ==
  ASSUME IInv, NEW n \in Nat, n + 1 \in DOMAIN wire, Filled(n), wire[n + 1].whole,
         UNCHANGED <<wire, target>>,
         msg' = [msg EXCEPT ![target] = Parsed(msg[target], wire[n + 1])]
  PROVE  Filled(n + 1)'
<1> DEFINE x == msg[target]
           t == wire[n + 1]
           y == Parsed(x, t)
<1>1. /\ Proper(x) /\ t \in Tokens /\ msg'[target] = y /\ wire' = wire /\ target' = target
  BY AllProper DEF IInv
<1>2. /\ \A f \in Fields : Seen(f, n) \subseteq 1..n /\ \A i \in Seen(f, n) : i < n + 1
      /\ UnknownTo(n) \subseteq 1..n
      /\ 1..(n + 1) = (1..n) \cup {n + 1}
  BY DEF Seen, UnknownTo
<1>3. ASSUME NEW f \in Fields
      PROVE  Seen(f, n + 1) = IF t.f = f /\ Known(t) THEN Seen(f, n) \cup {n + 1} ELSE Seen(f, n)
  BY <1>2 DEF Seen
<1>4. UnknownTo(n + 1) = IF Known(t) THEN UnknownTo(n) ELSE UnknownTo(n) \cup {n + 1}
  BY <1>2 DEF UnknownTo
<1>5. /\ \A f \in Fields \ x.has : Seen(f, n) = {}
      /\ \A f \in x.has :
           \E i \in Seen(f, n) : x.val[f] = wire[i].v /\ \A j \in Seen(f, n) : j <= i
      /\ TokensAt(x.unknown, UnknownTo(n))
  BY DEF Filled
<1>6. x.has \subseteq Fields /\ x.val \in [Fields -> Nat] /\ x.unknown \in Seq(Tokens)
  BY <1>1 DEF Proper, Messages
<1>7. SUFFICES
        /\ \A f \in Fields \ y.has : Seen(f, n + 1) = {}
        /\ \A f \in y.has :
             \E i \in Seen(f, n + 1) : y.val[f] = wire[i].v /\ \A j \in Seen(f, n + 1) : j <= i
        /\ TokensAt(y.unknown, UnknownTo(n + 1))
  BY <1>1 DEF Filled, Seen, UnknownTo, TokensAt
<1> HIDE DEF x, y
<1>8. CASE Known(t)
  <2>1. y = Set(x, t.f, t.v) /\ t.f \in Fields /\ t.v \in Nat
    BY <1>1, <1>8, FieldKinds DEF Parsed, Known, Tokens, y
  <2>2. /\ y.has = x.has \cup {t.f} /\ y.val = [x.val EXCEPT ![t.f] = t.v]
        /\ y.unknown = x.unknown
    BY <1>1, <2>1 DEF Set, Mutable, Proper, Messages
  <2>3. \A f \in Fields \ y.has : Seen(f, n + 1) = {}
    BY <1>3, <1>5, <2>2
  <2>4. ASSUME NEW f \in y.has
        PROVE  \E i \in Seen(f, n + 1) : y.val[f] = wire[i].v /\ \A j \in Seen(f, n + 1) : j <= i
    <3>1. f \in Fields
      BY <1>6, <2>1, <2>2
    <3>2. CASE f = t.f
      <4>1. Seen(f, n + 1) = Seen(f, n) \cup {n + 1}
        BY <1>3, <1>8, <3>1, <3>2
      <4>2. y.val[f] = t.v
        BY <1>6, <2>2, <3>1, <3>2
      <4>3. \A j \in Seen(f, n + 1) : j <= n + 1
        BY <1>2, <3>1, <4>1
      <4> QED  BY <4>1, <4>2, <4>3
    <3>3. CASE f # t.f
      <4>1. Seen(f, n + 1) = Seen(f, n) /\ f \in x.has
        BY <1>3, <2>2, <3>1, <3>3
      <4>2. y.val[f] = x.val[f]
        BY <1>6, <2>2, <3>1, <3>3
      <4> QED  BY <1>5, <4>1, <4>2
    <3> QED  BY <3>2, <3>3
  <2>5. TokensAt(y.unknown, UnknownTo(n + 1))
    BY <1>4, <1>5, <1>8, <2>2
  <2> QED  BY <2>3, <2>4, <2>5
<1>9. CASE ~Known(t)
  <2>1. y = [x EXCEPT !.unknown = Append(@, t)]
    BY <1>9, FieldKinds DEF Parsed, Known, y
  <2>2. y.has = x.has /\ y.val = x.val /\ y.unknown = Append(x.unknown, t)
    BY <1>1, <2>1 DEF Proper, Messages
  <2>3. \A f \in Fields : Seen(f, n + 1) = Seen(f, n)
    BY <1>3, <1>9
  <2>4. TokensAt(y.unknown, UnknownTo(n + 1))
    <3>1. UnknownTo(n + 1) = UnknownTo(n) \cup {n + 1}
      BY <1>4, <1>9
    <3>2. wire \in Seq(Tokens)
      BY DEF IInv
    <3>3. TokensAt(Append(x.unknown, wire[n + 1]), UnknownTo(n) \cup {n + 1})
      BY <1>2, <1>5, <1>6, <3>2, KeepingInOrder
    <3> QED  BY <2>2, <3>1, <3>3
  <2>5. \A f \in y.has :
          \E i \in Seen(f, n + 1) : y.val[f] = wire[i].v /\ \A j \in Seen(f, n + 1) : j <= i
    BY <1>5, <1>6, <2>2, <2>3
  <2>6. \A f \in Fields \ y.has : Seen(f, n + 1) = {}
    BY <1>5, <2>2, <2>3
  <2> QED  BY <2>4, <2>5, <2>6
<1> QED  BY <1>8, <1>9

LEMMA ParsingBegins ==
  ASSUME IInv, NEW o \in Objs, ParseFromCodedStream(o)
  PROVE  Parsing'
<1>1. /\ target' = o /\ pos' = 1 /\ phase' = "parsing" /\ wire' = wire
      /\ msg' = [msg EXCEPT ![o] = Cleared(msg[o])] /\ Len(wire) \in Nat
  BY DEF ParseFromCodedStream, written, IInv
<1>2. Cleared(msg[o]).has = {} /\ Cleared(msg[o]).unknown = <<>> /\ msg'[o] = Cleared(msg[o])
  BY <1>1, AllProper, ClearedIsFresh DEF IInv
<1>3. 1..0 = {} /\ pos' - 1 = 0
  BY <1>1
<1>4. \A f \in Fields : Seen(f, 0)' = {}
  BY <1>3 DEF Seen
<1>5. TokensAt(<<>>, {})'
  BY FS_EmptySet DEF TokensAt
<1>6. UnknownTo(0)' = {}
  BY <1>3 DEF UnknownTo
<1>7. Filled(0)'
  BY <1>1, <1>2, <1>4, <1>5, <1>6 DEF Filled
<1>8. Sound(0)'
  BY <1>3 DEF Sound
<1> QED  BY <1>1, <1>3, <1>7, <1>8 DEF Parsing, Progress

LEMMA ParsingGoesOn ==
  ASSUME IInv, Parsing, ParseField
  PROVE  Parsing'
<1>1. /\ phase = "parsing" /\ pos \in DOMAIN wire /\ wire[pos].f # "end"
      /\ msg' = [msg EXCEPT ![target] = Parsed(msg[target], wire[pos])]
      /\ phase' = (IF wire[pos].whole THEN "parsing" ELSE "failed")
      /\ pos' = pos + 1 /\ wire' = wire /\ target' = target
  BY DEF ParseField, written
<1>2. Progress /\ wire \in Seq(Tokens)
  BY <1>1 DEF Parsing, IInv
<1>3. DOMAIN wire = 1..Len(wire) /\ Len(wire) \in Nat /\ wire[pos] \in Tokens
  BY <1>1, <1>2
<1>4. CASE wire[pos].whole
  <2>0. PICK n \in Nat : n = pos - 1
    BY <1>1, <1>3
  <2>1. n + 1 = pos /\ pos' - 1 = n + 1 /\ pos' \in 1..(Len(wire) + 1)
    BY <1>1, <1>3, <2>0
  <2>2. Filled(n) /\ Sound(n)
    BY <1>2, <2>0 DEF Progress
  <2>3. Filled(n + 1)'
    BY <1>1, <1>4, <2>1, <2>2, ReadingFills
  <2>4. Sound(n + 1)'
    <3>1. \A j \in 1..(n + 1) : j \in 1..n \/ j = n + 1
      BY <2>1
    <3> QED  BY <1>1, <1>4, <2>1, <2>2, <3>1 DEF Sound
  <2>5. Progress'
    BY <1>1, <2>1, <2>3, <2>4 DEF Progress
  <2> QED  BY <1>1, <1>4, <2>5 DEF Parsing
<1>5. CASE ~wire[pos].whole
  <2>1. Broken
    BY <1>1, <1>2, <1>5 DEF Broken, Progress
  <2>2. Broken'
    BY <1>1, <2>1 DEF Broken, Sound
  <2> QED  BY <1>1, <1>5, <2>2 DEF Parsing
<1> QED  BY <1>4, <1>5

\* Whatever leaves the parser, its message and the packet alone.
LEMMA ParsingStays ==
  ASSUME Parsing, UNCHANGED <<msg, wire, target, pos>>,
         \/ UNCHANGED phase
         \/ EndParse
  PROVE  Parsing'
<1>1. /\ Progress' = Progress /\ Ended' = Ended /\ Broken' = Broken
      /\ (Required \subseteq msg[target].has)' = (Required \subseteq msg[target].has)
  BY DEF Progress, Filled, Seen, UnknownTo, TokensAt, Sound, Ended, Broken
<1>2. CASE UNCHANGED phase
  BY <1>1, <1>2 DEF Parsing
<1>3. CASE EndParse
  <2>1. Progress /\ Ended
    BY <1>3 DEF EndParse, Parsing, Ended
  <2>2. phase' = IF Required \subseteq msg[target].has THEN "parsed" ELSE "failed"
    BY <1>3 DEF EndParse, IsInitialized
  <2> QED  BY <1>1, <2>1, <2>2 DEF Parsing
<1> QED  BY <1>2, <1>3

\* What is called instead of the parser ends what was known of its message.
LEMMA ParsingIsOver ==
  ASSUME phase' \in {"idle", "refused"}
  PROVE  Parsing'
BY DEF Parsing

LEMMA NextParsing == IInv /\ Parsing /\ [Next]_vars => Parsing'
<1> SUFFICES ASSUME IInv, Parsing, [Next]_vars PROVE Parsing'
  OBVIOUS
<1>1. ASSUME NEW f, EnumAccess(f) \/ StringAccess(f)
      PROVE  phase' = "idle"
  BY <1>1 DEF EnumAccess, StringAccess, Becomes, Call
<1>2. CASE \/ ProtocolVersion \/ SourceId \/ DestinationId \/ Namespace
           \/ PayloadType \/ PayloadUtf8 \/ PayloadBinary
  BY <1>1, <1>2, ParsingIsOver
     DEF ProtocolVersion, SourceId, DestinationId, Namespace, PayloadType, PayloadUtf8, PayloadBinary
<1>3. CASE DeleteReleased
  BY <1>3, ParsingStays DEF DeleteReleased, written
<1>4. ASSUME NEW o \in Objs, Clear(o) \/ Destroy(o) \/ Serialize(o)
      PROVE  Parsing'
  BY <1>4, ParsingIsOver DEF Clear, Destroy, Serialize, Becomes, Call
<1>5. ASSUME NEW o \in Objs, ParseFromCodedStream(o)
      PROVE  Parsing'
  BY <1>5, ParsingBegins
<1>6. ASSUME NEW o \in Objs, NEW p \in Objs, MergeFrom(o, p) \/ CopyFrom(o, p) \/ Swap(o, p)
      PROVE  Parsing'
  BY <1>6, ParsingIsOver DEF MergeFrom, CopyFrom, Swap, Becomes, Call
<1>7. ASSUME NEW p \in Packets, Save(p)
      PROVE  Parsing'
  BY <1>7, ParsingIsOver DEF Save
<1>8. CASE (\E t \in Added, i \in 0..Len(wire) : PeerAdds(t, i))
           \/ \E i \in DOMAIN wire : PeerOmits(i) \/ PeerReorders(i)
  BY <1>8, ParsingIsOver DEF PeerAdds, PeerOmits, PeerReorders, Sends
<1>9. CASE ParseField
  BY <1>9, ParsingGoesOn
<1>10. CASE EndParse
  BY <1>10, ParsingStays DEF EndParse, written
<1>11. CASE UNCHANGED vars
  BY <1>11, ParsingStays DEF vars, written
<1> QED  BY <1>2, <1>3, <1>4, <1>5, <1>6, <1>7, <1>8, <1>9, <1>10, <1>11 DEF Next

\* What the parser has read is all there is to be read.
LEMMA AllIsRead ==
  ASSUME IInv, Progress, Ended
  PROVE  /\ ~Broken /\ UnknownTo(pos - 1) = Unknowns
         /\ \A f : Seen(f, pos - 1) = Occurrences(f)
<1> DEFINE n == pos - 1
<1>1. /\ wire \in Seq(Tokens) /\ n \in Nat /\ n <= Len(wire) /\ Sound(n)
      /\ n < Len(wire) => wire[n + 1].f = "end"
  BY DEF IInv, Progress, Ended
<1>2. DOMAIN wire = 1..Len(wire) /\ Len(wire) \in Nat
  BY <1>1
<1> HIDE DEF n
<1>3. ASSUME NEW i \in DOMAIN wire
      PROVE  Sound(i) <=> i \in 1..n
  <2>1. CASE i \in 1..n
    BY <1>1, <1>2, <2>1 DEF Sound
  <2>2. CASE i \notin 1..n
    <3>1. n + 1 \in 1..i /\ n < Len(wire)
      BY <1>1, <1>2, <2>2
    <3> QED  BY <1>1, <2>2, <3>1 DEF Sound
  <2> QED  BY <2>1, <2>2
<1>4. 1..n \subseteq DOMAIN wire
  BY <1>1, <1>2
<1>5. ~Broken
  <2> SUFFICES ASSUME NEW i \in DOMAIN wire, Sound(i - 1), ~wire[i].whole, wire[i].f # "end"
               PROVE  FALSE
    BY DEF Broken
  <2>1. i \notin 1..n
    BY <1>1 DEF Sound
  <2>2. i - 1 >= n /\ i \in Nat
    BY <1>1, <1>2, <2>1
  <2>3. CASE i - 1 = n
    BY <1>1, <1>2, <2>3
  <2>4. CASE i - 1 # n
    <3>1. n + 1 \in 1..(i - 1) /\ n < Len(wire)
      BY <1>1, <1>2, <2>2, <2>4
    <3> QED  BY <1>1, <3>1 DEF Sound
  <2> QED  BY <2>3, <2>4
<1>6. UnknownTo(n) = Unknowns
  BY <1>3, <1>4 DEF UnknownTo, Unknowns
<1>7. \A f : Seen(f, n) = Occurrences(f)
  BY <1>3, <1>4 DEF Seen, Occurrences
<1> QED  BY <1>5, <1>6, <1>7 DEF n

\* The place that no other is behind is the last one.
LEMMA LatestIsMax ==
  ASSUME NEW S \in SUBSET Nat, NEW i \in S, \A j \in S : j <= i
  PROVE  Max(S) = i
<1>1. \A j \in S : i >= j
  OBVIOUS
<1>2. PICK m \in S : m = Max(S) /\ \A j \in S : m >= j
  BY <1>1, Zenon DEF Max
<1> QED  BY <1>2

LEMMA LoadingFollows == IInv /\ Parsing => LoadIsLastValid
<1> SUFFICES ASSUME IInv, Parsing PROVE LoadIsLastValid
  OBVIOUS
<1> DEFINE x == msg[target]
<1>1. ASSUME Progress, Ended, NEW f \in Fields
      PROVE  /\ f \in x.has <=> Occurrences(f) # {}
             /\ Occurrences(f) # {} => x.val[f] = wire[Max(Occurrences(f))].v
  <2> DEFINE at == Occurrences(f)
  <2>1. /\ f \notin x.has => at = {}
        /\ f \in x.has => \E i \in at : x.val[f] = wire[i].v /\ \A j \in at : j <= i
    <3>1. Seen(f, pos - 1) = at
      BY <1>1, AllIsRead
    <3> QED  BY <1>1, <3>1 DEF Progress, Filled
  <2>2. at \subseteq Nat
    BY DEF Occurrences, IInv
  <2> HIDE DEF at
  <2>3. ASSUME f \in x.has
        PROVE  x.val[f] = wire[Max(at)].v
    <3>1. PICK i \in at : x.val[f] = wire[i].v /\ \A j \in at : j <= i
      BY <2>1, <2>3
    <3>2. Max(at) = i
      BY <2>2, <3>1, LatestIsMax
    <3> QED  BY <3>1, <3>2
  <2> QED  BY <2>1, <2>3 DEF at
<1>2. ASSUME phase = "parsed"
      PROVE  /\ ~Broken /\ TokensAt(x.unknown, Unknowns)
             /\ \A f \in Fields : /\ f \in x.has <=> Occurrences(f) # {}
                                  /\ Occurrences(f) # {} => x.val[f] = wire[Max(Occurrences(f))].v
  <2>1. Progress /\ Ended
    BY <1>2 DEF Parsing
  <2>2. TokensAt(x.unknown, UnknownTo(pos - 1))
    BY <2>1 DEF Progress, Filled
  <2>3. ~Broken /\ UnknownTo(pos - 1) = Unknowns
    BY <2>1, AllIsRead
  <2> QED  BY <1>1, <2>1, <2>2, <2>3
<1>3. ASSUME phase = "failed", ~Broken
      PROVE  \E f \in Required : Occurrences(f) = {}
  <2>1. Progress /\ Ended /\ ~(Required \subseteq x.has)
    BY <1>3 DEF Parsing
  <2>2. PICK f \in Required : f \notin x.has
    BY <2>1
  <2>3. f \in Fields
    BY <2>2 DEF Required, Fields
  <2> QED  BY <1>1, <2>1, <2>2, <2>3
<1> QED  BY <1>2, <1>3 DEF LoadIsLastValid

\* A packet is parsed as far as it is sound, for any packet and whatever the message
\* was used for before: each field is the last of its valid values, what is unknown is
\* kept in its order, and what fails is broken or lacks a required field
\* (MergePartialFromCodedStream).
THEOREM LoadingTakesTheLastValid == Spec => []LoadIsLastValid
<1>1. Init => Parsing
  BY DEF Init, Parsing
<1> QED  BY InitIInv, NextIInv, NextParsing, LoadingFollows, <1>1, PTL DEF Spec

-----------------------------------------------------------------------------
(* What the library saves *)

\* These tokens say what was saved of p, whatever unknown ones are between them: all
\* are sound, those that are known have the values of p, and none is missing.
Says(tokens, p) ==
  LET known == {i \in 1..Len(tokens) : Known(tokens[i])} IN
  /\ \A i \in 1..Len(tokens) : tokens[i].whole /\ tokens[i].f # "end"
  /\ \A i \in known : tokens[i].f \in Saved(p).has /\ tokens[i].v = Saved(p).val[tokens[i].f]
  /\ \A f \in Saved(p).has : \E i \in known : tokens[i].f = f

FromSaved == origin # NoPacket => origin \in PacketType /\ Says(wire, origin)

\* A token is among others.
Has(tokens, t) == \E i \in 1..Len(tokens) : tokens[i] = t

\* Where the tokens are when two parts are put together.
LEMMA ConcatPlaces ==
  ASSUME NEW s \in Seq(Tokens), NEW u \in Seq(Tokens)
  PROVE  /\ s \o u \in Seq(Tokens) /\ Len(s) \in Nat /\ Len(u) \in Nat
         /\ Len(s \o u) = Len(s) + Len(u)
         /\ \A i \in 1..Len(s) : i \in 1..Len(s \o u) /\ (s \o u)[i] = s[i]
         /\ \A i \in 1..Len(u) : Len(s) + i \in 1..Len(s \o u) /\ (s \o u)[Len(s) + i] = u[i]
OBVIOUS

LEMMA HasEither ==
  ASSUME NEW s \in Seq(Tokens), NEW u \in Seq(Tokens), NEW t
  PROVE  s \o u \in Seq(Tokens) /\ (Has(s \o u, t) <=> Has(s, t) \/ Has(u, t))
<1>1. /\ s \o u \in Seq(Tokens) /\ Len(s) \in Nat /\ Len(u) \in Nat
      /\ Len(s \o u) = Len(s) + Len(u)
      /\ \A i \in 1..Len(s) : i \in 1..Len(s \o u) /\ (s \o u)[i] = s[i]
      /\ \A i \in 1..Len(u) : Len(s) + i \in 1..Len(s \o u) /\ (s \o u)[Len(s) + i] = u[i]
  BY ConcatPlaces
<1>2. ASSUME Has(s \o u, t)
      PROVE  Has(s, t) \/ Has(u, t)
  <2>1. PICK i \in 1..Len(s \o u) : (s \o u)[i] = t
    BY <1>2 DEF Has
  <2>2. CASE i \in 1..Len(s)
    BY <1>1, <2>1, <2>2 DEF Has
  <2>3. CASE i \notin 1..Len(s)
    <3>1. i - Len(s) \in 1..Len(u) /\ Len(s) + (i - Len(s)) = i
      BY <1>1, <2>3
    <3>2. u[i - Len(s)] = t
      BY <1>1, <2>1, <3>1
    <3> QED  BY <3>1, <3>2 DEF Has
  <2> QED  BY <2>2, <2>3
<1>3. Has(s, t) \/ Has(u, t) => Has(s \o u, t)
  BY <1>1 DEF Has
<1> QED  BY <1>1, <1>2, <1>3

\* What is written of a message are the fields that are there.
LEMMA FieldsAreWritten ==
  ASSUME NEW x, Proper(x), x.unknown = <<>>, NEW t
  PROVE  Has(Written(x), t) <=> \E f \in x.has : t = Token(f, x.val[f])
<1> DEFINE part(i) == Part(x, i)
<1>1. \A f \in Fields : Token(f, x.val[f]) \in Tokens
  BY DEF Token, Tokens, Proper, Messages
<1>2. \A i \in 1..7 : FieldOrder[i] \in Fields
  BY DEF Fields
<1>3. ASSUME NEW i \in 1..7
      PROVE  /\ part(i) \in Seq(Tokens)
             /\ Has(part(i), t) <=> FieldOrder[i] \in x.has
                                    /\ t = Token(FieldOrder[i], x.val[FieldOrder[i]])
  <2>1. CASE FieldOrder[i] \in x.has
    BY <1>1, <1>2, <2>1 DEF Part, Has
  <2>2. CASE FieldOrder[i] \notin x.has
    BY <2>2 DEF Part, Has
  <2> QED  BY <2>1, <2>2
<1>p. /\ part(1) \in Seq(Tokens) /\ part(2) \in Seq(Tokens) /\ part(3) \in Seq(Tokens)
      /\ part(4) \in Seq(Tokens) /\ part(5) \in Seq(Tokens) /\ part(6) \in Seq(Tokens)
      /\ part(7) \in Seq(Tokens)
  BY <1>3
<1>4. x.unknown \in Seq(Tokens) /\ ~Has(x.unknown, t)
  BY DEF Has
<1> DEFINE s2 == part(1) \o part(2)
           s3 == s2 \o part(3)
           s4 == s3 \o part(4)
           s5 == s4 \o part(5)
           s6 == s5 \o part(6)
           s7 == s6 \o part(7)
<1>5. Written(x) = s7 \o x.unknown
  BY DEF Written
<1> HIDE DEF part, s2, s3, s4, s5, s6, s7
<1>6. s2 \in Seq(Tokens) /\ (Has(s2, t) <=> Has(part(1), t) \/ Has(part(2), t))
  BY <1>p, HasEither, Zenon DEF s2
<1>7. s3 \in Seq(Tokens) /\ (Has(s3, t) <=> Has(s2, t) \/ Has(part(3), t))
  BY <1>p, <1>6, HasEither, Zenon DEF s3
<1>8. s4 \in Seq(Tokens) /\ (Has(s4, t) <=> Has(s3, t) \/ Has(part(4), t))
  BY <1>p, <1>7, HasEither, Zenon DEF s4
<1>9. s5 \in Seq(Tokens) /\ (Has(s5, t) <=> Has(s4, t) \/ Has(part(5), t))
  BY <1>p, <1>8, HasEither, Zenon DEF s5
<1>10. s6 \in Seq(Tokens) /\ (Has(s6, t) <=> Has(s5, t) \/ Has(part(6), t))
  BY <1>p, <1>9, HasEither, Zenon DEF s6
<1>11. s7 \in Seq(Tokens) /\ (Has(s7, t) <=> Has(s6, t) \/ Has(part(7), t))
  BY <1>p, <1>10, HasEither, Zenon DEF s7
<1>12. Has(Written(x), t) <=> Has(s7, t)
  BY <1>4, <1>5, <1>11, HasEither
<1>13. Has(Written(x), t) <=> \E i \in 1..7 : Has(part(i), t)
  <2>1. \A i \in 1..7 : i = 1 \/ i = 2 \/ i = 3 \/ i = 4 \/ i = 5 \/ i = 6 \/ i = 7
    OBVIOUS
  <2>2. 1 \in 1..7 /\ 2 \in 1..7 /\ 3 \in 1..7 /\ 4 \in 1..7 /\ 5 \in 1..7 /\ 6 \in 1..7 /\ 7 \in 1..7
    OBVIOUS
  <2>3. Has(s7, t) <=> \/ Has(part(1), t) \/ Has(part(2), t) \/ Has(part(3), t) \/ Has(part(4), t)
                       \/ Has(part(5), t) \/ Has(part(6), t) \/ Has(part(7), t)
    BY <1>6, <1>7, <1>8, <1>9, <1>10, <1>11, Zenon
  <2> QED  BY <1>12, <2>1, <2>2, <2>3, Zenon
<1>14. \A f \in x.has : \E i \in 1..7 : FieldOrder[i] = f
  BY DEF Fields, Proper, Messages
<1> QED  BY <1>3, <1>13, <1>14

\* The values of what the struct's Serialize fills.
LEMMA SavedHolds ==
  ASSUME NEW p \in PacketType
  PROVE  LET payload == IF p.type = 0 THEN "payload_utf8" ELSE "payload_binary"
             x == Saved(p) IN
         /\ x.has = Required \cup {payload} /\ x.unknown = <<>>
         /\ x.val["protocol_version"] = 0 /\ x.val["payload_type"] = p.type
         /\ x.val["source_id"] = p.source /\ x.val["destination_id"] = p.destination
         /\ x.val["namespace"] = p.namespace /\ x.val[payload] = p.payload
<1> DEFINE payload == IF p.type = 0 THEN "payload_utf8" ELSE "payload_binary"
           text == [source_id |-> p.source, destination_id |-> p.destination,
                    namespace |-> p.namespace]
           val == [f \in Fields |-> IF f \in DOMAIN text THEN text[f] ELSE
                                    IF f = payload THEN p.payload ELSE
                                    IF f = "payload_type" THEN p.type ELSE 0]
<1>1. Saved(p) = [Fresh EXCEPT !.has = Required \cup {payload}, !.own = {payload} \cup DOMAIN text,
                               !.val = val]
  BY DEF Saved
<1>2. DOMAIN text = {"source_id", "destination_id", "namespace"}
  OBVIOUS
<1>3. {"protocol_version", "payload_type", "source_id", "destination_id", "namespace",
       "payload_utf8", "payload_binary"} \subseteq Fields
  BY DEF Fields, FieldOrder
<1>4. /\ val["protocol_version"] = 0 /\ val["payload_type"] = p.type
      /\ val["source_id"] = p.source /\ val["destination_id"] = p.destination
      /\ val["namespace"] = p.namespace /\ val[payload] = p.payload
  BY <1>2, <1>3
<1> HIDE DEF payload, text, val
<1>5. /\ Saved(p).has = Required \cup {payload} /\ Saved(p).val = val
      /\ Saved(p).unknown = <<>>
  BY <1>1 DEF Fresh
<1> QED  BY <1>4, <1>5 DEF payload

LEMMA SavedSays ==
  ASSUME NEW p \in PacketType
  PROVE  Says(Written(Saved(p)), p)
<1> DEFINE x == Saved(p)
           tokens == Written(x)
<1>1. Proper(x) /\ x.unknown = <<>>
  BY SavedIsProper, SavedHolds
<1>2. x.has \subseteq Fields
  BY <1>1 DEF Proper, Messages
<1>3. \A f \in x.has : Known(Token(f, x.val[f]))
  <2> SUFFICES ASSUME NEW f \in x.has
               PROVE  f \in StringFields \/ (f \in EnumFields /\ IsValid(f, x.val[f]))
    BY DEF Known, Token
  <2>1. f \in StringFields \/ f = "protocol_version" \/ f = "payload_type"
    BY <1>2 DEF StringFields, EnumFields
  <2>2. x.val["protocol_version"] = 0 /\ x.val["payload_type"] \in {0, 1}
    BY SavedHolds DEF PacketType
  <2>3. "protocol_version" \in EnumFields /\ "payload_type" \in EnumFields
    BY DEF EnumFields
  <2> HIDE DEF x
  <2>4. CASE f = "protocol_version"
    BY <2>2, <2>3, <2>4 DEF IsValid
  <2>5. CASE f = "payload_type"
    BY <2>2, <2>3, <2>5 DEF IsValid
  <2> QED  BY <2>1, <2>4, <2>5
<1>4. "end" \notin Fields
  BY DEF Fields, FieldOrder
<1>5. \A t : Has(tokens, t) <=> \E f \in x.has : t = Token(f, x.val[f])
  BY <1>1, FieldsAreWritten
<1> HIDE DEF x, tokens
<1>6. ASSUME NEW i \in 1..Len(tokens)
      PROVE  /\ tokens[i].whole /\ tokens[i].f # "end"
             /\ tokens[i].f \in x.has /\ tokens[i].v = x.val[tokens[i].f]
  <2>1. PICK f \in x.has : tokens[i] = Token(f, x.val[f])
    BY <1>5 DEF Has
  <2> QED  BY <1>2, <1>4, <2>1 DEF Token
<1>7. ASSUME NEW f \in x.has
      PROVE  \E i \in 1..Len(tokens) : Known(tokens[i]) /\ tokens[i].f = f
  <2>1. Has(tokens, Token(f, x.val[f]))
    BY <1>5
  <2>2. PICK i \in 1..Len(tokens) : tokens[i] = Token(f, x.val[f])
    BY <2>1 DEF Has
  <2>3. Known(tokens[i]) /\ tokens[i].f = f
    BY <1>3, <2>2 DEF Token
  <2> QED  BY <2>3
<1> QED  BY <1>6, <1>7 DEF Says, x, tokens

\* What one packet says another says too, if every token of it is there and what is
\* there besides is unknown.
LEMMA SayingTheSame ==
  ASSUME NEW p, NEW s, NEW u, Says(s, p),
         \A i \in 1..Len(s) : \E j \in 1..Len(u) : u[j] = s[i],
         \A j \in 1..Len(u) :
           \/ \E i \in 1..Len(s) : u[j] = s[i]
           \/ u[j].whole /\ u[j].f # "end" /\ ~Known(u[j])
  PROVE  Says(u, p)
<1>1. \A j \in 1..Len(u) : u[j].whole /\ u[j].f # "end"
  BY DEF Says
<1>2. ASSUME NEW j \in 1..Len(u), Known(u[j])
      PROVE  u[j].f \in Saved(p).has /\ u[j].v = Saved(p).val[u[j].f]
  <2>1. PICK i \in 1..Len(s) : u[j] = s[i]
    BY <1>2
  <2>2. Known(s[i])
    BY <1>2, <2>1
  <2> QED  BY <2>1, <2>2 DEF Says
<1>3. ASSUME NEW f \in Saved(p).has
      PROVE  \E j \in 1..Len(u) : Known(u[j]) /\ u[j].f = f
  <2>1. PICK i \in 1..Len(s) : Known(s[i]) /\ s[i].f = f
    BY DEF Says
  <2>2. PICK j \in 1..Len(u) : u[j] = s[i]
    OBVIOUS
  <2> QED  BY <2>1, <2>2
<1> QED  BY <1>1, <1>2, <1>3 DEF Says

\* Where the tokens are when one is put between two parts.
LEMMA InsertionPlaces ==
  ASSUME NEW s \in Seq(Tokens), NEW u \in Seq(Tokens), NEW t \in Tokens
  PROVE  /\ Len(s \o <<t>> \o u) = Len(s) + 1 + Len(u)
         /\ \A k \in 1..Len(s) : (s \o <<t>> \o u)[k] = s[k]
         /\ (s \o <<t>> \o u)[Len(s) + 1] = t
         /\ \A k \in 1..Len(u) : (s \o <<t>> \o u)[Len(s) + 1 + k] = u[k]
<1> DEFINE one == <<t>>
           head == s \o one
<1>1. one \in Seq(Tokens) /\ Len(one) = 1 /\ one[1] = t /\ 1 \in 1..Len(one)
  OBVIOUS
<1> HIDE DEF one
<1>2. /\ head \in Seq(Tokens) /\ Len(s) \in Nat
      /\ Len(head) = Len(s) + Len(one)
      /\ \A k \in 1..Len(s) : k \in 1..Len(head) /\ head[k] = s[k]
      /\ \A k \in 1..Len(one) : Len(s) + k \in 1..Len(head) /\ head[Len(s) + k] = one[k]
  BY <1>1, ConcatPlaces, Zenon
<1> HIDE DEF head
<1>w. head \in Seq(Tokens)
  BY <1>2, Zenon
<1>3. /\ Len(u) \in Nat
      /\ Len(head \o u) = Len(head) + Len(u)
      /\ \A k \in 1..Len(head) : (head \o u)[k] = head[k]
      /\ \A k \in 1..Len(u) : (head \o u)[Len(head) + k] = u[k]
  BY <1>w, ConcatPlaces, ZenonT(30)
<1> DEFINE all == head \o u
<1> HIDE DEF all
<1>4. /\ Len(all) = Len(s) + 1 + Len(u)
      /\ \A k \in 1..Len(s) : all[k] = s[k]
      /\ all[Len(s) + 1] = t
      /\ \A k \in 1..Len(u) : all[Len(s) + 1 + k] = u[k]
  BY <1>1, <1>2, <1>3 DEF all
<1> QED  BY <1>4 DEF all, head, one

LEMMA PartsOfSequence ==
  ASSUME NEW T, NEW s \in Seq(T), NEW i \in Nat, i <= Len(s)
  PROVE  /\ SubSeq(s, 1, i) \in Seq(T) /\ Len(SubSeq(s, 1, i)) = i
         /\ \A k \in 1..i : SubSeq(s, 1, i)[k] = s[k]
         /\ SubSeq(s, i + 1, Len(s)) \in Seq(T) /\ Len(SubSeq(s, i + 1, Len(s))) = Len(s) - i
         /\ \A k \in 1..(Len(s) - i) : SubSeq(s, i + 1, Len(s))[k] = s[i + k]
<1>0. Len(s) \in Nat
  OBVIOUS
<1>1. SubSeq(s, 1, i) \in Seq(T) /\ Len(SubSeq(s, 1, i)) = i
  BY <1>0
<1>2. \A k \in 1..i : SubSeq(s, 1, i)[k] = s[k]
  BY <1>0
<1>3. SubSeq(s, i + 1, Len(s)) \in Seq(T) /\ Len(SubSeq(s, i + 1, Len(s))) = Len(s) - i
  BY <1>0
<1>4. \A k \in 1..(Len(s) - i) : SubSeq(s, i + 1, Len(s))[k] = s[i + k]
  BY <1>0
<1> QED  BY <1>1, <1>2, <1>3, <1>4, Zenon

\* A peer that adds what is unknown.
LEMMA AddingSays ==
  ASSUME IInv, FromSaved, NEW t \in Added, NEW i \in 0..Len(wire), PeerAdds(t, i)
  PROVE  FromSaved'
<1> DEFINE before == SubSeq(wire, 1, i)
           after == SubSeq(wire, i + 1, Len(wire))
           longer == before \o <<t>> \o after
<1>1. /\ wire' = longer
      /\ origin' = IF t.whole /\ t.f # "end" /\ ~Known(t) THEN origin ELSE NoPacket
  BY DEF PeerAdds, Sends
<1>2. SUFFICES ASSUME origin # NoPacket, t.whole, t.f # "end", ~Known(t)
               PROVE  Says(longer, origin)
  BY <1>1 DEF FromSaved
<1>3. /\ wire \in Seq(Tokens) /\ Len(wire) \in Nat /\ t \in Tokens
      /\ i \in Nat /\ i <= Len(wire)
  BY ConstantsAssumption DEF IInv
<1>4. /\ before \in Seq(Tokens) /\ Len(before) = i /\ \A k \in 1..i : before[k] = wire[k]
      /\ after \in Seq(Tokens) /\ Len(after) = Len(wire) - i
      /\ \A k \in 1..(Len(wire) - i) : after[k] = wire[i + k]
  BY <1>3, PartsOfSequence, SMTT(30)
<1> HIDE DEF before, after
<1>5. /\ Len(longer) = Len(before) + 1 + Len(after)
      /\ \A k \in 1..Len(before) : longer[k] = before[k]
      /\ longer[Len(before) + 1] = t
      /\ \A k \in 1..Len(after) : longer[Len(before) + 1 + k] = after[k]
  <2>1. t \in Tokens
    BY <1>3, Zenon
  <2>2. before \in Seq(Tokens) /\ after \in Seq(Tokens)
    BY <1>4, Zenon
  <2> QED  BY <2>1, <2>2, InsertionPlaces, ZenonT(30)
<1> HIDE DEF longer
<1>6. /\ Len(longer) = Len(wire) + 1
      /\ \A k \in 1..i : longer[k] = wire[k]
      /\ longer[i + 1] = t
  BY <1>3, <1>4, <1>5
<1>7. ASSUME NEW k \in (i + 1)..Len(wire)
      PROVE  longer[k + 1] = wire[k]
  <2>1. k - i \in 1..(Len(wire) - i) /\ i + 1 + (k - i) = k + 1 /\ i + (k - i) = k
    BY <1>3
  <2>2. longer[i + 1 + (k - i)] = after[k - i]
    BY <1>4, <1>5, <2>1
  <2> QED  BY <1>4, <2>1, <2>2
<1>8. ASSUME NEW k \in 1..Len(wire)
      PROVE  \E j \in 1..Len(longer) : longer[j] = wire[k]
  <2>1. CASE k <= i
    <3>1. k \in 1..Len(longer) /\ longer[k] = wire[k]
      BY <1>3, <1>6, <2>1
    <3> QED  BY <3>1
  <2>2. CASE ~(k <= i)
    <3>1. k + 1 \in 1..Len(longer) /\ longer[k + 1] = wire[k]
      BY <1>3, <1>6, <1>7, <2>2
    <3> QED  BY <3>1
  <2> QED  BY <2>1, <2>2
<1>9. ASSUME NEW j \in 1..Len(longer)
      PROVE  longer[j] = t \/ \E k \in 1..Len(wire) : longer[j] = wire[k]
  <2>1. CASE j <= i
    <3>1. j \in 1..Len(wire) /\ longer[j] = wire[j]
      BY <1>3, <1>6, <2>1
    <3> QED  BY <3>1
  <2>2. CASE j = i + 1
    BY <1>6, <2>2
  <2>3. CASE ~(j <= i) /\ j # i + 1
    <3>1. j - 1 \in (i + 1)..Len(wire) /\ (j - 1) + 1 = j
      BY <1>3, <1>6, <2>3
    <3>2. j - 1 \in 1..Len(wire) /\ longer[j] = wire[j - 1]
      BY <1>3, <1>7, <3>1
    <3> QED  BY <3>2
  <2> QED  BY <2>1, <2>2, <2>3
<1>10. Says(wire, origin)
  BY <1>2 DEF FromSaved
<1>11. \A j \in 1..Len(longer) :
         \/ \E k \in 1..Len(wire) : longer[j] = wire[k]
         \/ longer[j].whole /\ longer[j].f # "end" /\ ~Known(longer[j])
  BY <1>2, <1>9
<1> QED  BY <1>8, <1>10, <1>11, SayingTheSame DEF longer

\* A peer that sends the fields in another order.
LEMMA ReorderingSays ==
  ASSUME IInv, FromSaved, NEW i \in DOMAIN wire, PeerReorders(i)
  PROVE  FromSaved'
<1> DEFINE swapped == [wire EXCEPT ![i] = wire[i + 1], ![i + 1] = wire[i]]
<1>1. /\ i < Len(wire) /\ wire' = swapped
      /\ origin' = IF wire[i].f = wire[i + 1].f THEN NoPacket ELSE origin
  BY DEF PeerReorders, Sends
<1>2. SUFFICES ASSUME origin # NoPacket
               PROVE  Says(swapped, origin)
  BY <1>1 DEF FromSaved
<1>3. wire \in Seq(Tokens) /\ DOMAIN wire = 1..Len(wire) /\ Len(wire) \in Nat
      /\ i \in 1..Len(wire) /\ i + 1 \in 1..Len(wire)
  BY <1>1 DEF IInv
<1>4. /\ Len(swapped) = Len(wire)
      /\ swapped[i] = wire[i + 1] /\ swapped[i + 1] = wire[i]
      /\ \A k \in 1..Len(wire) : k # i /\ k # i + 1 => swapped[k] = wire[k]
  BY <1>3
<1> HIDE DEF swapped
<1>5. \A k \in 1..Len(wire) : \E j \in 1..Len(swapped) : swapped[j] = wire[k]
  BY <1>3, <1>4
<1>6. \A j \in 1..Len(swapped) : \E k \in 1..Len(wire) : swapped[j] = wire[k]
  BY <1>3, <1>4
<1>7. Says(wire, origin)
  BY <1>2 DEF FromSaved
<1> QED  BY <1>5, <1>6, <1>7, SayingTheSame

LEMMA NextFromSaved == IInv /\ FromSaved /\ [Next]_vars => FromSaved'
<1> SUFFICES ASSUME IInv, FromSaved, [Next]_vars PROVE FromSaved'
  OBVIOUS
<1>1. CASE UNCHANGED <<wire, origin>>
  BY <1>1 DEF FromSaved
<1>2. CASE origin' = NoPacket
  BY <1>2 DEF FromSaved
<1>3. ASSUME NEW p \in Packets, Save(p)
      PROVE  FromSaved'
  <2>1. CASE UNCHANGED written
    BY <1>1, <2>1 DEF written
  <2>2. CASE wire' = Written(Saved(p)) /\ origin' = p
    <3>1. p \in PacketType
      BY ConstantsAssumption
    <3> QED  BY <2>2, <3>1, SavedSays DEF FromSaved
  <2> QED  BY <1>3, <2>1, <2>2 DEF Save, Write
<1>4. ASSUME NEW f, EnumAccess(f) \/ StringAccess(f)
      PROVE  UNCHANGED <<wire, origin>>
  BY <1>4 DEF EnumAccess, StringAccess, Becomes, Call, written
<1>5. CASE \/ ProtocolVersion \/ SourceId \/ DestinationId \/ Namespace
           \/ PayloadType \/ PayloadUtf8 \/ PayloadBinary
  BY <1>1, <1>4, <1>5
     DEF ProtocolVersion, SourceId, DestinationId, Namespace, PayloadType, PayloadUtf8, PayloadBinary
<1>6. CASE DeleteReleased \/ ParseField \/ EndParse \/ UNCHANGED vars
  BY <1>1, <1>6 DEF DeleteReleased, ParseField, EndParse, vars, written
<1>7. ASSUME NEW o \in Objs, Clear(o) \/ Destroy(o) \/ Serialize(o) \/ ParseFromCodedStream(o)
      PROVE  FromSaved'
  <2>1. CASE Serialize(o)
    BY <1>2, <2>1 DEF Serialize, Write
  <2>2. CASE Clear(o) \/ Destroy(o) \/ ParseFromCodedStream(o)
    BY <1>1, <2>2 DEF Clear, Destroy, ParseFromCodedStream, Becomes, Call, written
  <2> QED  BY <1>7, <2>1, <2>2
<1>8. ASSUME NEW o \in Objs, NEW p \in Objs, MergeFrom(o, p) \/ CopyFrom(o, p) \/ Swap(o, p)
      PROVE  FromSaved'
  BY <1>1, <1>8 DEF MergeFrom, CopyFrom, Swap, Becomes, Call, written
<1>9. CASE \E t \in Added, i \in 0..Len(wire) : PeerAdds(t, i)
  BY <1>9, AddingSays
<1>10. CASE \E i \in DOMAIN wire : PeerOmits(i) \/ PeerReorders(i)
  <2>1. ASSUME NEW i \in DOMAIN wire, PeerOmits(i)
        PROVE  FromSaved'
    BY <1>2, <2>1 DEF PeerOmits, Sends
  <2> QED  BY <1>10, <2>1, ReorderingSays
<1> QED  BY <1>3, <1>5, <1>6, <1>7, <1>8, <1>9, <1>10 DEF Next

LEMMA SavingFollows == IInv /\ Parsing /\ FromSaved => LoadedIsSaved
<1> SUFFICES ASSUME IInv, Parsing, FromSaved, origin # NoPacket
             PROVE  /\ phase = "parsed" => Loaded(msg[target]) = origin
                    /\ phase # "failed"
  BY DEF LoadedIsSaved
<1> DEFINE x == msg[target]
           saved == Saved(origin)
           payload == IF origin.type = 0 THEN "payload_utf8" ELSE "payload_binary"
<1>1. origin \in PacketType /\ Says(wire, origin) /\ wire \in Seq(Tokens)
  BY DEF FromSaved, IInv
<1>2. DOMAIN wire = 1..Len(wire) /\ Len(wire) \in Nat
  BY <1>1
<1>3. ~Broken
  BY <1>1, <1>2 DEF Broken, Says
<1>4. /\ saved.has = Required \cup {payload}
      /\ saved.val["payload_type"] = origin.type
      /\ saved.val["source_id"] = origin.source /\ saved.val["destination_id"] = origin.destination
      /\ saved.val["namespace"] = origin.namespace /\ saved.val[payload] = origin.payload
  BY <1>1, SavedHolds
<1>5. Required \cup {payload} \subseteq Fields
      /\ {"source_id", "destination_id", "namespace", "payload_type"} \subseteq Required
  BY DEF Required, Fields, FieldOrder
<1> HIDE DEF saved, payload
<1>6. ASSUME Progress, Ended, NEW f \in saved.has
      PROVE  f \in x.has /\ x.val[f] = saved.val[f]
  <2>1. pos \in 1..(Len(wire) + 1) /\ pos \notin DOMAIN wire
    BY <1>1, <1>2, <1>6 DEF Progress, Ended, Says
  <2>2. pos - 1 = Len(wire)
    BY <1>2, <2>1
  <2>3. Filled(Len(wire))
    BY <1>6, <2>2 DEF Progress
  <2>4. PICK i \in 1..Len(wire) : Known(wire[i]) /\ wire[i].f = f
    BY <1>1 DEF Says, saved
  <2>5. i \in Seen(f, Len(wire)) /\ f \in Fields
    BY <1>4, <1>5, <2>4 DEF Seen
  <2>6. f \in x.has
    BY <2>3, <2>5 DEF Filled
  <2>7. PICK j \in Seen(f, Len(wire)) : x.val[f] = wire[j].v
    BY <2>3, <2>6 DEF Filled
  <2>8. j \in 1..Len(wire) /\ Known(wire[j]) /\ wire[j].f = f
    BY <2>7 DEF Seen
  <2>9. wire[j].v = saved.val[wire[j].f]
    BY <1>1, <2>8 DEF Says, saved
  <2> QED  BY <2>6, <2>7, <2>8, <2>9
<1>7. phase # "failed"
  <2> SUFFICES ASSUME phase = "failed" PROVE FALSE
    OBVIOUS
  <2>1. Progress /\ Ended /\ ~(Required \subseteq x.has)
    BY <1>3 DEF Parsing
  <2> QED  BY <1>4, <1>6, <2>1
<1>8. ASSUME phase = "parsed"
      PROVE  Loaded(x) = origin
  <2>1. Progress /\ Ended
    BY <1>8 DEF Parsing
  <2>2. \A f \in saved.has : x.val[f] = saved.val[f]
    BY <1>6, <2>1
  <2>3. /\ x.val["payload_type"] = origin.type
        /\ x.val["source_id"] = origin.source /\ x.val["destination_id"] = origin.destination
        /\ x.val["namespace"] = origin.namespace
    BY <1>4, <1>5, <2>2
  <2>4. x.val[payload] = origin.payload
    BY <1>4, <2>2
  <2>5. Loaded(x) = [source |-> origin.source, destination |-> origin.destination,
                     namespace |-> origin.namespace, type |-> origin.type,
                     payload |-> origin.payload]
    BY <2>3, <2>4 DEF Loaded, payload
  <2> QED  BY <1>1, <2>5 DEF PacketType
<1> QED  BY <1>7, <1>8

\* What the library saves is loaded as it was, for any packet, in whatever order a peer
\* sends the fields and whatever newer ones it adds (cast_message.cpp:68-127).
THEOREM SavedComesBack == Spec => []LoadedIsSaved
<1>1. Init => Parsing /\ FromSaved
  BY DEF Init, Parsing, FromSaved
<1> QED  BY InitIInv, NextIInv, NextParsing, NextFromSaved, SavingFollows, <1>1, PTL DEF Spec
=============================================================================
