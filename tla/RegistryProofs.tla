---------------------------- MODULE RegistryProofs ----------------------------
(***************************************************************************)
(* Theorems about Registry, for any names.                                 *)
(***************************************************************************)
EXTENDS Registry, TLAPS

\* While a broadcast is delivered, the channels before the iterator have had the
\* message, those there all the time exactly if it is for them, and the channels
\* after it have not; the one it points to has had it when it calls the user.
Progress ==
  message # None /\ message.destination = Star /\ status = "running" /\ at # None =>
    /\ \A k \in Keys : Less(k, at) => reached[k] <= 1
    /\ \A k \in present : Less(k, at) => reached[k] = IF Matches(k, message) THEN 1 ELSE 0
    /\ \A k \in Keys : Less(at, k) => reached[k] = 0
    /\ reached[at] = IF calling THEN 1 ELSE 0
    /\ calling => Matches(at, message)

\* Between deliveries no channel counts as reached; a directed message always has
\* a channel, unless nothing knows it.
Idle ==
  /\ message = None => (\A k \in Keys : reached[k] = 0) /\ ~calling
  /\ message # None /\ at = None /\ status = "running" => message.destination = Star /\ ~calling

IInv == TypeOK /\ Progress /\ Idle /\ BroadcastReachesAll

-----------------------------------------------------------------------------

\* The order of addresses is a strict total order on the keys of the map, so two
\* keys that it does not tell apart are the same.
LEMMA LessIsStrictOrder ==
  /\ \A a \in Keys : ~Less(a, a)
  /\ \A a, b, c \in Keys : Less(a, b) /\ Less(b, c) => Less(a, c)
  /\ \A a, b \in Keys : a = b \/ Less(a, b) \/ Less(b, a)
<1> USE NamesAssumption
<1>1. \A a, b \in Keys : Less(a, b) <=>
        \/ a.source < b.source
        \/ a.source = b.source /\ a.namespace < b.namespace
        \/ a.source = b.source /\ a.namespace = b.namespace /\ a.destination < b.destination
  BY DEF Less, Compare, Keys
<1>2. \A a \in Keys : a.source \in Nat /\ a.namespace \in Nat /\ a.destination \in Nat
  BY DEF Keys
<1>3. \A a \in Keys : ~Less(a, a)
  BY <1>1, <1>2
<1>4. \A a, b, c \in Keys : Less(a, b) /\ Less(b, c) => Less(a, c)
  BY <1>1, <1>2
<1>5. \A a, b \in Keys : a = b \/ Less(a, b) \/ Less(b, a)
  <2> SUFFICES ASSUME NEW a \in Keys, NEW b \in Keys, ~Less(a, b), ~Less(b, a) PROVE a = b
    OBVIOUS
  <2>1. a.source = b.source /\ a.namespace = b.namespace /\ a.destination = b.destination
    BY <1>1, <1>2
  <2> QED BY <2>1 DEF Keys
<1> QED BY <1>3, <1>4, <1>5

\* A lookup finds the key it asks for, if the map has it, and nothing else.
LEMMA FindIsExact ==
  ASSUME registry \subseteq Keys, NEW a \in Keys
  PROVE  Find(a) = registry \cap {a}
  BY LessIsStrictOrder DEF Find

-----------------------------------------------------------------------------

LEMMA InitIInv == Init => IInv
<1> SUFFICES ASSUME Init PROVE IInv
  OBVIOUS
<1>1. TypeOK
  BY DEF Init, TypeOK
<1>2. Progress /\ Idle /\ BroadcastReachesAll
  BY DEF Init, Progress, Idle, BroadcastReachesAll
<1> QED BY <1>1, <1>2 DEF IInv

\* The iterator moves on: what Progress says of it, and what a broadcast promises
\* when it ends, hold of the next element if the current one has been dealt with.
LEMMA AdvanceKeeps ==
  ASSUME IInv, message # None, message.destination = Star, status = "running", at # None,
         NEW r \in [Keys -> Nat],
         \A k \in Keys : k # at => r[k] = reached[k],
         r[at] = IF Matches(at, message) THEN 1 ELSE 0,
         Advance
  PROVE  /\ at' \in Keys \cup {None}
         /\ at' # None =>
              /\ \A k \in Keys : Less(k, at') => r[k] <= 1
              /\ \A k \in present : Less(k, at') => r[k] = IF Matches(k, message) THEN 1 ELSE 0
              /\ \A k \in Keys : Less(at', k) => r[k] = 0
              /\ r[at'] = 0
         /\ at' = None =>
              /\ \A k \in present : r[k] = IF Matches(k, message) THEN 1 ELSE 0
              /\ \A k \in Keys : r[k] <= 1
<1> DEFINE rest == {k \in registry : Less(at, k)}
<1>1. /\ at \in Keys /\ registry \subseteq Keys /\ present \subseteq registry /\ reached \in [Keys -> Nat]
      /\ r[at] <= 1
  BY DEF IInv, TypeOK
<1>2. /\ \A k \in Keys : Less(k, at) => r[k] <= 1
      /\ \A k \in present : Less(k, at) => r[k] = IF Matches(k, message) THEN 1 ELSE 0
      /\ \A k \in Keys : Less(at, k) => r[k] = 0
  <2>1. \A k \in Keys : Less(k, at) \/ Less(at, k) => k # at
    BY <1>1, LessIsStrictOrder
  <2> QED BY <1>1, <2>1 DEF IInv, Progress
<1>3. \A k \in Keys : r[k] <= 1
  BY <1>1, <1>2, LessIsStrictOrder
<1>4. \A k \in present : k \notin rest => r[k] = IF Matches(k, message) THEN 1 ELSE 0
  BY <1>1, <1>2, LessIsStrictOrder
<1>5. CASE rest = {}
  BY <1>3, <1>4, <1>5 DEF Advance
<1>6. CASE rest # {}
  <2>1. at' \in FirstOf(rest)
    BY <1>6 DEF Advance
  <2>2. at' \in rest /\ \A j \in rest : ~Less(j, at')
    BY <2>1 DEF FirstOf
  <2>3. at' \in Keys /\ Less(at, at')
    BY <1>1, <2>2
  <2>4. \A k \in present : Less(k, at') => k \notin rest
    BY <2>2
  <2>5. \A k \in Keys : Less(at', k) => Less(at, k)
    BY <1>1, <2>3, LessIsStrictOrder
  <2>6. at' # None
    <3>1. Keys \subseteq Addresses
      BY DEF Keys, Addresses
    <3> QED BY <2>3, <3>1, NoneAssumption
  <2> QED BY <1>2, <1>3, <1>4, <2>3, <2>4, <2>5, <2>6
<1> QED BY <1>5, <1>6

\* Between deliveries, or after an exception, nothing is promised.
LEMMA DoneKeeps ==
  ASSUME Done, registry' \subseteq Keys, status' \in {status}, TypeOK
  PROVE  IInv'
  BY DEF Done, IInv, TypeOK, Progress, Idle, BroadcastReachesAll

LEMMA NextIInv == IInv /\ [Next]_vars => IInv'
<1> SUFFICES ASSUME IInv, [Next]_vars PROVE IInv'
  OBVIOUS
<1>0. TypeOK /\ Progress /\ Idle /\ BroadcastReachesAll
  BY DEF IInv
<1>a. \A k \in Keys : k # None /\ k \in Addresses
  BY NoneAssumption DEF Keys, Addresses
<1>1. ASSUME NEW k \in Keys, RegisterChannel(k) PROVE IInv'
  <2>1. TypeOK'
    BY <1>0, <1>1 DEF RegisterChannel, TypeOK
  <2>2. Progress' /\ Idle' /\ BroadcastReachesAll'
    BY <1>0, <1>1 DEF RegisterChannel, UserRuns, Progress, Idle, BroadcastReachesAll
  <2> QED BY <2>1, <2>2 DEF IInv
<1>2. ASSUME NEW k \in Keys, UnregisterChannel(k) PROVE IInv'
  <2>1. TypeOK'
    BY <1>0, <1>2 DEF UnregisterChannel, TypeOK
  <2>2. Progress' /\ Idle' /\ BroadcastReachesAll'
    BY <1>0, <1>2 DEF UnregisterChannel, UserRuns, Progress, Idle, BroadcastReachesAll
  <2> QED BY <2>1, <2>2 DEF IInv
<1>3. ASSUME NEW m \in Addresses, OnDirected(m) PROVE IInv'
  <2>1. TypeOK'
    <3>1. message' = m /\ valid' = TRUE /\ present' = registry /\ registry' = registry /\ status = "running"
      BY <1>3 DEF OnDirected, Begin
    <3>2. CASE status' = "unrecognized" /\ UNCHANGED <<at, calling, reached>>
      BY <1>0, <3>1, <3>2 DEF TypeOK
    <3>3. ASSUME NEW k \in Find(m), at' = k,
                 \/ Calls(k) /\ UNCHANGED status
                 \/ Ignores(k) /\ status' = "unhandled"
          PROVE  TypeOK'
      <4>1. k \in Keys
        BY <1>0 DEF Find, TypeOK
      <4>2. calling' \in BOOLEAN /\ reached' = [reached EXCEPT ![k] = @ + 1] /\ status' \in {status, "unhandled"}
        BY <3>3 DEF Calls, Ignores
      <4>3. reached' \in [Keys -> Nat]
        BY <1>0, <4>1, <4>2 DEF TypeOK
      <4> QED BY <1>0, <3>1, <3>3, <4>1, <4>2, <4>3 DEF TypeOK
    <3> QED BY <1>3, <3>2, <3>3 DEF OnDirected
  <2>2. message' = m /\ m # None /\ m.destination # Star
    BY <1>3, NoneAssumption DEF OnDirected, Begin
  <2>3. Find(m) = {} => status' = "unrecognized"
    BY <1>3 DEF OnDirected
  <2>4. Find(m) # {} => at' # None
    BY <1>0, <1>3, <1>a DEF OnDirected, Find, TypeOK
  <2>5. Progress' /\ Idle' /\ BroadcastReachesAll'
    BY <2>2, <2>3, <2>4 DEF Progress, Idle, BroadcastReachesAll
  <2> QED BY <2>1, <2>5 DEF IInv
<1>4. ASSUME NEW m \in Addresses, OnBroadcast(m) PROVE IInv'
  <2>1. /\ m.destination = Star /\ message = None /\ message' = m /\ m # None
        /\ at' \in FirstOf(registry) /\ at' \in Keys /\ at' # None
        /\ valid' = TRUE /\ present' = registry /\ present' \subseteq Keys
        /\ UNCHANGED <<registry, calling, reached, status>>
    BY <1>0, <1>4, <1>a, NoneAssumption DEF OnBroadcast, Begin, FirstOf, TypeOK
  <2>2. TypeOK'
    BY <1>0, <2>1 DEF TypeOK
  <2>3. ~calling /\ \A k \in Keys : reached[k] = 0
    BY <1>0, <2>1 DEF Idle
  <2>4. \A k \in present' : ~Less(k, at')
    BY <2>1 DEF FirstOf
  <2>5. Progress'
    BY <2>1, <2>3, <2>4 DEF Progress
  <2>6. Idle' /\ BroadcastReachesAll'
    BY <2>1 DEF Idle, BroadcastReachesAll
  <2> QED BY <2>2, <2>5, <2>6 DEF IInv
\* The iterator leaves an element after the channel has had the message, if it is
\* for it.
<1>5. ASSUME message # None, message.destination = Star, status = "running", at # None, Advance,
             reached' \in [Keys -> Nat],
             \A k \in Keys : k # at => reached'[k] = reached[k],
             reached'[at] = IF Matches(at, message) THEN 1 ELSE 0,
             calling' = FALSE,
             UNCHANGED <<registry, message, valid, present, status>>
      PROVE  IInv'
  <2>1. PICK r \in [Keys -> Nat] : r = reached'
    BY <1>5
  <2>2. /\ at' \in Keys \cup {None}
        /\ at' # None =>
             /\ \A k \in Keys : Less(k, at') => r[k] <= 1
             /\ \A k \in present : Less(k, at') => r[k] = IF Matches(k, message) THEN 1 ELSE 0
             /\ \A k \in Keys : Less(at', k) => r[k] = 0
             /\ r[at'] = 0
        /\ at' = None =>
             /\ \A k \in present : r[k] = IF Matches(k, message) THEN 1 ELSE 0
             /\ \A k \in Keys : r[k] <= 1
    <3>1. \A k \in Keys : k # at => r[k] = reached[k]
      BY <1>5, <2>1
    <3>2. r[at] = IF Matches(at, message) THEN 1 ELSE 0
      BY <1>5, <2>1
    <3> QED BY <1>5, <3>1, <3>2, AdvanceKeeps
  <2>3. TypeOK'
    BY <1>0, <1>5, <2>2 DEF TypeOK
  <2>4. Progress'
    BY <1>5, <2>1, <2>2 DEF Progress
  <2>5. Idle' /\ BroadcastReachesAll'
    BY <1>5, <2>1, <2>2 DEF Idle, BroadcastReachesAll
  <2> QED BY <2>3, <2>4, <2>5 DEF IInv
<1>6. CASE SkipElement
  <2>1. /\ message # None /\ message.destination = Star /\ status = "running" /\ at # None /\ ~calling /\ Advance
        /\ ~Matches(at, message)
        /\ UNCHANGED <<registry, message, valid, calling, reached, present, status>>
    BY <1>6 DEF SkipElement, AtElement
  <2>2. reached' \in [Keys -> Nat] /\ calling' = FALSE /\ reached'[at] = 0
    BY <1>0, <2>1 DEF TypeOK, Progress
  <2> QED BY <1>5, <2>1, <2>2
<1>7. CASE UnhandledByElement
  <2>1. /\ message # None /\ message.destination = Star /\ status = "running" /\ at # None /\ ~calling /\ Advance
        /\ Matches(at, message)
        /\ calling' = FALSE /\ reached' = [reached EXCEPT ![at] = @ + 1]
        /\ UNCHANGED <<registry, message, valid, present, status>>
    BY <1>7 DEF UnhandledByElement, AtElement, Ignores
  <2>2. reached \in [Keys -> Nat] /\ at \in Keys /\ reached[at] = 0
    BY <1>0, <2>1 DEF TypeOK, Progress
  <2>3. /\ reached' \in [Keys -> Nat] /\ reached'[at] = 1
        /\ \A k \in Keys : k # at => reached'[k] = reached[k]
    BY <2>1, <2>2
  <2> QED BY <1>5, <2>1, <2>3
<1>8. CASE CallElement
  <2>1. /\ message # None /\ message.destination = Star /\ status = "running" /\ at # None /\ ~calling
        /\ Matches(at, message)
        /\ calling' = TRUE /\ reached' = [reached EXCEPT ![at] = @ + 1]
        /\ UNCHANGED <<registry, message, at, valid, present, status>>
    BY <1>8 DEF CallElement, AtElement, Calls
  <2>2. reached \in [Keys -> Nat] /\ at \in Keys /\ reached[at] = 0 /\ present \subseteq Keys
    BY <1>0, <2>1 DEF TypeOK, Progress
  <2>3. /\ reached' \in [Keys -> Nat] /\ reached'[at] = 1
        /\ \A k \in Keys : k # at => reached'[k] = reached[k]
    BY <2>1, <2>2
  <2>4. TypeOK'
    BY <1>0, <2>1, <2>3 DEF TypeOK
  <2>5. \A k \in Keys : Less(k, at) \/ Less(at, k) => k # at
    BY <2>2, LessIsStrictOrder
  <2>6. Progress'
    BY <1>0, <2>1, <2>2, <2>3, <2>5 DEF Progress, Matches
  <2>7. Idle' /\ BroadcastReachesAll'
    BY <2>1 DEF Idle, BroadcastReachesAll
  <2> QED BY <2>4, <2>6, <2>7 DEF IInv
<1>9. CASE Return
  <2>1. CASE message.destination # Star
    <3>1. CASE Done /\ UNCHANGED <<status, registry>>
      BY <1>0, <3>1, DoneKeeps DEF TypeOK
    <3>2. CASE /\ status' \in {"unhandled", "dangling"} /\ calling
               /\ UNCHANGED <<registry, message, at, valid, calling, reached, present>>
      <4>1. TypeOK'
        BY <1>0, <3>2 DEF TypeOK
      <4> QED BY <1>0, <2>1, <3>2, <4>1 DEF IInv, Progress, Idle, BroadcastReachesAll
    <3>3. \/ Done /\ UNCHANGED <<status, registry>>
          \/ /\ status' \in {"unhandled", "dangling"} /\ calling
             /\ UNCHANGED <<registry, message, at, valid, calling, reached, present>>
      BY <1>9, <2>1 DEF Return
    <3> QED BY <3>1, <3>2, <3>3
  <2>2. CASE message.destination = Star /\ valid
    <3>1. /\ status = "running" /\ calling /\ calling' = FALSE /\ Advance
          /\ UNCHANGED <<registry, message, valid, reached, present, status>>
      BY <1>9, <2>2 DEF Return
    <3>2. message # None /\ at # None
      BY <1>0, <3>1 DEF Idle
    <3>3. reached' \in [Keys -> Nat] /\ reached'[at] = 1 /\ Matches(at, message)
      BY <1>0, <2>2, <3>1, <3>2 DEF TypeOK, Progress
    <3> QED BY <1>5, <2>2, <3>1, <3>2, <3>3
  <2>3. CASE message.destination = Star /\ ~valid
    <3>1. /\ calling /\ status' = "dangling"
          /\ UNCHANGED <<registry, message, at, valid, calling, reached, present>>
      BY <1>9, <2>3 DEF Return
    <3>2. TypeOK'
      BY <1>0, <3>1 DEF TypeOK
    <3> QED BY <1>0, <3>1, <3>2 DEF IInv, Progress, Idle, BroadcastReachesAll
  <2> QED BY <2>1, <2>2, <2>3
<1>10. CASE Finish
  BY <1>0, <1>10, DoneKeeps DEF Finish, TypeOK
<1>11. CASE UNCHANGED vars
  BY <1>0, <1>11 DEF IInv, TypeOK, Progress, Idle, BroadcastReachesAll, vars
<1> QED BY <1>1, <1>2, <1>3, <1>4, <1>6, <1>7, <1>8, <1>9, <1>10, <1>11 DEF Next

LEMMA Invariance == Spec => []IInv
  BY InitIInv, NextIInv, PTL DEF Spec

-----------------------------------------------------------------------------

\* Every variable keeps its type.
THEOREM TypeCorrect == Spec => []TypeOK
  BY Invariance, PTL DEF IInv

\* A lookup in the map finds the channel with that address, if there is one, and
\* never another: Address::operator< tells any two keys apart.
THEOREM LookupsFindTheChannel == Spec => []LookupsAreExact
<1>1. IInv => LookupsAreExact
  BY FindIsExact DEF IInv, TypeOK, LookupsAreExact
<1> QED BY <1>1, Invariance, PTL

\* A broadcast is given once to each channel it is for, even if the channels it is
\* given to create and destroy others.
THEOREM BroadcastsReachAll == Spec => []BroadcastReachesAll
  BY Invariance, PTL DEF IInv
=============================================================================
