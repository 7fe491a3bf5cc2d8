------------------------------- MODULE Registry -------------------------------
(***************************************************************************)
(* The map from addresses to channels (connection.cpp), the order it is    *)
(* sorted by (cast_message.cpp), and the delivery of one message after the *)
(* other to the channels (connection.cpp, channel.cpp).                    *)
(*                                                                         *)
(* A channel is known by its key, the address of the messages it receives: *)
(* its own with source and destination swapped.  A name is a number, its   *)
(* rank in the order of strings.  While a channel handles a message it may *)
(* call the user, who creates and destroys channels; a broadcast goes on   *)
(* after that, with the iterator it had.                                   *)
(***************************************************************************)
EXTENDS Integers

CONSTANTS
  Sources, Namespaces, Destinations,  \* names, as ranks
  Star,                               \* the destination "*"
  None

ASSUME NamesAssumption ==
  /\ Sources \subseteq Nat /\ Namespaces \subseteq Nat /\ Destinations \subseteq Nat
  /\ Star \in Nat \ Destinations

Keys == [source : Sources, namespace : Namespaces, destination : Destinations]
Addresses == [source : Sources, namespace : Namespaces, destination : Destinations \cup {Star}]

ASSUME NoneAssumption == None \notin Addresses

VARIABLES
  registry,  \* _channel_address_to_channel: the keys in it
  message,   \* the address of the message that is being delivered, or None
  at,        \* the key of the channel its delivery has come to
  valid,     \* whether the iterator still points to an element of the map
  calling,   \* whether that channel is calling the user
  reached,   \* how often each channel was given the message
  present,   \* channels in the map ever since the delivery began
  status     \* of run(): what ended it

vars == <<registry, message, at, valid, calling, reached, present, status>>

TypeOK ==
  /\ registry \subseteq Keys
  /\ message \in Addresses \cup {None}
  /\ at \in Keys \cup {None}
  /\ valid \in BOOLEAN
  /\ calling \in BOOLEAN
  /\ reached \in [Keys -> Nat]
  /\ present \subseteq registry
  /\ status \in {"running", "duplicate", "unrecognized", "unhandled", "dangling"}

Init ==
  /\ registry = {}
  /\ message = None /\ at = None
  /\ valid = TRUE /\ calling = FALSE
  /\ reached = [k \in Keys |-> 0]
  /\ present = {}
  /\ status = "running"

-----------------------------------------------------------------------------
(* The order of the map *)

\* Mutated Compare: string::compare returns a difference, as other libraries do.
CompareDifference(x, y) == x - y

\* std::string::compare of the library the project is built with.
Compare(x, y) == IF x < y THEN -1 ELSE IF x = y THEN 0 ELSE 1

\* Address::operator<: source, namespace, destination.
Less(a, b) ==
  \/ Compare(a.source, b.source) = -1
  \/ /\ Compare(a.source, b.source) = 0
     /\ \/ Compare(a.namespace, b.namespace) = -1
        \/ /\ Compare(a.namespace, b.namespace) = 0
           /\ IF a.destination = Star THEN b.destination # Star ELSE a.destination < b.destination

\* map::find: the keys the order does not tell apart from an address.
Find(address) == {k \in registry : ~Less(k, address) /\ ~Less(address, k)}

\* The first of some keys, in the order of the map.
FirstOf(keys) == {k \in keys : \A j \in keys : ~Less(j, k)}

-----------------------------------------------------------------------------
(* Channels come and go, from outside or while a channel calls the user *)

UserRuns == status = "running" /\ (message = None \/ calling)

\* The constructor of a channel: RegisterChannel.
RegisterChannel(k) ==
  /\ UserRuns
  /\ \/ /\ Find(k) # {}
        /\ status' = "duplicate"
        /\ UNCHANGED registry
     \/ /\ Find(k) = {}
        /\ registry' = registry \cup {k}
        /\ UNCHANGED status
  /\ UNCHANGED <<message, at, valid, calling, reached, present>>

\* The destructor of a channel: UnregisterChannel.  A channel that exists is in
\* the map.
UnregisterChannel(k) ==
  /\ UserRuns
  /\ k \in Find(k)
  /\ registry' = registry \ {k}
  /\ present' = present \ {k}
  /\ valid' = (valid /\ k # at)
  /\ UNCHANGED <<message, at, calling, reached, status>>

-----------------------------------------------------------------------------
(* Delivery *)

\* A delivery begins.
Begin(m) ==
  /\ status = "running"
  /\ message = None
  /\ message' = m
  /\ valid' = TRUE
  /\ present' = registry

\* The channel handles the message, and may call the user, or does not know it.
Calls(k) == calling' = TRUE /\ reached' = [reached EXCEPT ![k] = @ + 1]
Ignores(k) == calling' = FALSE /\ reached' = [reached EXCEPT ![k] = @ + 1]

\* ChromecastConnection::OnMessage, for a message to one destination.  An unknown
\* address, and a message its channel does not handle, throw.
OnDirected(m) ==
  /\ m.destination # Star
  /\ Begin(m)
  /\ \/ /\ Find(m) = {}
        /\ status' = "unrecognized"
        /\ UNCHANGED <<at, calling, reached>>
     \/ \E k \in Find(m) :
          /\ at' = k
          /\ \/ Calls(k) /\ UNCHANGED status
             \/ Ignores(k) /\ status' = "unhandled"
  /\ UNCHANGED registry

\* The channels a broadcast is for.
Matches(k, m) == k.namespace = m.namespace /\ k.source = m.source

\* Nothing is being delivered any more.
Done ==
  /\ message' = None /\ at' = None /\ valid' = TRUE /\ calling' = FALSE
  /\ reached' = [k \in Keys |-> 0]
  /\ present' = {}

\* A broadcast begins with the first element of the map.
OnBroadcast(m) ==
  /\ m.destination = Star
  /\ registry # {}
  /\ Begin(m)
  /\ at' \in FirstOf(registry)
  /\ UNCHANGED <<registry, calling, reached, status>>

\* The body of the loop, entered once per element.
AtElement == status = "running" /\ message # None /\ message.destination = Star /\ at # None /\ ~calling

\* The iterator moves to the next element, or past the last.
Advance ==
  LET rest == {k \in registry : Less(at, k)} IN
  IF rest = {} THEN at' = None ELSE at' \in FirstOf(rest)

\* The channel is not concerned.
SkipElement ==
  /\ AtElement
  /\ ~Matches(at, message)
  /\ Advance
  /\ UNCHANGED <<registry, message, valid, calling, reached, present, status>>

\* Mutated UnhandledByElement: the loop ends at a channel that does not handle
\* the message.
UnhandledByElementEnds ==
  /\ AtElement
  /\ Matches(at, message)
  /\ Ignores(at)
  /\ at' = None
  /\ UNCHANGED <<registry, message, valid, present, status>>

\* It does not handle the message: a broadcast may be for another client.
UnhandledByElement ==
  /\ AtElement
  /\ Matches(at, message)
  /\ Ignores(at)
  /\ Advance
  /\ UNCHANGED <<registry, message, valid, present, status>>

\* It handles the message.
CallElement ==
  /\ AtElement
  /\ Matches(at, message)
  /\ Calls(at)
  /\ UNCHANGED <<registry, message, at, valid, present, status>>

\* The user's code returns.  After a directed message no more is done, even if the
\* channel is gone, unless the channel then says that it has not handled it; a broadcast
\* increments the iterator, which must not be that of an erased element.
Return ==
  /\ status = "running"
  /\ calling
  /\ \/ /\ message.destination # Star
        /\ Done
        /\ UNCHANGED status
     \/ /\ message.destination # Star
        /\ status' = IF valid THEN "unhandled" ELSE "dangling"
        /\ UNCHANGED <<message, at, valid, calling, reached, present>>
     \/ /\ message.destination = Star
        /\ valid
        /\ calling' = FALSE
        /\ Advance
        /\ UNCHANGED <<message, valid, reached, present, status>>
     \/ /\ message.destination = Star
        /\ ~valid
        /\ status' = "dangling"
        /\ UNCHANGED <<message, at, valid, calling, reached, present>>
  /\ UNCHANGED registry

\* The loop ends.
Finish ==
  /\ status = "running"
  /\ message # None
  /\ at = None
  /\ Done
  /\ UNCHANGED <<registry, status>>

-----------------------------------------------------------------------------

Next ==
  \/ \E k \in Keys : RegisterChannel(k) \/ UnregisterChannel(k)
  \/ \E m \in Addresses : OnDirected(m) \/ OnBroadcast(m)
  \/ SkipElement \/ UnhandledByElement \/ CallElement \/ Return \/ Finish

Spec == Init /\ [][Next]_vars

-----------------------------------------------------------------------------
(* Properties *)

\* The map finds a channel under its own address and nothing under another: the
\* order never takes two addresses for the same, nor one for two.
LookupsAreExact == \A a \in Keys : Find(a) = registry \cap {a}

\* A broadcast that ends has been given once to every channel it is for that was
\* there all the time, whatever channels came and went in between, and to no
\* channel twice.
BroadcastReachesAll ==
  message # None /\ at = None /\ status = "running" =>
    /\ \A k \in present : reached[k] = IF Matches(k, message) THEN 1 ELSE 0
    /\ \A k \in Keys : reached[k] <= 1
=============================================================================
