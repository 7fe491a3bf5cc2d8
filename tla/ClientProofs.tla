----------------------------- MODULE ClientProofs -----------------------------
(***************************************************************************)
(* Proofs about Client: what the receiver hears first, and that packets    *)
(* are read as they were sent.                                             *)
(***************************************************************************)
EXTENDS Client, SequenceTheorems, WellFoundedInduction, TLAPS

Kinds == {"CONNECT", "PING", "PONG", "request", "CLOSE"}

\* Nothing is sent before the connection is ready; once it is, something has been sent,
\* unless it is gone by then.
IInv ==
  /\ wire \in Seq(Kinds)
  /\ phase # "ready" => wire = <<>>
  /\ phase = "ready" /\ wire = <<>> => closed \/ link = "gone"
  /\ ConnectComesFirst

-----------------------------------------------------------------------------

LEMMA MessagesAreSequences ==
  /\ <<>> \in Seq(Kinds)
  /\ \A message \in Kinds : <<message>> \in Seq(Kinds)
OBVIOUS

\* What is sent later does not come first.
LEMMA WritingKeepsTheFirst ==
  ASSUME NEW messages \in Seq(Kinds), IInv, AsyncWrite(messages), phase' = phase,
         closed => closed', link = "gone" => link' = "gone"
  PROVE  IInv'
<1>1. CASE phase' # "ready" \/ closed \/ link = "gone"
  <2>1. wire' = wire
    BY <1>1 DEF AsyncWrite
  <2> QED  BY <2>1, <1>1 DEF IInv, ConnectComesFirst
<1>2. CASE ~(phase' # "ready" \/ closed \/ link = "gone")
  <2>1. wire' = wire \o messages
    BY <1>2 DEF AsyncWrite
  <2>2. wire \in Seq(Kinds) /\ wire # <<>> /\ wire[1] = "CONNECT"
    BY <1>2 DEF IInv, ConnectComesFirst
  <2>3. wire' \in Seq(Kinds) /\ wire' # <<>> /\ wire'[1] = wire[1]
    BY <2>1, <2>2
  <2> QED  BY <2>2, <2>3, <1>2 DEF IInv, ConnectComesFirst
<1> QED  BY <1>1, <1>2

\* A step that sends nothing and does not change the phase.
LEMMA SilenceKeepsTheFirst ==
  ASSUME IInv, UNCHANGED <<wire, phase>>, closed => closed', link = "gone" => link' = "gone"
  PROVE  IInv'
BY DEF IInv, ConnectComesFirst

LEMMA InitIInv == ClientInit => IInv
BY DEF ClientInit, Init, IInv, ConnectComesFirst

-----------------------------------------------------------------------------

LEMMA ConnectingIInv ==
  ASSUME IInv, Connect \/ OnConnectFailed \/ Alone(OnConnectCompleted) \/ OnConnected
  PROVE  IInv'
<1>1. CASE Connect
  <2>1. CASE AsyncConnect
    BY <2>1 DEF AsyncConnect, opening, IInv, ConnectComesFirst
  <2>2. CASE UNCHANGED connection
    BY <2>2, SilenceKeepsTheFirst DEF connection
  <2> QED  BY <1>1, <2>1, <2>2 DEF Connect
<1>2. CASE OnConnectFailed
  <2>1. phase # "ready" /\ phase' # "ready" /\ AsyncWrite(Joining)
    BY <1>2 DEF OnConnectFailed, ConnectFails
  <2>2. wire' = wire /\ wire = <<>>
    BY <2>1 DEF AsyncWrite, IInv
  <2> QED  BY <2>1, <2>2 DEF IInv, ConnectComesFirst
<1>3. CASE Alone(OnConnectCompleted)
  BY <1>3 DEF Alone, OnConnectCompleted, opening, IInv, ConnectComesFirst
<1>4. CASE OnConnected
  <2>1. /\ phase # "ready" /\ phase' = "ready"
        /\ AsyncWrite(SendsConnect \o Joining)
        /\ UNCHANGED <<closed, link>>
    BY <1>4 DEF OnConnected, OnHandshake
  <2>2. wire = <<>>
    BY <2>1 DEF IInv
  <2>3. Joining \in Seq(Kinds)
    BY MessagesAreSequences, "request" \in Kinds DEF Joining, Kinds
  <2>4. CASE closed \/ link = "gone"
    BY <2>1, <2>2, <2>4 DEF AsyncWrite, IInv, ConnectComesFirst
  <2>5. CASE ~(closed \/ link = "gone")
    <3> DEFINE first == SendsConnect \o Joining
    <3>1. first \in Seq(Kinds) /\ first # <<>> /\ first[1] = "CONNECT"
      BY <2>3 DEF SendsConnect, Kinds
    <3>2. wire' = wire \o first
      BY <2>1, <2>5 DEF AsyncWrite
    <3> HIDE DEF first
    <3>3. wire' = first
      BY <3>1, <3>2, <2>2
    <3> QED  BY <3>1, <3>3, <2>1 DEF IInv, ConnectComesFirst
  <2> QED  BY <2>4, <2>5
<1> QED  BY <1>1, <1>2, <1>3, <1>4

LEMMA ReadingIInv ==
  ASSUME IInv, Read \/ \E n \in 0..Len(incoming) : Alone(ReadEndsEarly(n))
  PROVE  IInv'
<1>1. CASE Alone(OnLength)
  BY <1>1, SilenceKeepsTheFirst DEF Alone, OnLength
<1>2. CASE OnPacket
  <2>0. "PONG" \in Kinds
    BY DEF Kinds
  <2>1. PICK messages \in Seq(Kinds), throws \in BOOLEAN : OnData(messages, throws)
    <3>1. CASE Filled = Ping
      <4>1. OnData(<<"PONG">>, FALSE)
        BY <1>2, <3>1 DEF OnPacket
      <4> QED  BY <4>1, <2>0, MessagesAreSequences
    <3>2. CASE Filled # Ping
      <4>1. PICK throws \in BOOLEAN : OnData(<<>>, throws)
        BY <1>2, <3>2 DEF OnPacket
      <4> QED  BY <4>1, MessagesAreSequences
    <3> QED  BY <3>1, <3>2
  <2>2. AsyncWrite(messages) /\ UNCHANGED <<phase, closed, link>>
    BY <2>1 DEF OnData
  <2> QED  BY <2>2, WritingKeepsTheFirst
<1>3. CASE Alone(ReadFails)
  BY <1>3, SilenceKeepsTheFirst DEF Alone, ReadFails, EndsAfter
<1>4. ASSUME NEW n \in 0..Len(incoming), Alone(ReadEndsEarly(n))
      PROVE  IInv'
  BY <1>4, SilenceKeepsTheFirst DEF Alone, ReadEndsEarly, EndsAfter
<1> QED  BY <1>1, <1>2, <1>3, <1>4 DEF Read

LEMMA SendingIInv ==
  ASSUME IInv, Request \/ SendTimer \/ Close \/ ReceiveTimer \/ Alone(WriteCompletes)
  PROVE  IInv'
<1>1. ASSUME NEW message \in Kinds, Send(message)
      PROVE  IInv'
  <2>1. <<message>> \in Seq(Kinds)
    BY <1>1, MessagesAreSequences
  <2>2. AsyncWrite(<<message>>) /\ UNCHANGED <<phase, closed, link>>
    BY <1>1 DEF Send, opening
  <2> QED  BY <2>1, <2>2, WritingKeepsTheFirst
<1>2. CASE Request
  BY <1>2, <1>1 DEF Request, Kinds
<1>3. CASE SendTimer
  BY <1>3, <1>1 DEF SendTimer, Kinds
<1>4. CASE Close
  <2>1. AsyncWrite(SendsClose) /\ phase' = phase /\ link' = link /\ closed'
    BY <1>4 DEF Close, Shutdown
  <2>2. SendsClose \in Seq(Kinds)
    BY DEF SendsClose, Kinds
  <2> QED  BY <2>1, <2>2, WritingKeepsTheFirst
<1>5. CASE ReceiveTimer
  BY <1>5, SilenceKeepsTheFirst DEF ReceiveTimer, Shutdown
<1>6. CASE Alone(WriteCompletes)
  BY <1>6, SilenceKeepsTheFirst DEF Alone, WriteCompletes, opening
<1> QED  BY <1>2, <1>3, <1>4, <1>5, <1>6

LEMMA NextIInv == IInv /\ [Next]_vars => IInv'
<1> SUFFICES ASSUME IInv, [Next]_vars
             PROVE  IInv'
  OBVIOUS
<1>1. CASE Connect \/ OnConnectFailed \/ Alone(OnConnectCompleted) \/ OnConnected
  BY <1>1, ConnectingIInv
<1>2. CASE Read \/ \E n \in 0..Len(incoming) : Alone(ReadEndsEarly(n))
  BY <1>2, ReadingIInv
<1>3. CASE Request \/ SendTimer \/ Close \/ ReceiveTimer \/ Alone(WriteCompletes)
  BY <1>3, SendingIInv
<1>4. CASE Return
  BY <1>4, SilenceKeepsTheFirst DEF Return, opening
<1>5. CASE Receiver
  <2>1. /\ UNCHANGED <<phase, wire, closed>>
        /\ link = "gone" => link' = "gone"
    BY <1>5 DEF Receiver, Alone, ReceiverSends, ReceiverCloses, ReceiverGone
  <2> QED  BY <2>1, SilenceKeepsTheFirst
<1>6. CASE UNCHANGED vars
  BY <1>6, SilenceKeepsTheFirst DEF vars, connection
<1> QED  BY <1>1, <1>2, <1>3, <1>4, <1>5, <1>6 DEF Next, Runs

\* The receiver hears CONNECT before anything else (client.h:40), for any packets, any
\* program and any bounds.
THEOREM ConnectIsHeardFirst == Spec => []ConnectComesFirst
<1>1. IInv => ConnectComesFirst
  BY DEF IInv
<1> QED  BY <1>1, InitIInv, NextIInv, PTL DEF Spec
-----------------------------------------------------------------------------
(* Induction, and functions that are defined by recursion *)

\* The library's theorem takes a predicate as a parameter; this one takes the set of
\* numbers up to n where it holds.
LEMMA Induction ==
  ASSUME NEW n \in Nat, NEW S, 0 \in S, \A k \in 1..n : k - 1 \in S => k \in S
  PROVE  \A k \in 0..n : k \in S
<1> DEFINE less == OpToRel(<, Nat)
           T == {k \in 0..n : k \notin S}
<1> SUFFICES ASSUME T # {} PROVE FALSE
  OBVIOUS
<1>1. IsWellFoundedOn(less, Nat)
  BY NatLessThanWellFounded, Zenon
<1>2. ASSUME NEW k \in T, NEW l \in T, <<k, l>> \notin less
      PROVE  l <= k
  <2>1. k \in Nat /\ l \in Nat
    OBVIOUS
  <2> HIDE DEF T
  <2>2. ~(k < l)
    BY <1>2, <2>1, Zenon DEF OpToRel
  <2> HIDE DEF less
  <2> QED  BY <2>1, <2>2
<1>3. PICK l \in T : \A k \in T : <<k, l>> \notin less
  <2> HIDE DEF less
  <2>1. T \in SUBSET Nat
    OBVIOUS
  <2> HIDE DEF T
  <2> QED  BY <1>1, <2>1, WFMin
<1> HIDE DEF less, T
<1>4. \A k \in T : l <= k
  BY <1>2, <1>3, Zenon
<1>5. l \in 0..n /\ l \notin S /\ l # 0
  BY DEF T
<1>6. l \in 1..n /\ l - 1 \in 0..n /\ ~(l <= l - 1)
  BY <1>5
<1>7. l - 1 \notin T
  BY <1>4, <1>6, Zenon
<1>8. l - 1 \in S
  BY <1>6, <1>7 DEF T
<1> QED  BY <1>5, <1>6, <1>8, Zenon

HasSolution(n, S, c, f) ==
  \E g \in [0..n -> S] : g[0] = c /\ \A k \in 1..n : g[k] = f[k][g[k - 1]]

\* A recursion from c by the steps of f has a solution.
LEMMA Recursion ==
  ASSUME NEW n \in Nat, NEW S, NEW c \in S, NEW f \in [1..n -> [S -> S]]
  PROVE  HasSolution(n, S, c, f)
<1> DEFINE Solves(g, m) == /\ g \in [0..m -> S] /\ g[0] = c
                           /\ \A k \in 1..m : g[k] = f[k][g[k - 1]]
           Solved == {m \in 0..n : \E g : Solves(g, m)}
<1>1. 0 \in Solved
  <2>1. [k \in 0..0 |-> c] \in [0..0 -> S] /\ [k \in 0..0 |-> c][0] = c
    OBVIOUS
  <2>2. Solves([k \in 0..0 |-> c], 0)
    BY <2>1
  <2>3. 0 \in 0..n
    OBVIOUS
  <2> HIDE DEF Solves
  <2> QED  BY <2>2, <2>3, Zenon
<1>2. ASSUME NEW m \in 1..n, m - 1 \in Solved
      PROVE  m \in Solved
  <2>1. PICK g : Solves(g, m - 1)
    BY <1>2
  <2> DEFINE h == [k \in 0..m |-> IF k = m THEN f[m][g[m - 1]] ELSE g[k]]
  <2>2. /\ g \in [0..(m - 1) -> S] /\ g[0] = c
        /\ \A k \in 1..(m - 1) : g[k] = f[k][g[k - 1]]
    BY <2>1
  <2> HIDE DEF Solves, Solved
  <2>3. m - 1 \in 0..(m - 1) /\ 0 \in 0..m /\ 0 # m
    OBVIOUS
  <2>4. g[m - 1] \in S /\ f[m] \in [S -> S]
    BY <2>2, <2>3
  <2>5. ASSUME NEW k \in 0..m
        PROVE  h[k] \in S
    <3>1. CASE k = m
      BY <2>4, <3>1
    <3>2. CASE k # m
      <4>1. k \in 0..(m - 1)
        BY <3>2
      <4> QED  BY <2>2, <3>2, <4>1
    <3> QED  BY <3>1, <3>2
  <2>6. h \in [0..m -> S] /\ h[0] = c
    BY <2>2, <2>3, <2>5
  <2>7. ASSUME NEW k \in 1..m
        PROVE  h[k] = f[k][h[k - 1]]
    <3>1. k - 1 \in 0..m /\ k - 1 # m /\ k \in 0..m
      OBVIOUS
    <3>2. h[k - 1] = g[k - 1]
      BY <3>1
    <3>3. CASE k = m
      BY <3>1, <3>2, <3>3
    <3>4. CASE k # m
      <4>1. k \in 1..(m - 1)
        BY <3>4
      <4> QED  BY <2>2, <3>1, <3>2, <3>4, <4>1
    <3> QED  BY <3>3, <3>4
  <2> HIDE DEF h
  <2>8. Solves(h, m)
    BY <2>6, <2>7 DEF Solves
  <2>9. m \in 0..n
    OBVIOUS
  <2> QED  BY <2>8, <2>9, Zenon DEF Solved
<1> HIDE DEF Solved
<1>3. n \in Solved
  <2>1. \A k \in 0..n : k \in Solved
    BY <1>1, <1>2, Induction
  <2> QED  BY <2>1
<1>4. \E g : Solves(g, n)
  BY <1>3, Zenon DEF Solved
<1> QED  BY <1>4, Zenon DEF HasSolution

\* What satisfies the recursion has its values in S.
LEMMA RecursionStays ==
  ASSUME NEW n \in Nat, NEW S, NEW h, h = [k \in 0..n |-> h[k]], h[0] \in S,
         \A k \in 1..n : h[k - 1] \in S => h[k] \in S
  PROVE  h \in [0..n -> S]
<1> DEFINE T == {k \in 0..n : h[k] \in S}
<1>1. 0 \in T
  OBVIOUS
<1>2. ASSUME NEW k \in 1..n, k - 1 \in T
      PROVE  k \in T
  <2>1. k \in 0..n
    OBVIOUS
  <2> QED  BY <1>2, <2>1
<1>3. \A k \in 0..n : k \in T
  <2> HIDE DEF T
  <2> QED  BY <1>1, <1>2, Induction
<1> QED  BY <1>3

-----------------------------------------------------------------------------
(* The length of a packet is read as it was written *)

LEMMA ShiftedBy ==
  ASSUME NEW n \in Nat
  PROVE  /\ Shifted(n) \in [0..HeaderSize -> Nat] /\ Shifted(n)[0] = n
         /\ \A k \in 1..HeaderSize : Shifted(n)[k] = Shifted(n)[k - 1] \div Base
<1> DEFINE f == [k \in 1..HeaderSize |-> [v \in Nat |-> v \div Base]]
           h == Shifted(n)
<1>0. HeaderSize \in Nat /\ \A v \in Nat : v \div Base \in Nat
  BY ConstantsAssumption
<1>1. f \in [1..HeaderSize -> [Nat -> Nat]]
  BY <1>0
<1>2. PICK g \in [0..HeaderSize -> Nat] :
        g[0] = n /\ \A k \in 1..HeaderSize : g[k] = f[k][g[k - 1]]
  <2> HIDE DEF f
  <2>1. HeaderSize \in Nat
    BY <1>0
  <2>2. HasSolution(HeaderSize, Nat, n, f)
    BY <1>1, <2>1, Recursion, Zenon
  <2> QED  BY <2>2, Zenon DEF HasSolution
<1>3. ASSUME NEW k \in 0..HeaderSize
      PROVE  g[k] = IF k = 0 THEN n ELSE g[k - 1] \div Base
  <2>1. CASE k = 0
    BY <1>2, <2>1
  <2>2. CASE k # 0
    <3>1. k \in 1..HeaderSize /\ k - 1 \in 0..HeaderSize
      BY <1>0, <2>2
    <3>2. g[k] = f[k][g[k - 1]] /\ g[k - 1] \in Nat
      BY <1>2, <3>1
    <3> QED  BY <2>2, <3>1, <3>2
  <2> QED  BY <2>1, <2>2
<1>4. g = [k \in 0..HeaderSize |-> IF k = 0 THEN n ELSE g[k - 1] \div Base]
  BY <1>3
<1>5. h = [k \in 0..HeaderSize |-> IF k = 0 THEN n ELSE h[k - 1] \div Base]
  BY <1>4 DEF Shifted
<1> HIDE DEF h
<1>6. h[0] = n /\ \A k \in 1..HeaderSize : h[k] = h[k - 1] \div Base
  <2>1. \A k \in 0..HeaderSize : h[k] = IF k = 0 THEN n ELSE h[k - 1] \div Base
    BY <1>5
  <2>2. 0 \in 0..HeaderSize /\ \A k \in 1..HeaderSize : k \in 0..HeaderSize /\ k # 0
    BY <1>0
  <2> QED  BY <2>1, <2>2, Zenon
<1>7. h = [k \in 0..HeaderSize |-> h[k]]
  BY <1>5
<1>8. h \in [0..HeaderSize -> Nat]
  <2>1. HeaderSize \in Nat /\ h[0] \in Nat
    BY <1>0, <1>6
  <2>2. \A k \in 1..HeaderSize : h[k - 1] \in Nat => h[k] \in Nat
    BY <1>0, <1>6
  <2> QED  BY <1>7, <2>1, <2>2, RecursionStays
<1> QED  BY <1>6, <1>8 DEF h

LEMMA ValueIs ==
  ASSUME NEW d \in Seq(Bytes)
  PROVE  \E h : /\ h \in [0..Len(d) -> Nat] /\ h[0] = 0 /\ Value(d) = h[Len(d)]
                /\ \A k \in 1..Len(d) : h[k] = h[k - 1] * Base + d[k]
<1> DEFINE f == [k \in 1..Len(d) |-> [v \in Nat |-> v * Base + d[k]]]
           V == CHOOSE h : h = [k \in 0..Len(d) |-> IF k = 0 THEN 0 ELSE h[k - 1] * Base + d[k]]
<1>0. Len(d) \in Nat /\ Base \in Nat /\ \A k \in 1..Len(d) : d[k] \in Nat
  BY ConstantsAssumption DEF Bytes
<1>9. \A v \in Nat, k \in 1..Len(d) : v * Base + d[k] \in Nat
  BY <1>0
<1>1. f \in [1..Len(d) -> [Nat -> Nat]]
  BY <1>9
<1>2. PICK g \in [0..Len(d) -> Nat] :
        g[0] = 0 /\ \A k \in 1..Len(d) : g[k] = f[k][g[k - 1]]
  <2> HIDE DEF f
  <2>1. Len(d) \in Nat /\ 0 \in Nat
    BY <1>0
  <2>2. HasSolution(Len(d), Nat, 0, f)
    BY <1>1, <2>1, Recursion, Zenon
  <2> QED  BY <2>2, Zenon DEF HasSolution
<1>3. ASSUME NEW k \in 0..Len(d)
      PROVE  g[k] = IF k = 0 THEN 0 ELSE g[k - 1] * Base + d[k]
  <2>1. CASE k = 0
    BY <1>2, <2>1
  <2>2. CASE k # 0
    <3>1. k \in 1..Len(d) /\ k - 1 \in 0..Len(d)
      BY <1>0, <2>2
    <3>2. g[k] = f[k][g[k - 1]] /\ g[k - 1] \in Nat
      BY <1>2, <3>1
    <3> QED  BY <2>2, <3>1, <3>2
  <2> QED  BY <2>1, <2>2
<1>4. g = [k \in 0..Len(d) |-> IF k = 0 THEN 0 ELSE g[k - 1] * Base + d[k]]
  BY <1>3
<1>5. V = [k \in 0..Len(d) |-> IF k = 0 THEN 0 ELSE V[k - 1] * Base + d[k]]
  BY <1>4
<1>10. Value(d) = V[Len(d)]
  BY DEF Value
<1> HIDE DEF V
<1>6. V[0] = 0 /\ \A k \in 1..Len(d) : V[k] = V[k - 1] * Base + d[k]
  <2>1. \A k \in 0..Len(d) : V[k] = IF k = 0 THEN 0 ELSE V[k - 1] * Base + d[k]
    BY <1>5
  <2>2. 0 \in 0..Len(d) /\ \A k \in 1..Len(d) : k \in 0..Len(d) /\ k # 0
    BY <1>0
  <2> QED  BY <2>1, <2>2, Zenon
<1>7. V = [k \in 0..Len(d) |-> V[k]]
  BY <1>5
<1>8. V \in [0..Len(d) -> Nat]
  <2>1. V[0] \in Nat
    BY <1>6
  <2>2. \A k \in 1..Len(d) : V[k - 1] \in Nat => V[k] \in Nat
    BY <1>6, <1>9
  <2> QED  BY <1>0, <1>7, <2>1, <2>2, RecursionStays
<1> QED  BY <1>6, <1>8, <1>10, Zenon

LEMMA Division ==
  ASSUME NEW v \in Nat
  PROVE  /\ v \div Base \in Nat /\ v % Base \in Bytes
         /\ (v \div Base) * Base + (v % Base) = v
BY ConstantsAssumption DEF Bytes

LEMMA DigitsAreBytes ==
  ASSUME NEW n \in Nat
  PROVE  /\ Digits(n) \in Seq(Bytes) /\ Len(Digits(n)) = HeaderSize
         /\ \A i \in 1..HeaderSize : Digits(n)[i] = Shifted(n)[HeaderSize - i] % Base
<1> DEFINE q == Shifted(n)
<1>0. HeaderSize \in Nat
  BY ConstantsAssumption
<1>1. q \in [0..HeaderSize -> Nat]
  BY ShiftedBy, Zenon
<1> HIDE DEF q
<1>2. \A i \in 1..HeaderSize : q[HeaderSize - i] % Base \in Bytes
  <2> TAKE i \in 1..HeaderSize
  <2>1. HeaderSize - i \in 0..HeaderSize
    BY <1>0
  <2>2. q[HeaderSize - i] \in Nat
    BY <1>1, <2>1, Zenon
  <2> QED  BY <2>2, Division, Zenon
<1> DEFINE d == [i \in 1..HeaderSize |-> q[HeaderSize - i] % Base]
<1>3. d \in Seq(Bytes) /\ Len(d) = HeaderSize
  BY <1>0, <1>2
<1>4. \A i \in 1..HeaderSize : d[i] = q[HeaderSize - i] % Base
  OBVIOUS
<1>5. Digits(n) = d
  BY Zenon DEF Digits, q
<1> HIDE DEF d
<1> QED  BY <1>3, <1>4, <1>5, Zenon DEF q

\* What the receiver writes as the length is read as that length.
LEMMA LengthsAreRead ==
  ASSUME NEW n \in Nat, Shifted(n)[HeaderSize] = 0
  PROVE  Value(Digits(n)) = n
<1> DEFINE q == Shifted(n)
           d == Digits(n)
<1>0. HeaderSize \in Nat
  BY ConstantsAssumption
<1>1. /\ q \in [0..HeaderSize -> Nat] /\ q[0] = n /\ q[HeaderSize] = 0
      /\ \A k \in 1..HeaderSize : q[k] = q[k - 1] \div Base
  BY ShiftedBy, Zenon
<1>2. /\ d \in Seq(Bytes) /\ Len(d) = HeaderSize
      /\ \A i \in 1..HeaderSize : d[i] = q[HeaderSize - i] % Base
  BY DigitsAreBytes, Zenon
<1>3. PICK h : /\ h \in [0..HeaderSize -> Nat] /\ h[0] = 0 /\ Value(d) = h[HeaderSize]
               /\ \A k \in 1..HeaderSize : h[k] = h[k - 1] * Base + d[k]
  <2> HIDE DEF d
  <2>1. \E h : /\ h \in [0..Len(d) -> Nat] /\ h[0] = 0 /\ Value(d) = h[Len(d)]
               /\ \A k \in 1..Len(d) : h[k] = h[k - 1] * Base + d[k]
    BY <1>2, ValueIs, Zenon
  <2> QED  BY <1>2, <2>1
<1> HIDE DEF q, d
<1> DEFINE S == {k \in 0..HeaderSize : h[k] = q[HeaderSize - k]}
<1>4. 0 \in S
  <2>1. HeaderSize - 0 = HeaderSize /\ 0 \in 0..HeaderSize
    BY <1>0
  <2> QED  BY <1>1, <1>3, <2>1
<1>5. ASSUME NEW k \in 1..HeaderSize, k - 1 \in S
      PROVE  k \in S
  <2> DEFINE v == q[HeaderSize - k]
  <2>1. /\ k \in 0..HeaderSize /\ HeaderSize - k \in 0..HeaderSize
        /\ HeaderSize - (k - 1) \in 1..HeaderSize
        /\ (HeaderSize - (k - 1)) - 1 = HeaderSize - k
    BY <1>0
  <2>2. h[k - 1] = q[HeaderSize - (k - 1)]
    BY <1>5
  <2>3. h[k] = h[k - 1] * Base + d[k] /\ d[k] = v % Base
    BY <1>2, <1>3
  <2> HIDE DEF S
  <2>4. v \in Nat /\ q[HeaderSize - (k - 1)] = v \div Base
    BY <1>1, <2>1
  <2> HIDE DEF v
  <2>5. (v \div Base) * Base + (v % Base) = v
    BY <2>4, Division, Zenon
  <2>6. h[k] = v
    BY <2>2, <2>3, <2>4, <2>5, Zenon
  <2> QED  BY <2>1, <2>6, Zenon DEF S, v
<1>6. HeaderSize \in S
  <2> HIDE DEF S
  <2>1. \A k \in 0..HeaderSize : k \in S
    BY <1>0, <1>4, <1>5, Induction
  <2>2. HeaderSize \in 0..HeaderSize
    BY <1>0
  <2> QED  BY <2>1, <2>2, Zenon
<1>7. h[HeaderSize] = q[0]
  <2>1. HeaderSize - HeaderSize = 0
    BY <1>0
  <2> QED  BY <1>6, <2>1
<1> QED  BY <1>1, <1>3, <1>7, Zenon DEF d

-----------------------------------------------------------------------------
(* The bytes of the packets that are still to come *)

Associates(s, t, u) == (s \o t) \o u = s \o (t \o u)

LEMMA Associative ==
  ASSUME NEW s \in Seq(Bytes), NEW t \in Seq(Bytes), NEW u \in Seq(Bytes)
  PROVE  Associates(s, t, u)
<1>1. (s \o t) \o u = s \o (t \o u)
  BY ConcatAssociative, SMTT(30)
<1> QED BY <1>1 DEF Associates

LEMMA PacketsAreBytes ==
  ASSUME NEW b \in Bodies
  PROVE  /\ Len(b) \in Nat \ {0} /\ b \in Seq(Bytes) /\ Shifted(Len(b))[HeaderSize] = 0
         /\ Digits(Len(b)) \in Seq(Bytes) /\ Len(Digits(Len(b))) = HeaderSize
         /\ Packet(b) \in Seq(Bytes) /\ Packet(b) = Digits(Len(b)) \o b
<1>1. b \in Seq(Bytes) /\ Len(b) \in Nat /\ Len(b) > 0 /\ Shifted(Len(b))[HeaderSize] = 0
  <2>1. b \in Seq(Bytes) /\ Len(b) > 0 /\ Shifted(Len(b))[HeaderSize] = 0
    BY ConstantsAssumption, Zenon
  <2> QED  BY <2>1, LenProperties, Zenon
<1>2. Digits(Len(b)) \in Seq(Bytes) /\ Len(Digits(Len(b))) = HeaderSize
  BY <1>1, DigitsAreBytes, Zenon
<1>3. Packet(b) \in Seq(Bytes)
  BY <1>1, <1>2, ConcatProperties, Zenon DEF Packet
<1>4. Len(b) \in Nat \ {0}
  BY <1>1
<1> QED  BY <1>1, <1>2, <1>3, <1>4, Zenon DEF Packet

LEMMA StreamOf ==
  ASSUME NEW s \in Seq(Bodies)
  PROVE  /\ Stream(s) \in [0..Len(s) -> Seq(Bytes)] /\ Stream(s)[0] = <<>>
         /\ \A n \in 1..Len(s) : Stream(s)[n] = Packet(s[Len(s) + 1 - n]) \o Stream(s)[n - 1]
<1> DEFINE N == Len(s)
           f == [n \in 1..N |-> [r \in Seq(Bytes) |-> Packet(s[N + 1 - n]) \o r]]
           h == Stream(s)
<1>0. N \in Nat /\ \A n \in 1..N : s[n] \in Bodies
  BY LenProperties, ElementOfSeq, Zenon
<1>9. \A n \in 1..N : N + 1 - n \in 1..N /\ n - 1 \in 0..N /\ n \in 0..N /\ n # 0
  BY <1>0
<1>10. \A n \in 1..N : Packet(s[N + 1 - n]) \in Seq(Bytes)
  BY <1>0, <1>9, PacketsAreBytes, Zenon
<1>11. \A n \in 1..N, r \in Seq(Bytes) : Packet(s[N + 1 - n]) \o r \in Seq(Bytes)
  BY <1>10, ConcatProperties, Zenon
<1> HIDE DEF N
<1>1. f \in [1..N -> [Seq(Bytes) -> Seq(Bytes)]]
  BY <1>11
<1>2. PICK g \in [0..N -> Seq(Bytes)] : g[0] = <<>> /\ \A n \in 1..N : g[n] = f[n][g[n - 1]]
  <2> HIDE DEF f
  <2>1. <<>> \in Seq(Bytes)
    BY EmptySeq, Zenon
  <2>2. HasSolution(N, Seq(Bytes), <<>>, f)
    BY <1>0, <1>1, <2>1, Recursion, Zenon
  <2> QED  BY <2>2, Zenon DEF HasSolution
<1>3. ASSUME NEW n \in 0..N
      PROVE  g[n] = IF n = 0 THEN <<>> ELSE Packet(s[N + 1 - n]) \o g[n - 1]
  <2>1. CASE n = 0
    BY <1>2, <2>1
  <2>2. CASE n # 0
    <3>1. n \in 1..N /\ n - 1 \in 0..N
      BY <1>0, <2>2
    <3>2. g[n] = f[n][g[n - 1]] /\ g[n - 1] \in Seq(Bytes)
      BY <1>2, <3>1
    <3>3. f[n][g[n - 1]] = Packet(s[N + 1 - n]) \o g[n - 1]
      BY <3>1, <3>2, Zenon
    <3> QED  BY <2>2, <3>2, <3>3, Zenon
  <2> QED  BY <2>1, <2>2
<1> HIDE DEF f
<1>4. g = [n \in 0..N |-> IF n = 0 THEN <<>> ELSE Packet(s[N + 1 - n]) \o g[n - 1]]
  <2> DEFINE E(n) == IF n = 0 THEN <<>> ELSE Packet(s[N + 1 - n]) \o g[n - 1]
  <2>1. \A n \in 0..N : g[n] = E(n)
    BY <1>3, Zenon
  <2> HIDE DEF E
  <2>2. g = [n \in 0..N |-> E(n)]
    BY <2>1
  <2> QED  BY <2>2, Zenon DEF E
<1>5. h = [n \in 0..N |-> IF n = 0 THEN <<>> ELSE Packet(s[N + 1 - n]) \o h[n - 1]]
  BY <1>4, Zenon DEF Stream, N
<1> HIDE DEF h
<1>6. h[0] = <<>> /\ \A n \in 1..N : h[n] = Packet(s[N + 1 - n]) \o h[n - 1]
  <2>1. \A n \in 0..N : h[n] = IF n = 0 THEN <<>> ELSE Packet(s[N + 1 - n]) \o h[n - 1]
    BY <1>5
  <2>2. 0 \in 0..N
    BY <1>0
  <2> QED  BY <1>9, <2>1, <2>2, Zenon
<1>7. h = [n \in 0..N |-> h[n]]
  BY <1>5
<1>8. h \in [0..N -> Seq(Bytes)]
  <2>1. h[0] \in Seq(Bytes)
    BY <1>6, EmptySeq, Zenon
  <2>2. \A n \in 1..N : h[n - 1] \in Seq(Bytes) => h[n] \in Seq(Bytes)
    BY <1>6, <1>11, Zenon
  <2> QED  BY <1>0, <1>7, <2>1, <2>2, RecursionStays
<1> QED  BY <1>6, <1>8, Zenon DEF h, N

\* A packet that is sent comes after those that are still to come.
LEMMA StreamGrows ==
  ASSUME NEW s \in Seq(Bodies), NEW b \in Bodies, NEW n \in 0..Len(s)
  PROVE  Stream(Append(s, b))[n + 1] = Stream(s)[n] \o Packet(b)
<1> DEFINE t == Append(s, b)
           N == Len(s)
           g == Stream(s)
           h == Stream(t)
           P == Packet(b)
<1>0. /\ t \in Seq(Bodies) /\ N \in Nat /\ Len(t) = N + 1 /\ t[N + 1] = b
      /\ \A k \in 1..N : t[k] = s[k] /\ s[k] \in Bodies
  <2>1. t \in Seq(Bodies) /\ Len(t) = N + 1 /\ t[N + 1] = b /\ \A k \in 1..N : t[k] = s[k]
    OBVIOUS
  <2> QED  BY <2>1, LenProperties, ElementOfSeq, Zenon
<1>1. /\ g \in [0..N -> Seq(Bytes)] /\ g[0] = <<>>
      /\ \A k \in 1..N : g[k] = Packet(s[N + 1 - k]) \o g[k - 1]
  BY StreamOf, Zenon
<1>2. /\ h \in [0..(N + 1) -> Seq(Bytes)] /\ h[0] = <<>>
      /\ \A k \in 1..(N + 1) : h[k] = Packet(t[(N + 1) + 1 - k]) \o h[k - 1]
  <2> HIDE DEF t, N
  <2>1. /\ h \in [0..Len(t) -> Seq(Bytes)] /\ h[0] = <<>>
        /\ \A k \in 1..Len(t) : h[k] = Packet(t[Len(t) + 1 - k]) \o h[k - 1]
    BY <1>0, StreamOf, Zenon
  <2> HIDE DEF h
  <2>2. Len(t) = N + 1
    BY <1>0
  <2> QED  BY <2>1, <2>2
<1>3. P \in Seq(Bytes) /\ \A k \in 1..N : Packet(s[k]) \in Seq(Bytes)
  BY <1>0, PacketsAreBytes, Zenon
<1> HIDE DEF t, g, h, P
<1> DEFINE S == {k \in 0..N : h[k + 1] = g[k] \o P}
<1>4. 0 \in S
  <2>1. 0 \in 0..N /\ 1 \in 1..(N + 1) /\ (N + 1) + 1 - 1 = N + 1 /\ 1 - 1 = 0 /\ 0 + 1 = 1
    BY <1>0
  <2>2. h[1] = Packet(t[N + 1]) \o h[0]
    BY <1>2, <2>1
  <2>3. h[1] = P \o <<>>
    BY <1>0, <1>2, <2>2, Zenon DEF P
  <2>4. P \o <<>> = <<>> \o P
    BY <1>3, ConcatEmptySeq, Zenon
  <2>5. h[0 + 1] = g[0] \o P
    BY <1>1, <2>1, <2>3, <2>4, Zenon
  <2> QED  BY <2>1, <2>5, Zenon
<1>5. ASSUME NEW k \in 1..N, k - 1 \in S
      PROVE  k \in S
  <2> DEFINE Q == Packet(s[N + 1 - k])
  <2>1. /\ k \in 0..N /\ k - 1 \in 0..N /\ k + 1 \in 1..(N + 1) /\ (k - 1) + 1 = k /\ (k + 1) - 1 = k
        /\ (N + 1) + 1 - (k + 1) = N + 1 - k /\ N + 1 - k \in 1..N
    BY <1>0
  <2>2. h[(k - 1) + 1] = g[k - 1] \o P
    BY <1>5
  <2> HIDE DEF S
  <2>3. h[k + 1] = Packet(t[(N + 1) + 1 - (k + 1)]) \o h[(k + 1) - 1]
    BY <1>2, <2>1, Zenon
  <2>4. h[k + 1] = Q \o h[k]
    BY <1>0, <2>1, <2>3, Zenon
  <2>5. h[k] = g[k - 1] \o P
    BY <2>1, <2>2, Zenon
  <2>6. Q \in Seq(Bytes) /\ g[k - 1] \in Seq(Bytes)
    BY <1>1, <1>3, <2>1, Zenon
  <2>7. g[k] = Q \o g[k - 1]
    BY <1>1
  <2> HIDE DEF Q
  <2>8. (Q \o g[k - 1]) \o P = Q \o (g[k - 1] \o P)
    <3> DEFINE r == g[k - 1]
    <3>1. Q \in Seq(Bytes) /\ r \in Seq(Bytes) /\ P \in Seq(Bytes)
      BY <1>3, <2>6, Zenon
    <3> HIDE DEF r
    <3>2. (Q \o r) \o P = Q \o (r \o P)
      <4>1. Associates(Q, r, P)
        BY <3>1, Associative, Zenon
      <4> QED  BY <4>1, Zenon DEF Associates
    <3> QED  BY <3>2, Zenon DEF r
  <2>9. h[k + 1] = g[k] \o P
    BY <2>4, <2>5, <2>7, <2>8, Zenon
  <2> QED  BY <2>1, <2>9, Zenon DEF S
<1>6. n \in S
  <2> HIDE DEF S
  <2> QED  BY <1>0, <1>4, <1>5, Induction
<1> QED  BY <1>6, Zenon DEF S, g, h, t, P, N

-----------------------------------------------------------------------------
(* Taking bytes from what has arrived *)

LEMMA Cancel ==
  ASSUME NEW a \in Seq(Bytes), NEW b \in Seq(Bytes), NEW c \in Seq(Bytes), NEW d \in Seq(Bytes),
         a \o b = c \o d, Len(a) = Len(c)
  PROVE  a = c /\ b = d
<1>1. \A i \in 1..Len(a) : a[i] = c[i]
  <2> TAKE i \in 1..Len(a)
  <2>1. (a \o b)[i] = a[i] /\ (c \o d)[i] = c[i]
    OBVIOUS
  <2> QED  BY <2>1
<1>2. a = c
  BY <1>1, SeqEqual
<1>3. \A s, t, v \in Seq(Bytes) : s \o t = s \o v => t = v
  BY ConcatSimplifications, Zenon
<1> QED  BY <1>2, <1>3, Zenon

LEMMA SplitsAt ==
  ASSUME NEW r \in Seq(Bytes), NEW n \in 0..Len(r)
  PROVE  /\ SubSeq(r, 1, n) \in Seq(Bytes) /\ Len(SubSeq(r, 1, n)) = n
         /\ SubSeq(r, n + 1, Len(r)) \in Seq(Bytes)
         /\ SubSeq(r, 1, n) \o SubSeq(r, n + 1, Len(r)) = r
<1>1. SubSeq(r, 1, n) \in Seq(Bytes) /\ Len(SubSeq(r, 1, n)) = n
  OBVIOUS
<1>2. SubSeq(r, n + 1, Len(r)) \in Seq(Bytes)
  OBVIOUS
<1>3. 1 \in 1..Len(r) + 1 /\ n \in 1 - 1..Len(r) /\ Len(r) \in n..Len(r)
  OBVIOUS
<1>4. SubSeq(r, 1, n) \o SubSeq(r, n + 1, Len(r)) = SubSeq(r, 1, Len(r))
  BY <1>3, ConcatAdjacentSubSeq
<1>5. SubSeq(r, 1, Len(r)) = r
  BY SubSeqFull
<1> QED  BY <1>1, <1>2, <1>4, <1>5, Zenon

\* Moving n bytes from the front of r to the end of s.
LEMMA Moves ==
  ASSUME NEW s \in Seq(Bytes), NEW r \in Seq(Bytes), NEW n \in 0..Len(r)
  PROVE  LET t == s \o SubSeq(r, 1, n)
             u == SubSeq(r, n + 1, Len(r))
         IN  /\ t \in Seq(Bytes) /\ Len(t) = Len(s) + n /\ u \in Seq(Bytes)
             /\ t \o u = s \o r
<1> DEFINE a == SubSeq(r, 1, n)
           u == SubSeq(r, n + 1, Len(r))
<1>1. a \in Seq(Bytes) /\ Len(a) = n /\ u \in Seq(Bytes) /\ a \o u = r
  BY SplitsAt, Zenon
<1> HIDE DEF a, u
<1>2. s \o a \in Seq(Bytes) /\ Len(s \o a) = Len(s) + Len(a)
  BY <1>1, ConcatProperties, Zenon
<1>3. (s \o a) \o u = s \o (a \o u)
  <2>1. Associates(s, a, u)
    BY <1>1, Associative, Zenon
  <2> QED  BY <2>1, Zenon DEF Associates
<1> QED  BY <1>1, <1>2, <1>3, Zenon DEF a, u

-----------------------------------------------------------------------------
(* Framing *)

\* What is still to be read, but for the part of it that is in the buffer.
Unread ==
  LET after == Len(sent) - Len(delivered)
  IN  IF part = "data" THEN sent[Len(delivered) + 1] \o Stream(sent)[after - 1] ELSE Stream(sent)[after]

Typed ==
  /\ part \in {"none", "length", "data"}
  /\ buffer \in Seq(Bytes) /\ remaining \in Nat
  /\ sent \in Seq(Bodies) /\ incoming \in Seq(Bytes) /\ delivered \in Seq(Seq(Bytes))

\* A read asks for the rest of a length, or of the packet that comes next.
Asks ==
  /\ part # "none" => phase = "ready" /\ remaining > 0
  /\ part = "length" => Len(buffer) + remaining = HeaderSize
  /\ part = "data" =>
       /\ Len(delivered) < Len(sent)
       /\ Len(buffer) + remaining = Len(sent[Len(delivered) + 1])

\* Nothing comes before the connection is ready or after it is gone.
Comes ==
  /\ phase # "ready" => part = "none" /\ sent = <<>> /\ incoming = <<>> /\ delivered = <<>>
  /\ link = "gone" => incoming = <<>>

Delivers ==
  /\ Len(delivered) <= Len(sent)
  /\ \A i \in 1..Len(delivered) : delivered[i] = sent[i]

Framed ==
  /\ Typed /\ Asks /\ Comes /\ Delivers
  /\ link # "gone" /\ part # "none" => buffer \o incoming = Unread

LEMMA NextPacket ==
  ASSUME Typed, Len(delivered) < Len(sent)
  PROVE  LET p == sent[Len(delivered) + 1]
             after == Len(sent) - Len(delivered)
             rest == Stream(sent)[after - 1]
         IN  /\ p \in Bodies /\ p \in Seq(Bytes) /\ rest \in Seq(Bytes)
             /\ Stream(sent)[after] = Packet(p) \o rest
             /\ Digits(Len(p)) \in Seq(Bytes) /\ Packet(p) = Digits(Len(p)) \o p
<1> DEFINE s == sent
           after == Len(s) - Len(delivered)
           p == s[Len(delivered) + 1]
           rest == Stream(s)[after - 1]
<1>1. s \in Seq(Bodies) /\ Len(s) \in Nat /\ Len(delivered) \in Nat
  BY DEF Typed
<1>2. /\ after \in 1..Len(s) /\ after - 1 \in 0..Len(s)
      /\ Len(s) + 1 - after = Len(delivered) + 1 /\ Len(delivered) + 1 \in 1..Len(s)
  BY <1>1
<1> HIDE DEF s
<1>3. p \in Bodies
  BY <1>1, <1>2, ElementOfSeq, Zenon
<1>4. /\ Stream(s) \in [0..Len(s) -> Seq(Bytes)]
      /\ \A n \in 1..Len(s) : Stream(s)[n] = Packet(s[Len(s) + 1 - n]) \o Stream(s)[n - 1]
  BY <1>1, StreamOf, Zenon
<1> HIDE DEF after
<1>5. rest \in Seq(Bytes) /\ Stream(s)[after] = Packet(p) \o rest
  BY <1>2, <1>4, Zenon
<1> HIDE DEF p, rest
<1>6. p \in Seq(Bytes) /\ Digits(Len(p)) \in Seq(Bytes) /\ Packet(p) = Digits(Len(p)) \o p
  BY <1>3, PacketsAreBytes, Zenon
<1> QED  BY <1>3, <1>5, <1>6, Zenon DEF s, after, p, rest

LEMMA DeliversInOrder ==
  ASSUME Typed
  PROVE  IsPrefix(delivered, sent) <=> Delivers
<1>1. Len(delivered) \in Nat /\ Len(sent) \in Nat
  BY DEF Typed
<1>2. Len(delivered) <= Len(sent) =>
        (SubSeq(delivered, 1, Len(delivered)) = SubSeq(sent, 1, Len(delivered))
           <=> \A i \in 1..Len(delivered) : delivered[i] = sent[i])
  <2> DEFINE s == SubSeq(delivered, 1, Len(delivered))
             t == SubSeq(sent, 1, Len(delivered))
  <2>1. s = [i \in 1..Len(delivered) |-> delivered[i]] /\ t = [i \in 1..Len(delivered) |-> sent[i]]
    BY <1>1
  <2> HIDE DEF s, t
  <2>2. /\ \A i \in 1..Len(delivered) : s[i] = delivered[i] /\ t[i] = sent[i]
        /\ s = [i \in 1..Len(delivered) |-> s[i]] /\ t = [i \in 1..Len(delivered) |-> t[i]]
    BY <2>1
  <2>3. s = t <=> \A i \in 1..Len(delivered) : delivered[i] = sent[i]
    BY <2>1, <2>2
  <2> QED  BY <2>3, Zenon DEF s, t
<1> QED  BY <1>1, <1>2, Zenon DEF IsPrefix, Delivers

LEMMA FramedIsExact == Framed => FramingIsExact
<1> SUFFICES ASSUME Framed PROVE FramingIsExact
  OBVIOUS
<1>0. Typed /\ Asks /\ Delivers
  BY DEF Framed
<1>1. IsPrefix(delivered, sent)
  BY <1>0, DeliversInOrder, Zenon
<1> DEFINE header == IF part = "data" THEN Digits(Len(buffer) + remaining) ELSE <<>>
           after == Len(sent) - Len(delivered)
<1>2. ASSUME link # "gone", part # "none"
      PROVE  (header \o buffer) \o incoming = Stream(sent)[after]
  <2>0. buffer \in Seq(Bytes) /\ incoming \in Seq(Bytes) /\ buffer \o incoming = Unread
    BY <1>2 DEF Framed, Typed
  <2>1. CASE part = "data"
    <3> DEFINE p == sent[Len(delivered) + 1]
               rest == Stream(sent)[after - 1]
    <3>1. header = Digits(Len(p)) /\ Len(delivered) < Len(sent)
      BY <1>0, <2>1 DEF Asks
    <3>2. /\ p \in Seq(Bytes) /\ rest \in Seq(Bytes) /\ header \in Seq(Bytes)
          /\ Stream(sent)[after] = (header \o p) \o rest
      BY <1>0, <3>1, NextPacket
    <3>3. buffer \o incoming = p \o rest
      BY <2>0, <2>1 DEF Unread
    <3> HIDE DEF header, p, rest
    <3>4. (header \o buffer) \o incoming = header \o (buffer \o incoming)
      <4>1. Associates(header, buffer, incoming)
        BY <2>0, <3>2, Associative, Zenon
      <4> QED  BY <4>1, Zenon DEF Associates
    <3>5. (header \o p) \o rest = header \o (p \o rest)
      <4>1. Associates(header, p, rest)
        BY <3>2, Associative, Zenon
      <4> QED  BY <4>1, Zenon DEF Associates
    <3> QED  BY <3>2, <3>3, <3>4, <3>5, Zenon
  <2>2. CASE part # "data"
    <3>1. header = <<>>
      BY <2>2
    <3>2. buffer \o incoming = Stream(sent)[after]
      BY <2>0, <2>2 DEF Unread
    <3> HIDE DEF header
    <3>3. <<>> \o buffer = buffer
      BY <2>0, ConcatEmptySeq, Zenon
    <3> QED  BY <3>1, <3>2, <3>3, Zenon
  <2> QED  BY <2>1, <2>2
<1> QED  BY <1>1, <1>2, Zenon DEF FramingIsExact

LEMMA StillFramed ==
  ASSUME Framed, UNCHANGED <<reader, sent, incoming>>,
         phase' = "ready" <=> phase = "ready", link' = "gone" <=> link = "gone"
  PROVE  Framed'
<1>1. UNCHANGED <<part, buffer, remaining, delivered, sent, incoming>>
  BY DEF reader
<1>2. Typed' /\ Asks' /\ Comes' /\ Delivers'
  BY <1>1 DEF Framed, Typed, Asks, Comes, Delivers
<1>3. Unread' = Unread
  BY <1>1 DEF Unread
<1>4. (link # "gone" /\ part # "none" => buffer \o incoming = Unread)'
  BY <1>1, <1>3 DEF Framed
<1> QED  BY <1>2, <1>4, Zenon DEF Framed

\* A read that ends early goes on with the next byte.
LEMMA FramedWhenResumed ==
  ASSUME Framed, NEW n \in 0..Len(incoming), Reading, n < remaining, Resume(n),
         incoming' = SubSeq(incoming, n + 1, Len(incoming)),
         UNCHANGED <<phase, part, sent, delivered, link>>
  PROVE  Framed'
<1>0. /\ Typed /\ Asks /\ Comes /\ Delivers /\ part # "none"
      /\ buffer \in Seq(Bytes) /\ incoming \in Seq(Bytes) /\ remaining \in Nat /\ n \in Nat
  BY DEF Framed, Typed, Reading
<1>1. /\ buffer' \in Seq(Bytes) /\ Len(buffer') = Len(buffer) + n /\ incoming' \in Seq(Bytes)
      /\ buffer' \o incoming' = buffer \o incoming
  BY <1>0, Moves DEF Resume
<1>2. /\ remaining' = remaining - n /\ remaining' \in Nat /\ remaining' > 0
      /\ Len(buffer') + remaining' = Len(buffer) + remaining
  <2>1. Len(buffer) \in Nat /\ remaining' = remaining - n
    BY <1>0 DEF Resume
  <2> QED  BY <1>0, <1>1, <2>1
<1>3. incoming = <<>> => incoming' = <<>>
  <2> SUFFICES ASSUME incoming = <<>> PROVE incoming' = <<>>
    OBVIOUS
  <2>1. Len(incoming) = 0 /\ n = 0
    OBVIOUS
  <2> QED  BY <2>1
<1>4. Typed'
  BY <1>0, <1>1, <1>2 DEF Typed
<1>5. Asks'
  BY <1>0, <1>2 DEF Asks
<1>6. Comes'
  BY <1>0, <1>3 DEF Comes
<1>7. Delivers'
  BY <1>0 DEF Delivers
<1>8. (link # "gone" /\ part # "none" => buffer \o incoming = Unread)'
  <2>1. Unread' = Unread
    BY DEF Unread
  <2> QED  BY <1>1, <2>1 DEF Framed
<1> QED  BY <1>4, <1>5, <1>6, <1>7, <1>8, Zenon DEF Framed

\* What a read that completes was asked for, and what it leaves.
LEMMA TakesWhatItAsks ==
  ASSUME Framed, Arrived
  PROVE  /\ link # "gone" /\ part # "none"
         /\ Filled \in Seq(Bytes) /\ Len(Filled) = Len(buffer) + remaining
         /\ incoming' \in Seq(Bytes) /\ Filled \o incoming' = Unread
<1>0. /\ part # "none" /\ remaining \in Nat /\ remaining > 0
      /\ buffer \in Seq(Bytes) /\ incoming \in Seq(Bytes) /\ Len(incoming) \in Nat
      /\ Len(incoming) >= remaining /\ incoming' = SubSeq(incoming, remaining + 1, Len(incoming))
  BY DEF Framed, Typed, Asks, Arrived, HasArrived, Reading
<1>1. link # "gone"
  <2>1. incoming # <<>>
    BY <1>0
  <2> QED  BY <2>1 DEF Framed, Comes
<1>2. remaining \in 0..Len(incoming)
  BY <1>0
<1>3. /\ Filled \in Seq(Bytes) /\ Len(Filled) = Len(buffer) + remaining
      /\ incoming' \in Seq(Bytes) /\ Filled \o incoming' = buffer \o incoming
  BY <1>0, <1>2, Moves DEF Filled
<1> QED  BY <1>0, <1>1, <1>3 DEF Framed

LEMMA FramedOnLength ==
  ASSUME Framed, OnLength
  PROVE  Framed'
<1> DEFINE p == sent[Len(delivered) + 1]
           after == Len(sent) - Len(delivered)
           rest == Stream(sent)[after - 1]
<1>0. /\ Typed /\ Asks /\ Comes /\ Delivers /\ Arrived /\ part = "length"
      /\ part' = "data" /\ buffer' = <<>> /\ remaining' = Value(Filled)
      /\ UNCHANGED <<phase, sent, delivered, link>>
  BY DEF Framed, OnLength, StartReading
<1>1. /\ link # "gone" /\ phase = "ready"
      /\ Filled \in Seq(Bytes) /\ Len(Filled) = HeaderSize
      /\ incoming' \in Seq(Bytes) /\ Filled \o incoming' = Stream(sent)[after]
  <2>1. Unread = Stream(sent)[after]
    BY <1>0 DEF Unread
  <2>2. Len(buffer) + remaining = HeaderSize /\ phase = "ready"
    BY <1>0 DEF Asks
  <2> QED  BY <1>0, <2>1, <2>2, TakesWhatItAsks
<1>2. Len(delivered) < Len(sent)
  <2>1. Len(delivered) \in Nat /\ Len(sent) \in Nat /\ Len(delivered) <= Len(sent)
    BY <1>0 DEF Typed, Delivers
  <2>2. Len(Filled \o incoming') > 0
    <3>1. HeaderSize \in Nat /\ HeaderSize > 0
      BY ConstantsAssumption
    <3>2. Len(Filled \o incoming') = Len(Filled) + Len(incoming') /\ Len(incoming') \in Nat
      BY <1>1, ConcatProperties, LenProperties, Zenon
    <3> QED  BY <1>1, <3>1, <3>2
  <2>3. CASE Len(delivered) = Len(sent)
    <3>1. after = 0
      BY <2>1, <2>3
    <3>2. Stream(sent)[0] = <<>>
      BY <1>0, StreamOf DEF Typed
    <3> HIDE DEF after
    <3>3. Filled \o incoming' = <<>>
      BY <1>1, <3>1, <3>2, Zenon
    <3> QED  BY <2>2, <3>3
  <2> QED  BY <2>1, <2>3
<1>3. /\ p \in Bodies /\ p \in Seq(Bytes) /\ rest \in Seq(Bytes) /\ Digits(Len(p)) \in Seq(Bytes)
      /\ Stream(sent)[after] = (Digits(Len(p)) \o p) \o rest
  BY <1>0, <1>2, NextPacket
<1> HIDE DEF p, after, rest
<1>4. /\ Len(p) \in Nat \ {0} /\ Len(Digits(Len(p))) = HeaderSize
      /\ Value(Digits(Len(p))) = Len(p)
  <2>1. Len(p) \in Nat \ {0} /\ Len(Digits(Len(p))) = HeaderSize /\ Shifted(Len(p))[HeaderSize] = 0
    BY <1>3, PacketsAreBytes, Zenon
  <2>2. Len(p) \in Nat
    BY <2>1
  <2> QED  BY <2>1, <2>2, LengthsAreRead, Zenon
<1>5. Filled = Digits(Len(p)) /\ incoming' = p \o rest
  <2> DEFINE d == Digits(Len(p))
             r == p \o rest
             i == incoming'
             b == Filled
  <2>1. d \in Seq(Bytes) /\ r \in Seq(Bytes) /\ b \in Seq(Bytes) /\ i \in Seq(Bytes)
    BY <1>1, <1>3, ConcatProperties, Zenon
  <2>2. (d \o p) \o rest = d \o r
    <3> HIDE DEF d
    <3>1. Associates(d, p, rest)
      BY <1>3, <2>1, Associative, Zenon
    <3> QED  BY <3>1, Zenon DEF Associates
  <2>3. b \o i = d \o r /\ Len(b) = Len(d)
    BY <1>1, <1>3, <1>4, <2>2, Zenon
  <2> HIDE DEF d, r, b, i
  <2>4. b = d /\ i = r
    BY <2>1, <2>3, Cancel
  <2> QED  BY <2>4, Zenon DEF d, r, b, i
<1>6. remaining' = Len(p) /\ p' = p /\ rest' = rest
  BY <1>0, <1>4, <1>5 DEF p, rest, after
<1>7. Typed'
  BY <1>0, <1>1, <1>4, <1>6, EmptySeq DEF Typed
<1>8. Asks'
  <2>1. Len(<<>>) + Len(p) = Len(p) /\ Len(p) > 0
    BY <1>4
  <2> QED  BY <1>0, <1>1, <1>2, <1>6, <2>1 DEF Asks, p
<1>9. Comes'
  BY <1>0, <1>1 DEF Comes
<1>10. Delivers'
  BY <1>0 DEF Delivers
<1>11. (buffer \o incoming = Unread)'
  <2>1. Unread' = p \o rest
    BY <1>0, <1>6 DEF Unread, p, rest, after
  <2>2. <<>> \o incoming' = incoming'
    BY <1>1, ConcatEmptySeq, Zenon
  <2> QED  BY <1>0, <1>5, <2>1, <2>2
<1> QED  BY <1>7, <1>8, <1>9, <1>10, <1>11, Zenon DEF Framed

LEMMA FramedOnData ==
  ASSUME Framed, NEW messages, NEW throws, OnData(messages, throws)
  PROVE  Framed'
<1> DEFINE p == sent[Len(delivered) + 1]
           after == Len(sent) - Len(delivered)
           rest == Stream(sent)[after - 1]
<1>0. /\ Typed /\ Asks /\ Comes /\ Delivers /\ Arrived /\ part = "data"
      /\ delivered' = Append(delivered, Filled)
      /\ \/ part' = "none" /\ buffer' = <<>> /\ remaining' = 0
         \/ part' = "length" /\ buffer' = <<>> /\ remaining' = HeaderSize
      /\ UNCHANGED <<phase, sent, link>>
  BY DEF Framed, OnData, StartReading
<1>1. /\ Len(delivered) < Len(sent) /\ phase = "ready"
      /\ Len(buffer) + remaining = Len(p) /\ Unread = p \o rest
  BY <1>0 DEF Asks, Unread
<1>2. /\ p \in Bodies /\ p \in Seq(Bytes) /\ rest \in Seq(Bytes)
  BY <1>0, <1>1, NextPacket
<1>3. /\ link # "gone" /\ Filled \in Seq(Bytes) /\ incoming' \in Seq(Bytes)
      /\ Len(Filled) = Len(p) /\ Filled \o incoming' = p \o rest
  BY <1>0, <1>1, TakesWhatItAsks
<1>4. Filled = p /\ incoming' = rest
  <2> DEFINE b == Filled
             i == incoming'
  <2>1. /\ b \in Seq(Bytes) /\ i \in Seq(Bytes) /\ Len(b) = Len(p) /\ b \o i = p \o rest
    BY <1>3, Zenon
  <2> HIDE DEF b, i, p, rest
  <2>2. b = p /\ i = rest
    BY <1>2, <2>1, Cancel
  <2> QED  BY <2>2, Zenon DEF b, i
<1>5. /\ delivered' \in Seq(Seq(Bytes)) /\ Len(delivered') = Len(delivered) + 1
      /\ delivered'[Len(delivered) + 1] = p
      /\ \A i \in 1..Len(delivered) : delivered'[i] = delivered[i]
  <2>1. delivered \in Seq(Seq(Bytes)) /\ delivered' = Append(delivered, p)
    BY <1>0, <1>4 DEF Typed
  <2> HIDE DEF p
  <2>2. /\ Append(delivered, p) \in Seq(Seq(Bytes))
        /\ Len(Append(delivered, p)) = Len(delivered) + 1
        /\ Append(delivered, p)[Len(delivered) + 1] = p
        /\ \A i \in 1..Len(delivered) : Append(delivered, p)[i] = delivered[i]
    BY <1>2, <2>1
  <2> QED  BY <2>1, <2>2, Zenon
<1>6. Len(sent) - Len(delivered') = after - 1 /\ Len(delivered) \in Nat /\ Len(sent) \in Nat
  <2>1. Len(delivered) \in Nat /\ Len(sent) \in Nat
    BY <1>0 DEF Typed
  <2> QED  BY <1>5, <2>1
<1>7. Typed'
  <2>1. <<>> \in Seq(Bytes) /\ 0 \in Nat /\ HeaderSize \in Nat
    BY EmptySeq, ConstantsAssumption
  <2> QED  BY <1>0, <1>3, <1>5, <2>1 DEF Typed
<1>8. Asks'
  <2>1. HeaderSize \in Nat /\ HeaderSize > 0 /\ Len(<<>>) + HeaderSize = HeaderSize
    BY ConstantsAssumption
  <2> QED  BY <1>0, <1>1, <2>1 DEF Asks
<1>9. Comes'
  BY <1>0, <1>1, <1>3 DEF Comes
<1>10. Delivers'
  <2>1. Len(delivered') <= Len(sent)
    BY <1>1, <1>5, <1>6
  <2>2. ASSUME NEW i \in 1..Len(delivered')
        PROVE  delivered'[i] = sent[i]
    <3>1. CASE i = Len(delivered) + 1
      BY <1>5, <3>1
    <3>2. CASE i # Len(delivered) + 1
      <4>1. i \in 1..Len(delivered)
        BY <1>5, <1>6, <3>2
      <4>2. delivered[i] = sent[i]
        BY <1>0, <4>1 DEF Delivers
      <4> QED  BY <1>5, <4>1, <4>2, Zenon
    <3> QED  BY <3>1, <3>2
  <2> QED  BY <1>0, <2>1, <2>2 DEF Delivers
<1>11. (part # "none" => buffer \o incoming = Unread)'
  <2> SUFFICES ASSUME part' = "length" PROVE buffer' \o incoming' = Unread'
    BY <1>0
  <2>1. Unread' = rest
    BY <1>0, <1>6 DEF Unread
  <2>2. <<>> \o incoming' = incoming'
    BY <1>3, ConcatEmptySeq, Zenon
  <2> QED  BY <1>0, <1>4, <2>1, <2>2
<1> QED  BY <1>7, <1>8, <1>9, <1>10, <1>11, Zenon DEF Framed

LEMMA FramedWhenSent ==
  ASSUME Framed, NEW b \in Bodies, ReceiverSends(b)
  PROVE  Framed'
<1> DEFINE after == Len(sent) - Len(delivered)
           P == Packet(b)
           N == Len(sent)
           D == Len(delivered)
<1>0. /\ Typed /\ Asks /\ Comes /\ Delivers /\ phase = "ready" /\ link = "open"
      /\ sent' = Append(sent, b) /\ incoming' = incoming \o P
      /\ UNCHANGED <<phase, part, buffer, remaining, delivered, link>>
  BY DEF Framed, ReceiverSends, reader
<1>1. P \in Seq(Bytes) /\ incoming \in Seq(Bytes) /\ buffer \in Seq(Bytes)
      /\ sent \in Seq(Bodies) /\ N \in Nat /\ D \in Nat /\ D <= N
  <2>1. P \in Seq(Bytes)
    BY PacketsAreBytes, Zenon
  <2> HIDE DEF P
  <2> QED  BY <1>0, <2>1 DEF Typed, Delivers
<1>2. /\ sent' \in Seq(Bodies) /\ Len(sent') = N + 1 /\ \A i \in 1..N : sent'[i] = sent[i]
  <2>1. /\ Append(sent, b) \in Seq(Bodies) /\ Len(Append(sent, b)) = N + 1
        /\ \A i \in 1..N : Append(sent, b)[i] = sent[i]
    BY <1>1
  <2> QED  BY <1>0, <2>1, Zenon
<1>3. \A n \in 0..N : Stream(sent')[n + 1] = Stream(sent)[n] \o P /\ Stream(sent)[n] \in Seq(Bytes)
  <2>1. \A n \in 0..N : Stream(Append(sent, b))[n + 1] = Stream(sent)[n] \o P
    BY <1>1, StreamGrows, Zenon
  <2>2. \A n \in 0..N : Stream(sent)[n] \in Seq(Bytes)
    BY <1>1, StreamOf
  <2> HIDE DEF P, N
  <2> QED  BY <1>0, <2>1, <2>2, Zenon
<1> HIDE DEF P
<1>4. Typed'
  <2>1. incoming' \in Seq(Bytes)
    BY <1>0, <1>1, ConcatProperties, Zenon
  <2> QED  BY <1>0, <1>2, <2>1 DEF Typed
<1>5. part = "data" => D < N /\ D + 1 \in 1..N /\ sent'[D + 1] = sent[D + 1]
  <2> SUFFICES ASSUME part = "data" PROVE D < N /\ D + 1 \in 1..N /\ sent'[D + 1] = sent[D + 1]
    OBVIOUS
  <2>1. D < N
    BY <1>0 DEF Asks
  <2>2. D + 1 \in 1..N
    BY <1>1, <2>1
  <2> QED  BY <1>2, <2>1, <2>2, Zenon
<1>6. Asks'
  <2>1. part = "data" => D < N + 1
    BY <1>1, <1>5
  <2> QED  BY <1>0, <1>2, <1>5, <2>1 DEF Asks
<1>7. Comes'
  BY <1>0 DEF Comes
<1>8. Delivers'
  <2>1. D <= N + 1 /\ 1..D \subseteq 1..N
    BY <1>1
  <2> QED  BY <1>0, <1>2, <2>1 DEF Delivers
<1>9. (part # "none" => buffer \o incoming = Unread)'
  <2> SUFFICES ASSUME part # "none" PROVE buffer \o incoming' = Unread'
    BY <1>0
  <2>1. buffer \o incoming = Unread
    BY <1>0 DEF Framed
  <2>2. buffer \o incoming' = (buffer \o incoming) \o P
    <3>1. Associates(buffer, incoming, P)
      BY <1>1, Associative, Zenon
    <3>2. (buffer \o incoming) \o P = buffer \o (incoming \o P)
      BY <3>1, Zenon DEF Associates
    <3> QED  BY <1>0, <3>2, Zenon
  <2>3. Len(sent') - Len(delivered') = after + 1 /\ delivered' = delivered /\ part' = part
    BY <1>0, <1>1, <1>2
  <2>4. CASE part = "data"
    <3> DEFINE p == sent[D + 1]
               rest == Stream(sent)[after - 1]
    <3>1. p \in Seq(Bytes) /\ Unread = p \o rest
      BY <1>0, <1>5, <2>4, NextPacket DEF Unread
    <3>2. after - 1 \in 0..N /\ (after - 1) + 1 = (after + 1) - 1
      BY <1>1, <1>5, <2>4
    <3>3. Stream(sent')[(after + 1) - 1] = rest \o P /\ rest \in Seq(Bytes)
      <4> HIDE DEF N, after
      <4> QED  BY <1>3, <3>2
    <3>4. Unread' = p \o (rest \o P)
      <4>1. Unread' = sent'[D + 1] \o Stream(sent')[(after + 1) - 1]
        BY <2>3, <2>4 DEF Unread
      <4> QED  BY <1>5, <2>4, <3>3, <4>1
    <3> HIDE DEF p, rest
    <3>5. (p \o rest) \o P = p \o (rest \o P)
      <4>1. Associates(p, rest, P)
        BY <1>1, <3>1, <3>3, Associative, Zenon
      <4> QED  BY <4>1, Zenon DEF Associates
    <3> QED  BY <2>1, <2>2, <3>1, <3>4, <3>5, Zenon
  <2>5. CASE part # "data"
    <3>1. Unread = Stream(sent)[after] /\ Unread' = Stream(sent')[after + 1]
      BY <2>3, <2>5 DEF Unread
    <3>2. after \in 0..N
      BY <1>1
    <3> HIDE DEF after, N
    <3>3. Stream(sent')[after + 1] = Stream(sent)[after] \o P
      BY <1>3, <3>2, Zenon
    <3> QED  BY <2>1, <2>2, <3>1, <3>3, Zenon
  <2> QED  BY <2>4, <2>5
<1> QED  BY <1>4, <1>6, <1>7, <1>8, <1>9, Zenon DEF Framed

LEMMA FramedWhenConnected ==
  ASSUME Framed, NEW messages, OnHandshake(messages)
  PROVE  Framed'
<1>0. /\ Typed /\ Comes /\ phase # "ready" /\ phase' = "ready"
      /\ part' = "length" /\ buffer' = <<>> /\ remaining' = HeaderSize
      /\ UNCHANGED <<sent, incoming, delivered, link>>
  BY DEF Framed, OnHandshake, StartReading
<1>1. sent = <<>> /\ incoming = <<>> /\ delivered = <<>>
  BY <1>0 DEF Comes
<1>2. HeaderSize \in Nat /\ HeaderSize > 0 /\ Len(<<>>) + HeaderSize = HeaderSize
  BY ConstantsAssumption
<1>3. Typed' /\ Asks' /\ Comes' /\ Delivers'
  BY <1>0, <1>1, <1>2, EmptySeq DEF Typed, Asks, Comes, Delivers
<1>4. (buffer \o incoming = Unread)'
  <2>1. Stream(<<>>)[0] = <<>>
    <3>1. <<>> \in Seq(Bodies)
      BY EmptySeq, Zenon
    <3> QED  BY <3>1, StreamOf, Zenon
  <2>2. Unread' = Stream(<<>>)[Len(<<>>) - Len(<<>>)] /\ Len(<<>>) - Len(<<>>) = 0
    BY <1>0, <1>1 DEF Unread
  <2>3. Unread' = <<>>
    BY <2>1, <2>2
  <2> QED  BY <1>0, <1>1, <2>3
<1> QED  BY <1>3, <1>4, Zenon DEF Framed

LEMMA InitFramed == ClientInit => Framed
<1> SUFFICES ASSUME ClientInit PROVE Framed
  OBVIOUS
<1>1. /\ phase = "idle" /\ part = "none" /\ buffer = <<>> /\ remaining = 0
      /\ sent = <<>> /\ incoming = <<>> /\ delivered = <<>>
  BY DEF ClientInit, Init
<1>2. Typed /\ Asks /\ Comes /\ Delivers
  BY <1>1, EmptySeq DEF Typed, Asks, Comes, Delivers
<1> QED  BY <1>1, <1>2 DEF Framed

LEMMA NextFramed == Framed /\ [Next]_vars => Framed'
<1> SUFFICES ASSUME Framed, [Next]_vars
             PROVE  Framed'
  OBVIOUS
<1>1. CASE Connect \/ OnConnectFailed \/ Alone(OnConnectCompleted)
  <2>1. ASSUME UNCHANGED opening, phase # "ready", phase' # "ready"
        PROVE  Framed'
    BY <2>1, StillFramed DEF opening
  <2>2. CASE AsyncConnect
    BY <2>1, <2>2 DEF AsyncConnect
  <2>3. CASE UNCHANGED connection
    BY <2>3, StillFramed DEF connection
  <2>4. CASE OnConnectFailed
    BY <2>1, <2>4 DEF OnConnectFailed, ConnectFails
  <2>5. CASE Alone(OnConnectCompleted)
    BY <2>1, <2>5 DEF Alone, OnConnectCompleted
  <2> QED  BY <1>1, <2>2, <2>3, <2>4, <2>5 DEF Connect
<1>2. CASE OnConnected
  BY <1>2, FramedWhenConnected DEF OnConnected
<1>3. CASE Alone(OnLength)
  BY <1>3, FramedOnLength DEF Alone
<1>4. CASE OnPacket
  BY <1>4, FramedOnData DEF OnPacket
<1>5. ASSUME NEW n \in 0..Len(incoming), EndsAfter(n), Resume(n), UNCHANGED link
      PROVE  Framed'
  BY <1>5, FramedWhenResumed DEF EndsAfter
<1>6. CASE Alone(ReadFails)
  <2>1. Len(incoming) \in Nat
    BY DEF Framed, Typed
  <2>2. (IF closed THEN 0 ELSE Len(incoming)) \in 0..Len(incoming)
    BY <2>1
  <2> QED  BY <1>5, <1>6, <2>2 DEF Alone, ReadFails, EndsAfter
<1>7. ASSUME NEW n \in 0..Len(incoming), Alone(ReadEndsEarly(n))
      PROVE  Framed'
  BY <1>5, <1>7 DEF Alone, ReadEndsEarly, EndsAfter
<1>8. CASE Request \/ Close \/ SendTimer \/ ReceiveTimer \/ Alone(WriteCompletes) \/ Return
  <2>1. UNCHANGED <<reader, sent, incoming, link, phase>>
    BY <1>8 DEF Request, Close, SendTimer, ReceiveTimer, Alone, WriteCompletes, Return, Send,
                Shutdown, opening
  <2> QED  BY <2>1, StillFramed
<1>9. ASSUME NEW b \in Bodies, ReceiverSends(b)
      PROVE  Framed'
  BY <1>9, FramedWhenSent
<1>10. CASE Alone(ReceiverCloses)
  <2>1. UNCHANGED <<reader, sent, incoming, phase>> /\ link # "gone" /\ link' # "gone"
    BY <1>10 DEF Alone, ReceiverCloses
  <2> QED  BY <2>1, StillFramed
<1>11. CASE Alone(ReceiverGone)
  <2>1. /\ UNCHANGED <<reader, sent, phase>> /\ UNCHANGED <<part, buffer, remaining, delivered>>
        /\ link' = "gone" /\ incoming' = <<>> /\ phase = "ready"
    BY <1>11 DEF Alone, ReceiverGone, reader
  <2>2. Typed' /\ Asks' /\ Comes' /\ Delivers'
    BY <2>1, EmptySeq DEF Framed, Typed, Asks, Comes, Delivers
  <2> QED  BY <2>1, <2>2 DEF Framed
<1>12. CASE UNCHANGED vars
  <2>1. UNCHANGED <<reader, sent, incoming, link, phase>>
    BY <1>12 DEF vars, connection
  <2> QED  BY <2>1, StillFramed
<1> QED  BY <1>1, <1>2, <1>3, <1>4, <1>6, <1>7, <1>8, <1>9, <1>10, <1>11, <1>12
         DEF Next, Runs, Read, Receiver, Alone

\* The channels are given the packets that were sent, in order and unchanged, wherever reads
\* end early (connection.cpp:135-171), for any base and size of the header, any packets that
\* fit it, and any bounds.
THEOREM PacketsAreFramed == Spec => []FramingIsExact
BY InitFramed, NextFramed, FramedIsExact, PTL DEF Spec

-----------------------------------------------------------------------------
(* Reading goes on *)

\* A read is pending as long as run() runs and there is a connection.
Listening ==
  /\ phase = "ready" /\ status = "running" => Reading
  /\ closed /\ status = "running" => phase = "ready"
  /\ link = "gone" => phase = "ready"

\* A read that asks for something is under way whenever there is a connection, and once TLS
\* has been shut down, or the connection is lost, it cannot be satisfied.
ReadGoesOn ==
  status = "running" /\ (phase = "ready" \/ closed \/ link = "gone") =>
    /\ Reading /\ remaining > 0
    /\ link = "gone" => Len(incoming) < remaining

LEMMA NextListening == Listening /\ [Next]_vars => Listening'
<1> SUFFICES ASSUME Listening, [Next]_vars
             PROVE  Listening'
  OBVIOUS
<1> USE DEF Listening
<1>1. CASE Runs(Connect \/ OnConnectFailed \/ Alone(OnConnectCompleted))
  <2>1. ASSUME UNCHANGED <<status, closed, link>>, phase # "ready", phase' # "ready"
        PROVE  Listening'
    BY <2>1
  <2>2. CASE AsyncConnect
    BY <2>1, <2>2 DEF AsyncConnect, opening
  <2>3. CASE UNCHANGED connection
    BY <2>3 DEF connection, reader, Reading
  <2>4. CASE OnConnectFailed
    BY <2>1, <2>4 DEF OnConnectFailed, ConnectFails, opening
  <2>5. CASE Alone(OnConnectCompleted)
    BY <2>1, <2>5 DEF Alone, OnConnectCompleted, opening
  <2> QED  BY <1>1, <2>2, <2>3, <2>4, <2>5 DEF Runs, Connect
<1>2. CASE OnConnected
  BY <1>2 DEF OnConnected, OnHandshake, StartReading, Reading
<1>3. CASE Alone(OnLength)
  BY <1>3 DEF Alone, OnLength, StartReading, Reading
<1>4. CASE Runs(OnPacket)
  BY <1>4 DEF Runs, OnPacket, OnData, StartReading, Reading
<1>5. ASSUME NEW n, EndsAfter(n), status = "running"
      PROVE  Listening'
  BY <1>5 DEF EndsAfter, EnsureConnectionIsAlive, Reading
<1>6. CASE Runs(Alone(ReadFails))
  BY <1>5, <1>6 DEF Runs, Alone, ReadFails
<1>7. ASSUME NEW n \in 0..Len(incoming), Runs(Alone(ReadEndsEarly(n)))
      PROVE  Listening'
  BY <1>5, <1>7 DEF Runs, Alone, ReadEndsEarly
<1>8. CASE Runs(Request \/ SendTimer)
  BY <1>8 DEF Runs, Request, SendTimer, Send, opening, reader, Reading
<1>9. CASE Runs(Close \/ ReceiveTimer)
  <2>1. Shutdown /\ status = "running"
    BY <1>9 DEF Runs, Close, ReceiveTimer
  <2> QED  BY <2>1 DEF Shutdown, reader, Reading
<1>10. CASE Runs(Alone(WriteCompletes))
  BY <1>10 DEF Runs, Alone, WriteCompletes, opening, reader, Reading
<1>11. CASE Runs(Return)
  BY <1>11 DEF Runs, Return, opening, reader, Reading
<1>12. ASSUME NEW b \in Bodies, ReceiverSends(b)
       PROVE  Listening'
  BY <1>12 DEF ReceiverSends, reader, Reading
<1>13. CASE ReceiverCloses \/ ReceiverGone
  BY <1>13 DEF ReceiverCloses, ReceiverGone, reader, Reading
<1>14. CASE UNCHANGED vars
  BY <1>14 DEF vars, connection, reader, Reading
<1> QED  BY <1>1, <1>2, <1>3, <1>4, <1>6, <1>7, <1>8, <1>9, <1>10, <1>11, <1>12, <1>13, <1>14
         DEF Next, Runs, Read, Receiver, Alone

\* While run() runs a connection is always being read (connection.cpp:135-171): no handler
\* forgets to read on, and no read asks for nothing.  So the one that is under way when the
\* connection is closed or lost fails, which is what CloseEndsRun rests on; fairness adds
\* that its handler is called.
THEOREM ConnectionIsAlwaysRead == Spec => []ReadGoesOn
<1>1. ClientInit => Listening
  BY DEF ClientInit, Init, Listening
<1>2. Framed /\ Listening => ReadGoesOn
  <2> SUFFICES ASSUME Framed, Listening, status = "running", phase = "ready" \/ closed \/ link = "gone"
               PROVE  /\ Reading /\ remaining > 0
                      /\ link = "gone" => Len(incoming) < remaining
    BY DEF ReadGoesOn
  <2>1. Reading /\ remaining > 0
    BY DEF Framed, Listening, Asks, Reading
  <2>2. link = "gone" => Len(incoming) = 0
    BY EmptySeq DEF Framed, Comes
  <2> QED  BY <2>1, <2>2
<1> QED  BY <1>1, <1>2, InitFramed, NextFramed, NextListening, PTL DEF Spec
=============================================================================
