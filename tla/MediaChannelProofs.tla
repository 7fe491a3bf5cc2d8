-------------------------- MODULE MediaChannelProofs --------------------------
(***************************************************************************)
(* Theorems about MediaChannel, for any bounds and any receiver.           *)
(*                                                                         *)
(* Each id is in one place: in a request that is under way, in its answer, *)
(* or only in the map, which keeps it until the answer comes or another    *)
(* client's takes the entry (Entries).  The last status that is under way  *)
(* is the receiver's (Current).  A user who waits has one request under    *)
(* way at most, which he has not been told about (Waiting).                *)
(***************************************************************************)
EXTENDS MediaChannel, TLAPS

Directed(m) == m.to = "sender"

\* The entry of an id is there, or was taken.
Expected(map, gone, id) == id \in gone \/ \E q \in map : q.id = id

\* Requests and answers under way have their entries, and different ids.
EntriesOf(map, gone, last, asked, answers) ==
  /\ \A q \in map : q.id <= last
  /\ \A i \in gone : i <= last
  /\ \A j \in 1..Len(asked) :
       /\ Expected(map, gone, asked[j].id)
       /\ \A k \in 1..Len(asked) : asked[j].id = asked[k].id => j = k
       /\ \A k \in 1..Len(answers) : Directed(answers[k]) => asked[j].id # answers[k].id
  /\ \A j \in 1..Len(answers) :
       Directed(answers[j]) =>
         /\ Expected(map, gone, answers[j].id)
         /\ \A k \in 1..Len(answers) : Directed(answers[k]) /\ answers[j].id = answers[k].id => j = k

Entries == EntriesOf(requests, taken, lastId, toReceiver, toSender)

\* There are reports in a queue, and the last is of session s.
LastReportIs(queue, s) ==
  \E k \in 1..Len(queue) :
    /\ Reports(queue[k]) /\ queue[k].session = s
    /\ \A j \in 1..Len(queue) : j > k => ~Reports(queue[j])

NoReport(queue) == \A k \in 1..Len(queue) : ~Reports(queue[k])

\* The channel knows the session, was misled, or is about to ask.
Known ==
  \/ lastStatus = IF misled THEN 0 ELSE session
  \/ \E k \in 1..Len(toReceiver) : toReceiver[k].kind = "getStatus"

\* If no report is under way the session is known.
Current ==
  \/ LastReportIs(toSender, session)
  \/ NoReport(toSender) /\ (status = "running" => Known)

IInv == TypeOK /\ Entries /\ Current

\* A user who waits has made call n with id n + 1, and has not been told of what is
\* still under way.
Waiting ==
  calm =>
    /\ lastId = ops + 1
    /\ \A q \in requests : q.id = q.op + 1
    /\ \A k \in 1..Len(toReceiver) :
         LET q == toReceiver[k] IN q.id = q.op + 1 /\ q.op = ops /\ q.op \notin told
    /\ CommandsFitTheSession

USE ConstantsAssumption

-----------------------------------------------------------------------------
(* Queues *)

LEMMA TailOf ==
  ASSUME NEW S, NEW queue \in Seq(S), queue # <<>>
  PROVE  /\ Tail(queue) \in Seq(S) /\ Head(queue) = queue[1] /\ Head(queue) \in S
         /\ Len(queue) \in Nat \ {0} /\ Len(Tail(queue)) = Len(queue) - 1
         /\ \A k \in 1..Len(Tail(queue)) : k + 1 \in 1..Len(queue) /\ Tail(queue)[k] = queue[k + 1]
OBVIOUS

LEMMA AppendOf ==
  ASSUME NEW S, NEW queue \in Seq(S), NEW m \in S
  PROVE  /\ Append(queue, m) \in Seq(S) /\ Len(queue) \in Nat
         /\ Len(Append(queue, m)) = Len(queue) + 1
         /\ Append(queue, m)[Len(queue) + 1] = m
         /\ \A k \in 1..Len(queue) : Append(queue, m)[k] = queue[k]
OBVIOUS

LEMMA ConcatenationOf ==
  ASSUME NEW S, NEW queue \in Seq(S), NEW m \in S, NEW n \in S
  PROVE  /\ queue \o <<m>> \o <<>> = Append(queue, m)
         /\ queue \o <<m>> \o <<n>> = Append(Append(queue, m), n)
OBVIOUS

\* A report becomes the last one.
LEMMA ReportIsLast ==
  ASSUME NEW queue \in Seq(Messages), NEW m \in Messages, Reports(m)
  PROVE  LastReportIs(Append(queue, m), m.session)
<1> DEFINE longer == Append(queue, m)
<1>1. /\ Len(queue) \in Nat /\ Len(longer) = Len(queue) + 1 /\ longer[Len(queue) + 1] = m
  BY AppendOf
<1> HIDE DEF longer
<1>2. Len(queue) + 1 \in 1..Len(longer) /\ \A j \in 1..Len(longer) : ~(j > Len(queue) + 1)
  BY <1>1
<1>3. LastReportIs(longer, m.session)
  BY <1>1, <1>2 DEF LastReportIs
<1> QED  BY <1>3 DEF longer

\* Another message leaves the reports as they are.
LEMMA SilentIsNotLast ==
  ASSUME NEW queue \in Seq(Messages), NEW m \in Messages, ~Reports(m), NEW s
  PROVE  /\ LastReportIs(queue, s) => LastReportIs(Append(queue, m), s)
         /\ NoReport(queue) => NoReport(Append(queue, m))
<1> DEFINE longer == Append(queue, m)
<1>1. /\ Len(queue) \in Nat /\ Len(longer) = Len(queue) + 1 /\ longer[Len(queue) + 1] = m
      /\ \A k \in 1..Len(queue) : longer[k] = queue[k]
  BY AppendOf
<1> HIDE DEF longer
<1>2. \A k \in 1..Len(longer) : Reports(longer[k]) => k \in 1..Len(queue) /\ longer[k] = queue[k]
  BY <1>1
<1>3. \A k \in 1..Len(queue) : k \in 1..Len(longer) /\ longer[k] = queue[k]
  BY <1>1
<1>4. ASSUME LastReportIs(queue, s)
      PROVE  LastReportIs(longer, s)
  <2>1. PICK k \in 1..Len(queue) :
          /\ Reports(queue[k]) /\ queue[k].session = s
          /\ \A j \in 1..Len(queue) : j > k => ~Reports(queue[j])
    BY <1>4 DEF LastReportIs
  <2>2. \A j \in 1..Len(longer) : j > k => ~Reports(longer[j])
    BY <1>2, <2>1
  <2>3. k \in 1..Len(longer) /\ longer[k] = queue[k]
    BY <1>3
  <2> QED  BY <2>1, <2>2, <2>3 DEF LastReportIs
<1>5. NoReport(queue) => NoReport(longer)
  BY <1>2 DEF NoReport
<1> QED  BY <1>4, <1>5 DEF longer

\* Without its head a queue has the same last report, unless that was the head.
LEMMA ReportsOfTail ==
  ASSUME NEW queue \in Seq(Messages), queue # <<>>, NEW s
  PROVE  /\ LastReportIs(queue, s) =>
              \/ LastReportIs(Tail(queue), s)
              \/ NoReport(Tail(queue)) /\ Reports(Head(queue)) /\ Head(queue).session = s
         /\ NoReport(queue) => NoReport(Tail(queue)) /\ ~Reports(Head(queue))
<1> DEFINE rest == Tail(queue)
<1>1. /\ Len(queue) \in Nat \ {0} /\ Len(rest) = Len(queue) - 1 /\ Head(queue) = queue[1]
      /\ \A k \in 1..Len(rest) : k + 1 \in 1..Len(queue) /\ rest[k] = queue[k + 1]
  BY TailOf
<1> HIDE DEF rest
<1>2. ASSUME LastReportIs(queue, s)
      PROVE  LastReportIs(rest, s) \/ (NoReport(rest) /\ Reports(queue[1]) /\ queue[1].session = s)
  <2>1. PICK k \in 1..Len(queue) :
          /\ Reports(queue[k]) /\ queue[k].session = s
          /\ \A j \in 1..Len(queue) : j > k => ~Reports(queue[j])
    BY <1>2 DEF LastReportIs
  <2>2. \A j \in 1..Len(rest) : j + 1 > k => ~Reports(rest[j])
    BY <1>1, <2>1
  <2>3. CASE k = 1
    <3>1. \A j \in 1..Len(rest) : j + 1 > k
      BY <2>3
    <3>2. NoReport(rest)
      BY <2>2, <3>1 DEF NoReport
    <3> QED  BY <2>1, <2>3, <3>2
  <2>4. CASE k # 1
    <3>1. k - 1 \in 1..Len(rest) /\ (k - 1) + 1 = k
      BY <1>1, <2>4
    <3>2. rest[k - 1] = queue[k]
      BY <1>1, <3>1
    <3>3. \A j \in 1..Len(rest) : j > k - 1 => ~Reports(rest[j])
      BY <2>2
    <3> QED  BY <2>1, <3>1, <3>2, <3>3 DEF LastReportIs
  <2> QED  BY <2>3, <2>4
<1>3. ASSUME NoReport(queue)
      PROVE  NoReport(rest) /\ ~Reports(queue[1])
  <2>1. 1 \in 1..Len(queue)
    BY <1>1
  <2> QED  BY <1>1, <1>3, <2>1 DEF NoReport
<1> QED  BY <1>1, <1>2, <1>3 DEF rest

-----------------------------------------------------------------------------
(* Ids *)

\* A message for all is no answer.
LEMMA BroadcastKeepsEntries ==
  ASSUME NEW map, NEW gone, NEW last, NEW asked, NEW answers \in Seq(Messages),
         EntriesOf(map, gone, last, asked, answers),
         NEW m \in Messages, ~Directed(m)
  PROVE  EntriesOf(map, gone, last, asked, Append(answers, m))
<1> DEFINE longer == Append(answers, m)
<1>1. \A k \in 1..Len(longer) : Directed(longer[k]) => k \in 1..Len(answers) /\ longer[k] = answers[k]
  BY AppendOf
<1> HIDE DEF longer
<1>2. EntriesOf(map, gone, last, asked, longer)
  BY <1>1 DEF EntriesOf
<1> QED  BY <1>2 DEF longer

\* The receiver answers the first request.
LEMMA AnswerKeepsEntries ==
  ASSUME NEW map, NEW gone, NEW last, NEW asked \in Seq(Requests), NEW answers \in Seq(Messages),
         EntriesOf(map, gone, last, asked, answers),
         asked # <<>>, NEW m \in Messages, m.id = Head(asked).id
  PROVE  EntriesOf(map, gone, last, Tail(asked), Append(answers, m))
<1> DEFINE longer == Append(answers, m)
           rest == Tail(asked)
<1>1. /\ Head(asked) = asked[1] /\ 1 \in 1..Len(asked) /\ Len(asked) \in Nat
      /\ \A k \in 1..Len(rest) : k + 1 \in 1..Len(asked) /\ rest[k] = asked[k + 1]
  BY TailOf
<1>2. /\ Len(answers) \in Nat /\ Len(longer) = Len(answers) + 1
      /\ \A k \in 1..Len(longer) :
           (k = Len(answers) + 1 /\ longer[k] = m) \/ (k \in 1..Len(answers) /\ longer[k] = answers[k])
  BY AppendOf
<1> HIDE DEF longer, rest
<1>3. \A k \in 1..Len(answers) : Directed(answers[k]) => answers[k].id # m.id
  BY <1>1 DEF EntriesOf
<1>4. ASSUME NEW j \in 1..Len(rest)
      PROVE  /\ Expected(map, gone, rest[j].id)
             /\ \A k \in 1..Len(rest) : rest[j].id = rest[k].id => j = k
             /\ \A k \in 1..Len(longer) : Directed(longer[k]) => rest[j].id # longer[k].id
  <2>0. j + 1 \in 1..Len(asked) /\ rest[j] = asked[j + 1] /\ m.id = asked[1].id /\ j + 1 # 1
    BY <1>1
  <2>1. rest[j].id # m.id
    <3>1. asked[j + 1].id = asked[1].id => j + 1 = 1
      BY <1>1, <2>0 DEF EntriesOf
    <3> QED  BY <2>0, <3>1
  <2>2. ASSUME NEW k \in 1..Len(rest), rest[j].id = rest[k].id
        PROVE  j + 1 = k + 1
    <3>1. k + 1 \in 1..Len(asked) /\ rest[k] = asked[k + 1]
      BY <1>1
    <3>2. asked[j + 1].id = asked[k + 1].id
      BY <2>0, <2>2, <3>1
    <3> QED  BY <2>0, <3>1, <3>2 DEF EntriesOf
  <2>3. \A k \in 1..Len(longer) : Directed(longer[k]) => rest[j].id # longer[k].id
    <3>1. \A k \in 1..Len(answers) : Directed(answers[k]) => asked[j + 1].id # answers[k].id
      BY <2>0 DEF EntriesOf
    <3> QED  BY <2>0, <2>1, <1>2, <3>1
  <2>4. Expected(map, gone, rest[j].id)
    BY <2>0 DEF EntriesOf
  <2> QED  BY <2>2, <2>3, <2>4
<1>5. ASSUME NEW j \in 1..Len(longer), Directed(longer[j])
      PROVE  /\ Expected(map, gone, longer[j].id)
             /\ \A k \in 1..Len(longer) : Directed(longer[k]) /\ longer[j].id = longer[k].id => j = k
  <2>1. CASE j = Len(answers) + 1
    <3>1. longer[j] = m
      BY <1>2, <2>1
    <3>2. Expected(map, gone, m.id)
      BY <1>1 DEF EntriesOf
    <3>3. ASSUME NEW k \in 1..Len(longer), Directed(longer[k]), longer[j].id = longer[k].id
          PROVE  j = k
      BY <1>2, <1>3, <2>1, <3>1, <3>3
    <3> QED  BY <3>1, <3>2, <3>3
  <2>2. CASE j \in 1..Len(answers) /\ longer[j] = answers[j]
    <3>1. Expected(map, gone, longer[j].id)
      BY <1>5, <2>2 DEF EntriesOf
    <3>2. ASSUME NEW k \in 1..Len(longer), Directed(longer[k]), longer[j].id = longer[k].id
          PROVE  j = k
      <4>1. answers[j].id # m.id
        BY <1>3, <1>5, <2>2
      <4>2. k \in 1..Len(answers) /\ longer[k] = answers[k]
        BY <1>2, <2>2, <3>2, <4>1
      <4> QED  BY <1>5, <2>2, <3>2, <4>2 DEF EntriesOf
    <3> QED  BY <3>1, <3>2
  <2> QED  BY <1>2, <2>1, <2>2
<1>6. EntriesOf(map, gone, last, rest, longer)
  <2>1. /\ \A q \in map : q.id <= last
        /\ \A i \in gone : i <= last
    BY DEF EntriesOf
  <2> QED  BY <2>1, <1>4, <1>5 DEF EntriesOf
<1> QED  BY <1>6 DEF longer, rest

\* A message is received: an entry goes if it is its answer, or is taken.
LEMMA ReceivingKeepsEntries ==
  ASSUME NEW map, NEW gone, NEW last, NEW asked, NEW answers \in Seq(Messages),
         EntriesOf(map, gone, last, asked, answers), answers # <<>>,
         NEW left \in SUBSET map, NEW more, gone \subseteq more, \A i \in more : i <= last,
         \A q \in map : \/ q \in left
                        \/ q.id \in more
                        \/ Directed(Head(answers)) /\ q.id = Head(answers).id
  PROVE  EntriesOf(left, more, last, asked, Tail(answers))
<1> DEFINE rest == Tail(answers)
<1>1. /\ Head(answers) = answers[1] /\ 1 \in 1..Len(answers) /\ Len(answers) \in Nat
      /\ \A k \in 1..Len(rest) : k + 1 \in 1..Len(answers) /\ rest[k] = answers[k + 1] /\ k + 1 # 1
  BY TailOf
<1> HIDE DEF rest
<1>2. ASSUME NEW id, Expected(map, gone, id), Directed(answers[1]) => id # answers[1].id
      PROVE  Expected(left, more, id)
  <2>1. CASE id \in gone
    BY <2>1 DEF Expected
  <2>2. ASSUME NEW q \in map, q.id = id
        PROVE  Expected(left, more, id)
    BY <1>1, <1>2, <2>2 DEF Expected
  <2> QED  BY <1>2, <2>1, <2>2 DEF Expected
<1>3. ASSUME NEW j \in 1..Len(asked)
      PROVE  /\ Expected(left, more, asked[j].id)
             /\ \A k \in 1..Len(asked) : asked[j].id = asked[k].id => j = k
             /\ \A k \in 1..Len(rest) : Directed(rest[k]) => asked[j].id # rest[k].id
  <2>1. /\ Expected(map, gone, asked[j].id)
        /\ \A k \in 1..Len(asked) : asked[j].id = asked[k].id => j = k
        /\ \A k \in 1..Len(answers) : Directed(answers[k]) => asked[j].id # answers[k].id
    BY DEF EntriesOf
  <2>2. Expected(left, more, asked[j].id)
    BY <1>1, <1>2, <2>1
  <2> QED  BY <1>1, <2>1, <2>2
<1>4. ASSUME NEW j \in 1..Len(rest), Directed(rest[j])
      PROVE  /\ Expected(left, more, rest[j].id)
             /\ \A k \in 1..Len(rest) : Directed(rest[k]) /\ rest[j].id = rest[k].id => j = k
  <2>1. /\ j + 1 \in 1..Len(answers) /\ rest[j] = answers[j + 1] /\ j + 1 # 1
        /\ Directed(answers[j + 1])
    BY <1>1, <1>4
  <2>2. /\ Expected(map, gone, answers[j + 1].id)
        /\ \A k \in 1..Len(answers) : Directed(answers[k]) /\ answers[j + 1].id = answers[k].id => j + 1 = k
    BY <2>1 DEF EntriesOf
  <2>3. Directed(answers[1]) => answers[j + 1].id # answers[1].id
    BY <1>1, <2>1, <2>2
  <2>4. Expected(left, more, rest[j].id)
    BY <1>2, <2>1, <2>2, <2>3
  <2>5. ASSUME NEW k \in 1..Len(rest), Directed(rest[k]), rest[j].id = rest[k].id
        PROVE  j = k
    <3>1. k + 1 \in 1..Len(answers) /\ rest[k] = answers[k + 1]
      BY <1>1
    <3>2. j + 1 = k + 1
      BY <2>1, <2>2, <2>5, <3>1
    <3> QED  BY <3>2
  <2> QED  BY <2>4, <2>5
<1>5. \A q \in left : q.id <= last
  BY DEF EntriesOf
<1>6. EntriesOf(left, more, last, asked, rest)
  BY <1>3, <1>4, <1>5 DEF EntriesOf
<1> QED  BY <1>6 DEF rest

\* A request is sent: its id is new.
LEMMA RequestKeepsEntries ==
  ASSUME NEW map \in SUBSET Requests, NEW gone \in SUBSET Nat, NEW last \in Nat,
         NEW asked \in Seq(Requests), NEW answers,
         EntriesOf(map, gone, last, asked, answers),
         NEW left \in SUBSET Requests, \A q \in left : q.id <= last,
         \A q \in map : \E r \in left : r.id = q.id,
         NEW q \in Requests, q.id = last + 1
  PROVE  EntriesOf(left \cup {q}, gone, last + 1, Append(asked, q), answers)
<1> DEFINE longer == Append(asked, q)
           more == left \cup {q}
<1>1. /\ Len(asked) \in Nat /\ Len(longer) = Len(asked) + 1
      /\ \A k \in 1..Len(longer) :
           (k = Len(asked) + 1 /\ longer[k] = q) \/ (k \in 1..Len(asked) /\ longer[k] = asked[k])
  BY AppendOf
<1>2. \A id : Expected(map, gone, id) => id # q.id /\ Expected(more, gone, id)
  <2>1. \A r \in map : r.id \in Nat /\ r.id <= last
    BY DEF Requests, EntriesOf
  <2>2. \A i \in gone : i \in Nat /\ i <= last
    BY DEF EntriesOf
  <2>3. \A r \in map : r.id # q.id /\ \E t \in more : t.id = r.id
    BY <2>1
  <2>4. \A i \in gone : i # q.id
    BY <2>2
  <2> HIDE DEF more
  <2> QED  BY <2>3, <2>4 DEF Expected
<1>3. /\ \A r \in more : r.id <= last + 1
      /\ \A i \in gone : i <= last + 1
  BY DEF Requests, EntriesOf
<1> HIDE DEF longer, more
<1>4. ASSUME NEW j \in 1..Len(asked)
      PROVE  asked[j].id # q.id /\ Expected(more, gone, asked[j].id)
  <2>1. Expected(map, gone, asked[j].id)
    BY DEF EntriesOf
  <2> QED  BY <1>2, <2>1
<1>5. ASSUME NEW k \in 1..Len(answers), Directed(answers[k])
      PROVE  answers[k].id # q.id /\ Expected(more, gone, answers[k].id)
  <2>1. Expected(map, gone, answers[k].id)
    BY <1>5 DEF EntriesOf
  <2> QED  BY <1>2, <2>1
<1>6. ASSUME NEW j \in 1..Len(longer)
      PROVE  /\ Expected(more, gone, longer[j].id)
             /\ \A k \in 1..Len(longer) : longer[j].id = longer[k].id => j = k
             /\ \A k \in 1..Len(answers) : Directed(answers[k]) => longer[j].id # answers[k].id
  <2>1. CASE j \in 1..Len(asked) /\ longer[j] = asked[j]
    <3>0. /\ \A k \in 1..Len(asked) : asked[j].id = asked[k].id => j = k
          /\ \A k \in 1..Len(answers) : Directed(answers[k]) => asked[j].id # answers[k].id
      BY <2>1 DEF EntriesOf
    <3>1. ASSUME NEW k \in 1..Len(longer), longer[j].id = longer[k].id
          PROVE  j = k
      BY <2>1, <3>0, <3>1, <1>1, <1>4
    <3> QED  BY <2>1, <3>0, <3>1, <1>4
  <2>2. CASE j = Len(asked) + 1 /\ longer[j] = q
    <3>1. ASSUME NEW k \in 1..Len(longer), longer[j].id = longer[k].id
          PROVE  j = k
      BY <2>2, <3>1, <1>1, <1>4
    <3>2. Expected(more, gone, q.id)
      BY DEF Expected, more
    <3> QED  BY <2>2, <3>1, <3>2, <1>5
  <2> QED  BY <1>1, <2>1, <2>2
<1>7. ASSUME NEW j \in 1..Len(answers), Directed(answers[j])
      PROVE  \A k \in 1..Len(answers) : Directed(answers[k]) /\ answers[j].id = answers[k].id => j = k
  BY <1>7 DEF EntriesOf
<1>8. EntriesOf(more, gone, last + 1, longer, answers)
  BY <1>3, <1>5, <1>6, <1>7 DEF EntriesOf
<1> QED  BY <1>8 DEF longer, more

-----------------------------------------------------------------------------
(* The steps *)

LEMMA InitIInv == Init => IInv
<1> SUFFICES ASSUME Init
             PROVE  IInv
  OBVIOUS
<1> DEFINE q == [id |-> 1, kind |-> "getStatus", session |-> 0, op |-> 0, armed |-> TRUE]
<1>1. /\ requests = {q} /\ toReceiver = <<q>> /\ lastId = 1 /\ toSender = <<>>
      /\ lastStatus = 0 /\ ops = 0 /\ told = {} /\ status = "running" /\ others = 0
      /\ session \in Sessions /\ sessions = session
      /\ calm = TRUE /\ crossed = FALSE /\ misled = FALSE /\ taken = {}
  BY DEF Init, InitRest
<1>2. q \in Requests
  BY DEF Requests, Sessions
<1>3. q.id = 1 /\ q.kind = "getStatus"
  OBVIOUS
<1> HIDE DEF q
<1>4. Len(toReceiver) = 1 /\ toReceiver[1] = q /\ toReceiver \in Seq(Requests) /\ Len(toSender) = 0
  BY <1>1, <1>2
<1>5. TypeOK
  <2>1. 0 \in Sessions /\ 0 \in 0..MaxOps /\ 0 \in 0..MaxOthers /\ 1 \in 1..MaxId /\ toSender \in Seq(Messages)
    BY <1>1 DEF Sessions
  <2> QED  BY <1>1, <1>2, <1>4, <2>1 DEF TypeOK
<1>6. Entries
  BY <1>1, <1>3, <1>4 DEF Entries, EntriesOf, Expected
<1>7. Current
  BY <1>1, <1>3, <1>4 DEF Current, Known, NoReport
<1> QED  BY <1>5, <1>6, <1>7 DEF IInv

LEMMA RequestIInv ==
  ASSUME IInv, NEW kind \in {"load", "getStatus"} \cup Commands, NEW s \in Sessions, NEW l \in 0..MaxOps,
         NEW left \in SUBSET Requests, \A q \in left : q.id <= lastId,
         \A q \in requests : \E r \in left : r.id = q.id,
         Request(left, kind, s, l),
         ops' \in 0..MaxOps, calm' \in BOOLEAN, crossed' \in BOOLEAN,
         UNCHANGED <<lastStatus, told, toSender, receiver, status, misled, taken>>
  PROVE  IInv'
<1> DEFINE q == [id |-> lastId + 1, kind |-> kind, session |-> s, op |-> l, armed |-> TRUE]
<1>1. /\ lastId < MaxId /\ lastId' = lastId + 1 /\ requests' = left \cup {q}
      /\ toReceiver' = Append(toReceiver, q)
  BY DEF Request
<1>2. lastId \in Nat /\ lastId' \in 1..MaxId
  BY <1>1 DEF IInv, TypeOK
<1>3. q \in Requests /\ q.id = lastId + 1
  BY <1>1, <1>2 DEF Requests
<1> HIDE DEF q
<1>4. UNCHANGED <<lastStatus, told, toSender, session, sessions, others, status, misled, taken>>
  BY DEF receiver
<1>5. /\ toReceiver \in Seq(Requests) /\ toSender \in Seq(Messages) /\ requests \in SUBSET Requests
      /\ taken \in SUBSET Nat
  BY DEF IInv, TypeOK
<1>6. TypeOK'
  <2>1. toReceiver' \in Seq(Requests) /\ requests' \subseteq Requests
    BY <1>1, <1>3, <1>5
  <2> QED  BY <1>2, <1>4, <2>1 DEF IInv, TypeOK
<1>7. Entries'
  BY <1>1, <1>2, <1>3, <1>4, <1>5, RequestKeepsEntries DEF IInv, Entries
<1>8. Current'
  <2>1. \A k \in 1..Len(toReceiver) : k \in 1..Len(toReceiver') /\ toReceiver'[k] = toReceiver[k]
    BY <1>1, <1>3, <1>5, AppendOf
  <2>2. Known => Known'
    BY <1>4, <2>1 DEF Known
  <2> QED  BY <1>4, <2>2 DEF IInv, Current
<1> QED  BY <1>6, <1>7, <1>8 DEF IInv

LEMMA CallIInv ==
  ASSUME IInv, UserCalls, NEW kind \in {"load", "getStatus"} \cup Commands, NEW s \in Sessions,
         Request(requests, kind, s, ops + 1)
  PROVE  IInv'
<1>1. /\ ops' = ops + 1 /\ ops < MaxOps
      /\ UNCHANGED <<lastStatus, told, toSender, receiver, status, misled, taken>>
  BY DEF UserCalls
<1>2. ops + 1 \in 0..MaxOps
  BY <1>1 DEF IInv, TypeOK
<1>3. calm' \in BOOLEAN /\ crossed' \in BOOLEAN
  BY DEF UserCalls, NewsUnderWay
<1>4. requests \in SUBSET Requests /\ \A q \in requests : q.id <= lastId
  BY DEF IInv, TypeOK, Entries, EntriesOf
<1> QED  BY <1>1, <1>2, <1>3, <1>4, RequestIInv

LEMMA RetryIInv ==
  ASSUME IInv, NEW q \in requests, Retry(q)
  PROVE  IInv'
<1> DEFINE disarmed == [q EXCEPT !.armed = FALSE]
           left == (requests \ {q}) \cup {disarmed}
<1>1. /\ Request(left, q.kind, q.session, q.op) /\ calm' = FALSE
      /\ UNCHANGED <<lastStatus, ops, told, toSender, receiver, status, crossed, misled, taken>>
  BY DEF Retry, SendsAgain
<1>2. q \in Requests
  BY DEF IInv, TypeOK
<1>3. /\ disarmed \in Requests /\ disarmed.id = q.id
      /\ q.kind \in {"load", "getStatus"} \cup Commands /\ q.session \in Sessions /\ q.op \in 0..MaxOps
  BY <1>2 DEF Requests
<1> HIDE DEF disarmed
<1>4. left \in SUBSET Requests /\ \A r \in left : r.id <= lastId
  BY <1>3 DEF IInv, TypeOK, Entries, EntriesOf
<1>5. \A r \in requests : \E t \in left : t.id = r.id
  BY <1>3
<1>6. ops' \in 0..MaxOps /\ calm' \in BOOLEAN /\ crossed' \in BOOLEAN
  BY <1>1 DEF IInv, TypeOK
<1> HIDE DEF left
<1> QED  BY <1>1, <1>3, <1>4, <1>5, <1>6, RequestIInv

LEMMA UserIInv ==
  ASSUME IInv,
         \/ Load \/ GetStatus \/ \E kind \in Commands : SessionRequest(kind)
         \/ \E q \in requests : Retry(q)
  PROVE  IInv'
<1>1. 0 \in Sessions /\ lastStatus \in Sessions
  BY DEF IInv, TypeOK, Sessions
<1>2. CASE Load
  BY <1>1, <1>2, CallIInv DEF Load
<1>3. CASE GetStatus
  BY <1>1, <1>3, CallIInv DEF GetStatus
<1>4. ASSUME NEW kind \in Commands, SessionRequest(kind)
      PROVE  IInv'
  BY <1>1, <1>4, CallIInv DEF SessionRequest
<1> QED  BY <1>2, <1>3, <1>4, RetryIInv

\* A message is handled, of which nothing is kept but the report in it.
LEMMA HandlingIInv ==
  ASSUME IInv, NEW m, Received(m),
         NEW left \in SUBSET requests, requests' = left,
         \A q \in requests : q \in left \/ (q.id = m.id /\ (Directed(m) \/ m.id \in taken')),
         taken' = taken \/ (taken' = taken \cup {m.id} /\ \E q \in requests : q.id = m.id),
         \/ status' # "running"
         \/ Reports(m) /\ lastStatus' = m.session /\ misled' = FALSE
         \/ ~Reports(m) /\ lastStatus' = lastStatus /\ misled' = misled
         \/ ~Reports(m) /\ lastStatus' = 0 /\ misled' = TRUE,
         lastStatus' \in Sessions, told' \subseteq 0..MaxOps, misled' \in BOOLEAN, calm' \in BOOLEAN,
         status' \in {"running", "refused", "unhandled"}
  PROVE  IInv'
<1>1. /\ toSender \in Seq(Messages) /\ toSender # <<>> /\ m = Head(toSender)
      /\ toSender' = Tail(toSender) /\ status = "running"
      /\ UNCHANGED <<lastId, ops, toReceiver, session, sessions, others, crossed>>
  BY DEF Received, IInv, TypeOK, receiver
<1>2. Tail(toSender) \in Seq(Messages)
  BY <1>1, TailOf
<1>3. /\ taken \subseteq taken' /\ taken' \subseteq 1..MaxId /\ \A i \in taken' : i <= lastId
  <2>1. taken \subseteq 1..MaxId /\ \A i \in taken : i <= lastId
    BY DEF IInv, TypeOK, Entries, EntriesOf
  <2>2. \A q \in requests : q.id \in 1..MaxId /\ q.id <= lastId
    BY DEF IInv, TypeOK, Requests, Entries, EntriesOf
  <2> QED  BY <2>1, <2>2
<1>4. TypeOK'
  <2>1. requests' \subseteq Requests
    BY DEF IInv, TypeOK
  <2> QED  BY <1>1, <1>2, <1>3, <2>1 DEF IInv, TypeOK
<1>5. Entries'
  <2>1. \A q \in requests : q \in left \/ q.id \in taken' \/ (Directed(m) /\ q.id = m.id)
    OBVIOUS
  <2>2. EntriesOf(requests, taken, lastId, toReceiver, toSender)
    BY DEF IInv, Entries
  <2>3. EntriesOf(left, taken', lastId, toReceiver, Tail(toSender))
    BY <1>1, <1>3, <2>1, <2>2, ReceivingKeepsEntries
  <2> QED  BY <1>1, <2>3 DEF Entries
<1>6. Current'
  <2>1. /\ LastReportIs(toSender, session) =>
             \/ LastReportIs(toSender', session)
             \/ NoReport(toSender') /\ Reports(m) /\ m.session = session
        /\ NoReport(toSender) => NoReport(toSender') /\ ~Reports(m)
    BY <1>1, ReportsOfTail
  <2>2. ASSUME NoReport(toSender')
        PROVE  Current'
    <3>1. CASE status' # "running"
      BY <2>2, <3>1 DEF Current
    <3>2. CASE Reports(m) /\ m.session = session /\ lastStatus' = m.session /\ misled' = FALSE
      BY <1>1, <2>2, <3>2 DEF Current, Known
    <3>3. CASE ~Reports(m) /\ lastStatus' = 0 /\ misled' = TRUE
      BY <2>2, <3>3 DEF Current, Known
    <3>4. CASE Known /\ ~Reports(m) /\ lastStatus' = lastStatus /\ misled' = misled
      <4>1. Known'
        BY <1>1, <3>4 DEF Known
      <4> QED  BY <2>2, <4>1 DEF Current
    <3>5. \/ Reports(m) /\ m.session = session
          \/ ~Reports(m) /\ Known
          \/ LastReportIs(toSender', session)
      BY <1>1, <2>1 DEF IInv, Current
    <3>6. ~LastReportIs(toSender', session)
      BY <2>2 DEF LastReportIs, NoReport
    <3> QED  BY <3>1, <3>2, <3>3, <3>4, <3>5, <3>6
  <2>3. CASE LastReportIs(toSender', session)
    BY <1>1, <2>3 DEF Current
  <2> QED  BY <2>1, <2>2, <2>3 DEF IInv, Current
<1> QED  BY <1>4, <1>5, <1>6 DEF IInv

LEMMA MessageIInv ==
  ASSUME IInv, toSender # <<>>, OnMessage(Head(toSender))
  PROVE  IInv'
<1> DEFINE m == Head(toSender)
<1>1. /\ lastStatus \in Sessions /\ m.session \in Sessions /\ 0 \in Sessions
      /\ told \subseteq 0..MaxOps /\ calm \in BOOLEAN /\ misled \in BOOLEAN
      /\ status \in {"running", "refused", "unhandled"}
  <2>1. m \in Messages
    BY TailOf DEF IInv, TypeOK
  <2> QED  BY <2>1 DEF IInv, TypeOK, Messages, Sessions
<1>2. \A q \in requests : q.op \in 0..MaxOps
  BY DEF IInv, TypeOK, Requests
<1> HIDE DEF m
<1>3. Reported(m) \in Sessions /\ (Reports(m) => Reported(m) = m.session) /\ (~Reports(m) => Reported(m) = lastStatus)
  BY <1>1 DEF Reported, Reports
<1>4. CASE OnInvalidRequest(m)
  <2>1. Received(m) /\ status' = "refused" /\ UNCHANGED <<lastStatus, requests, told, calm, misled, taken>>
    BY <1>4 DEF OnInvalidRequest
  <2> QED  BY <1>1, <2>1, HandlingIInv
<1>5. CASE OnBroadcast(m)
  <2>1. /\ Received(m) /\ lastStatus' = Reported(m) /\ misled' = (misled /\ ~Reports(m))
        /\ UNCHANGED <<requests, told, status, calm, taken>>
    BY <1>5 DEF OnBroadcast
  <2> QED  BY <1>1, <1>3, <2>1, HandlingIInv
<1>6. CASE OnUnhandledMessage(m)
  <2>1. /\ Received(m) /\ lastStatus' = Reported(m) /\ misled' = (misled /\ ~Reports(m))
        /\ status' \in {"running", "unhandled"}
        /\ UNCHANGED <<requests, told, calm, taken>>
    BY <1>6 DEF OnUnhandledMessage
  <2> QED  BY <1>1, <1>3, <2>1, HandlingIInv
<1>7. ASSUME NEW q \in requests, OnAnswer(m, q)
      PROVE  IInv'
  <2>1. /\ Received(m) /\ requests' = requests \ {q} /\ q.id = m.id
        /\ told' = told \cup {q.op} /\ UNCHANGED status
        /\ taken' = IF m.to = "*" THEN taken \cup {m.id} ELSE taken
        /\ calm' = (calm /\ m.to # "*")
    BY <1>7 DEF OnAnswer
  <2>2. /\ lastStatus' = IF m.type = "blank" /\ q.kind = "load" THEN 0 ELSE Reported(m)
        /\ misled' = ((m.type = "blank" /\ q.kind = "load") \/ (misled /\ ~Reports(m)))
    BY <1>7 DEF OnAnswer
  <2>3. \/ Reports(m) /\ lastStatus' = m.session /\ misled' = FALSE
        \/ ~Reports(m) /\ lastStatus' = lastStatus /\ misled' = misled
        \/ ~Reports(m) /\ lastStatus' = 0 /\ misled' = TRUE
    BY <2>2, <1>1 DEF Reported, Reports
  <2>4. lastStatus' \in Sessions /\ misled' \in BOOLEAN /\ calm' \in BOOLEAN /\ told' \subseteq 0..MaxOps
    BY <2>1, <2>3, <1>1, <1>2
  <2>5. m.to \in {"sender", "*"}
    <3>1. m \in Messages
      BY TailOf DEF IInv, TypeOK, m
    <3> QED  BY <3>1 DEF Messages
  <2>6. \A r \in requests : r \in requests \ {q} \/ (r.id = m.id /\ (Directed(m) \/ m.id \in taken'))
    BY <2>1, <2>5 DEF Directed
  <2>7. taken' = taken \/ (taken' = taken \cup {m.id} /\ \E r \in requests : r.id = m.id)
    BY <2>1
  <2> DEFINE left == requests \ {q}
  <2>8. status' \in {"running", "refused", "unhandled"} /\ left \in SUBSET requests /\ requests' = left
    BY <1>1, <2>1
  <2>9. \A r \in requests : r \in left \/ (r.id = m.id /\ (Directed(m) \/ m.id \in taken'))
    BY <2>6
  <2> HIDE DEF left
  <2> QED  BY <2>1, <2>3, <2>4, <2>7, <2>8, <2>9, HandlingIInv
<1> QED  BY <1>4, <1>5, <1>6, <1>7 DEF OnMessage, m

\* The receiver's status becomes s, which it reports, with an answer or without.
LEMMA ChangesIInv ==
  ASSUME IInv, NEW s \in Sessions, NEW b \in Messages, b.to = "*", Reports(b), b.session = s,
         session' = s, sessions' \in Sessions, others' \in 0..MaxOthers, crossed' \in BOOLEAN,
         UNCHANGED <<channel, status, calm, misled, taken>>,
         \/ toReceiver' = toReceiver /\ toSender' = Append(toSender, b)
         \/ /\ toReceiver # <<>> /\ toReceiver' = Tail(toReceiver)
            /\ \E m \in Messages :
                 /\ m.id = Head(toReceiver).id /\ (Reports(m) => m.session = s)
                 /\ toSender' = Append(Append(toSender, b), m)
  PROVE  IInv'
<1> DEFINE queue == Append(toSender, b)
<1>1. /\ toReceiver \in Seq(Requests) /\ toSender \in Seq(Messages) /\ queue \in Seq(Messages)
  BY AppendOf DEF IInv, TypeOK
<1>2. UNCHANGED <<lastStatus, requests, lastId, ops, told, status, calm, misled, taken>>
  BY DEF channel
<1>3. EntriesOf(requests, taken, lastId, toReceiver, queue) /\ LastReportIs(queue, s)
  <2>1. ~Directed(b)
    BY DEF Directed
  <2>2. EntriesOf(requests, taken, lastId, toReceiver, queue)
    BY <1>1, <2>1, BroadcastKeepsEntries DEF IInv, Entries
  <2> QED  BY <1>1, <2>2, ReportIsLast
<1> HIDE DEF queue
<1>4. CASE toReceiver' = toReceiver /\ toSender' = queue
  <2>1. TypeOK'
    BY <1>1, <1>2, <1>4 DEF IInv, TypeOK
  <2>2. Entries'
    BY <1>2, <1>3, <1>4 DEF Entries
  <2>3. Current'
    BY <1>3, <1>4 DEF Current
  <2> QED  BY <2>1, <2>2, <2>3 DEF IInv
<1>5. ASSUME NEW m \in Messages, toReceiver # <<>>, toReceiver' = Tail(toReceiver),
             m.id = Head(toReceiver).id, Reports(m) => m.session = s, toSender' = Append(queue, m)
      PROVE  IInv'
  <2>1. toSender' \in Seq(Messages) /\ toReceiver' \in Seq(Requests)
    BY <1>1, <1>5, TailOf, AppendOf
  <2>2. EntriesOf(requests, taken, lastId, toReceiver', toSender')
    BY <1>1, <1>3, <1>5, AnswerKeepsEntries
  <2>3. LastReportIs(toSender', s)
    BY <1>1, <1>3, <1>5, ReportIsLast, SilentIsNotLast
  <2>4. TypeOK'
    BY <1>2, <2>1 DEF IInv, TypeOK
  <2>5. Entries' /\ Current'
    BY <1>2, <2>2, <2>3 DEF Entries, Current
  <2> QED  BY <2>4, <2>5 DEF IInv
<1> QED  BY <1>4, <1>5 DEF queue

\* The receiver's status stays as it is, and it answers.
LEMMA AnswersIInv ==
  ASSUME IInv, NEW m \in Messages, toReceiver # <<>>, toReceiver' = Tail(toReceiver),
         m.id = Head(toReceiver).id, Reports(m) => m.session = session,
         Head(toReceiver).kind = "getStatus" => Reports(m),
         toSender' = Append(toSender, m),
         UNCHANGED <<channel, receiver, status, history>>
  PROVE  IInv'
<1>1. /\ toReceiver \in Seq(Requests) /\ toSender \in Seq(Messages)
      /\ toReceiver' \in Seq(Requests) /\ toSender' \in Seq(Messages)
  BY TailOf, AppendOf DEF IInv, TypeOK
<1>2. /\ UNCHANGED <<lastStatus, requests, lastId, ops, told, session, sessions, others, status>>
      /\ UNCHANGED <<calm, crossed, misled, taken>>
  BY DEF channel, receiver, history
<1>3. TypeOK'
  BY <1>1, <1>2 DEF IInv, TypeOK
<1>4. Entries'
  BY <1>1, <1>2, AnswerKeepsEntries DEF IInv, Entries
<1>5. CASE Reports(m)
  <2>1. LastReportIs(toSender', session)
    BY <1>1, <1>5, ReportIsLast
  <2>2. Current'
    BY <1>2, <2>1 DEF Current
  <2> QED  BY <2>2, <1>3, <1>4 DEF IInv
<1>6. CASE ~Reports(m)
  <2>1. /\ LastReportIs(toSender, session) => LastReportIs(toSender', session)
        /\ NoReport(toSender) => NoReport(toSender')
    BY <1>1, <1>6, SilentIsNotLast
  <2>2. ASSUME NEW k \in 1..Len(toReceiver), toReceiver[k].kind = "getStatus"
        PROVE  \E j \in 1..Len(toReceiver') : toReceiver'[j].kind = "getStatus"
    <3>1. k # 1
      BY <2>2, <1>1, <1>6, TailOf
    <3>2. k - 1 \in 1..Len(toReceiver') /\ toReceiver'[k - 1] = toReceiver[k]
      BY <3>1, <1>1
    <3> QED  BY <2>2, <3>2
  <2>3. Known => Known'
    BY <1>2, <2>2 DEF Known
  <2>4. Current'
    BY <1>2, <2>1, <2>3 DEF IInv, Current
  <2> QED  BY <2>4, <1>3, <1>4 DEF IInv
<1> QED  BY <1>5, <1>6

LEMMA MessageTypes ==
  /\ \A id \in 0..MaxId : \A to \in {"sender", "*"} : \A s \in Sessions :
       LET m == Message(id, to, "MEDIA_STATUS", s) IN
       m \in Messages /\ m.id = id /\ m.to = to /\ Reports(m) /\ m.session = s
  /\ \A id \in 0..MaxId : \A to \in {"sender", "*"} : \A type \in Refusals :
       LET m == Message(id, to, type, 0) IN m \in Messages /\ m.id = id /\ m.to = to /\ ~Reports(m)
BY DEF Message, Messages, Reports, Refusals, Sessions

\* What a step of the receiver sends.
LEMMA ServingSends ==
  ASSUME IInv, toReceiver # <<>>, ReceiverStep(Head(toReceiver))
  PROVE  LET q == Head(toReceiver) IN
         /\ toReceiver' = Tail(toReceiver) /\ others' = others
         /\ UNCHANGED <<channel, status, history>>
         /\ sessions' \in Sessions
         /\ \E m \in Messages :
              /\ m.id = q.id
              /\ \/ \E s \in Sessions :
                      /\ session' = s /\ (Reports(m) => m.session = s)
                      /\ toSender' = Append(Append(toSender, Message(0, "*", "MEDIA_STATUS", s)), m)
                 \/ /\ UNCHANGED <<session, sessions>>
                    /\ Reports(m) => m.session = session
                    /\ q.kind = "getStatus" => Reports(m)
                    /\ toSender' = Append(toSender, m)
<1> DEFINE q == Head(toReceiver)
           sends(m) == /\ m.id = q.id
                       /\ \/ \E s \in Sessions :
                               /\ session' = s /\ (Reports(m) => m.session = s)
                               /\ toSender' = Append(Append(toSender, Message(0, "*", "MEDIA_STATUS", s)), m)
                          \/ /\ UNCHANGED <<session, sessions>>
                             /\ Reports(m) => m.session = session
                             /\ q.kind = "getStatus" => Reports(m)
                             /\ toSender' = Append(toSender, m)
<1>1. /\ toSender \in Seq(Messages) /\ session \in Sessions /\ sessions \in Sessions /\ sessions \in Nat
      /\ 0 \in Sessions
  BY DEF IInv, TypeOK, Sessions
<1>2. q.id \in 0..MaxId
  <2>1. q \in Requests
    BY TailOf DEF IInv, TypeOK
  <2>2. q.id \in 1..MaxId
    BY <2>1 DEF Requests
  <2> QED  BY <2>2
<1>3. \E kinds : Serves(q, kinds)
  BY DEF ReceiverStep, ReceiverLoads, ReceiverFails, ReceiverReports, ReceiverObeys, ReceiverRefuses
<1>4. toReceiver' = Tail(toReceiver) /\ others' = others /\ UNCHANGED <<channel, status, history>>
  BY <1>3 DEF Serves
<1> HIDE DEF q
<1>5. ASSUME NEW s \in Sessions, NEW m \in Messages, Changes(s, 0, <<m>>), m.id = q.id, Reports(m) => m.session = s
      PROVE  sends(m)
  <2>1. Message(0, "*", "MEDIA_STATUS", s) \in Messages
    BY MessageTypes
  <2>2. session' = s /\ toSender' = Append(Append(toSender, Message(0, "*", "MEDIA_STATUS", s)), m)
    BY <1>1, <1>5, <2>1, ConcatenationOf DEF Changes
  <2> QED  BY <1>5, <2>2
<1>6. CASE ReceiverLoads(q)
  <2>1. sessions' \in Sessions /\ sessions + 1 \in Sessions
        /\ Changes(sessions + 1, 0, <<Message(q.id, "sender", "MEDIA_STATUS", sessions + 1)>>)
    BY <1>1, <1>6 DEF ReceiverLoads, Sessions
  <2>2. LET m == Message(q.id, "sender", "MEDIA_STATUS", sessions + 1) IN
        m \in Messages /\ m.id = q.id /\ m.session = sessions + 1
    BY <1>2, <2>1, MessageTypes
  <2>3. sends(Message(q.id, "sender", "MEDIA_STATUS", sessions + 1))
    BY <1>5, <2>1, <2>2
  <2> QED  BY <1>4, <2>1, <2>2, <2>3 DEF q
<1>7. CASE ReceiverFails(q)
  <2>1. PICK type \in Refusals : LET m == Message(q.id, "sender", type, 0) IN Changes(0, 0, <<m>>) \/ Answers(m)
    BY <1>7 DEF ReceiverFails
  <2> DEFINE m == Message(q.id, "sender", type, 0)
  <2>2. m \in Messages /\ m.id = q.id /\ ~Reports(m)
    BY <1>2, MessageTypes
  <2>3. sessions' = sessions /\ q.kind = "load"
    BY <1>7 DEF ReceiverFails, Serves
  <2>4. CASE Changes(0, 0, <<m>>)
    <3> HIDE DEF m
    <3>1. sends(m)
      BY <1>1, <1>5, <2>2, <2>4
    <3> QED  BY <1>1, <1>4, <2>2, <2>3, <3>1 DEF q
  <2>5. CASE Answers(m)
    <3> HIDE DEF m
    <3>1. sends(m)
      BY <2>2, <2>3, <2>5 DEF Answers
    <3> QED  BY <1>1, <1>4, <2>2, <2>3, <3>1 DEF q
  <2> QED  BY <2>1, <2>4, <2>5
<1>8. CASE ReceiverReports(q)
  <2> DEFINE m == Message(q.id, "sender", "MEDIA_STATUS", session)
  <2>1. Answers(m) /\ sessions' = sessions
    BY <1>8 DEF ReceiverReports
  <2>2. m \in Messages /\ m.id = q.id /\ Reports(m) /\ m.session = session
    BY <1>1, <1>2, MessageTypes
  <2> HIDE DEF m
  <2>3. sends(m)
    BY <2>1, <2>2 DEF Answers
  <2> QED  BY <1>1, <1>4, <2>1, <2>2, <2>3 DEF q
<1>9. CASE ReceiverObeys(q)
  <2>1. PICK s \in Sessions : Changes(s, 0, <<Message(q.id, "sender", "MEDIA_STATUS", s)>>)
    BY <1>1, <1>9 DEF ReceiverObeys
  <2>2. sessions' = sessions
    BY <1>9 DEF ReceiverObeys
  <2>3. LET m == Message(q.id, "sender", "MEDIA_STATUS", s) IN m \in Messages /\ m.id = q.id /\ m.session = s
    BY <1>2, MessageTypes
  <2>4. sends(Message(q.id, "sender", "MEDIA_STATUS", s))
    BY <1>5, <2>1, <2>3
  <2> QED  BY <1>1, <1>4, <2>2, <2>3, <2>4 DEF q
<1>10. CASE ReceiverRefuses(q)
  <2>1. PICK type \in Refusals : Answers(Message(q.id, "sender", type, 0))
    BY <1>10 DEF ReceiverRefuses
  <2> DEFINE m == Message(q.id, "sender", type, 0)
  <2>2. m \in Messages /\ m.id = q.id /\ ~Reports(m)
    BY <1>2, MessageTypes
  <2>3. sessions' = sessions /\ q.kind # "getStatus"
    BY <1>10 DEF ReceiverRefuses, Serves, Commands
  <2>4. Answers(m)
    BY <2>1
  <2> HIDE DEF m
  <2>5. sends(m)
    BY <2>2, <2>3, <2>4 DEF Answers
  <2> QED  BY <1>1, <1>4, <2>2, <2>3, <2>5 DEF q
<1> QED  BY <1>6, <1>7, <1>8, <1>9, <1>10 DEF ReceiverStep, q

LEMMA ServingIInv ==
  ASSUME IInv, toReceiver # <<>>, ReceiverStep(Head(toReceiver))
  PROVE  IInv'
<1>1. /\ toReceiver' = Tail(toReceiver) /\ others' = others
      /\ UNCHANGED <<channel, status, history>> /\ sessions' \in Sessions
  BY ServingSends
<1>2. PICK m \in Messages :
        /\ m.id = Head(toReceiver).id
        /\ \/ \E s \in Sessions :
                /\ session' = s /\ (Reports(m) => m.session = s)
                /\ toSender' = Append(Append(toSender, Message(0, "*", "MEDIA_STATUS", s)), m)
           \/ /\ UNCHANGED <<session, sessions>>
              /\ Reports(m) => m.session = session
              /\ Head(toReceiver).kind = "getStatus" => Reports(m)
              /\ toSender' = Append(toSender, m)
  BY ServingSends
<1>3. ASSUME NEW s \in Sessions, session' = s, Reports(m) => m.session = s,
             toSender' = Append(Append(toSender, Message(0, "*", "MEDIA_STATUS", s)), m)
      PROVE  IInv'
  <2> DEFINE b == Message(0, "*", "MEDIA_STATUS", s)
  <2>1. b \in Messages /\ b.to = "*" /\ Reports(b) /\ b.session = s
    BY MessageTypes
  <2>2. others' \in 0..MaxOthers /\ crossed' \in BOOLEAN /\ UNCHANGED <<calm, misled, taken>>
    BY <1>1 DEF IInv, TypeOK, history
  <2>3. toSender' = Append(Append(toSender, b), m)
    BY <1>3
  <2> HIDE DEF b
  <2> QED  BY <1>1, <1>2, <1>3, <2>1, <2>2, <2>3, ChangesIInv
<1>4. CASE /\ UNCHANGED <<session, sessions>>
           /\ Reports(m) => m.session = session
           /\ Head(toReceiver).kind = "getStatus" => Reports(m)
           /\ toSender' = Append(toSender, m)
  <2>1. UNCHANGED receiver
    BY <1>1, <1>4 DEF receiver
  <2> QED  BY <1>1, <1>2, <1>4, <2>1, AnswersIInv
<1> QED  BY <1>2, <1>3, <1>4

LEMMA StatusIInv ==
  ASSUME IInv, StatusChanges
  PROVE  IInv'
<1>1. /\ toSender \in Seq(Messages) /\ session \in Sessions /\ sessions \in Sessions /\ sessions \in Nat
      /\ 0 \in Sessions /\ others \in Nat
  BY DEF IInv, TypeOK, Sessions
<1>2. PICK id \in OtherIds :
        \/ sessions < MaxSession /\ sessions' = sessions + 1 /\ Changes(sessions + 1, id, <<>>)
        \/ Changes(0, id, <<>>) /\ sessions' = sessions
        \/ Changes(session, id, <<>>) /\ sessions' = sessions
  BY DEF StatusChanges
<1>3. PICK s \in Sessions : Changes(s, id, <<>>) /\ sessions' \in Sessions
  <2>1. sessions < MaxSession => sessions + 1 \in Sessions
    BY <1>1 DEF Sessions
  <2> QED  BY <1>1, <1>2, <2>1
<1> DEFINE b == Message(id, "*", "MEDIA_STATUS", s)
<1>4. b \in Messages /\ b.to = "*" /\ Reports(b) /\ b.session = s
  BY MessageTypes
<1>5. session' = s /\ toSender' = Append(toSender, b)
  BY <1>1, <1>3, <1>4, ConcatenationOf DEF Changes
<1> HIDE DEF b
<1>6. /\ crossed' \in BOOLEAN /\ others' \in 0..MaxOthers /\ toReceiver' = toReceiver
      /\ UNCHANGED <<channel, status, calm, misled, taken>>
  BY <1>1 DEF StatusChanges, IInv, TypeOK
<1> QED  BY <1>3, <1>4, <1>5, <1>6, ChangesIInv

LEMMA RefusalIInv ==
  ASSUME IInv, OtherIsRefused
  PROVE  IInv'
<1>1. PICK id \in OtherIds, type \in Refusals : Answers(Message(id, "*", type, 0))
  BY DEF OtherIsRefused
<1> DEFINE m == Message(id, "*", type, 0)
<1>2. m \in Messages /\ m.to = "*" /\ ~Reports(m)
  BY MessageTypes
<1>3. toSender' = Append(toSender, m) /\ session' = session
  BY <1>1 DEF Answers
<1> HIDE DEF m
<1>4. /\ UNCHANGED <<lastStatus, requests, lastId, ops, told, toReceiver, sessions, status>>
      /\ UNCHANGED <<calm, crossed, misled, taken>>
      /\ others < MaxOthers /\ others' = others + 1
  BY DEF OtherIsRefused, channel, history
<1>5. toSender \in Seq(Messages) /\ toSender' \in Seq(Messages) /\ others' \in 0..MaxOthers
  BY <1>2, <1>3, <1>4 DEF IInv, TypeOK
<1>6. TypeOK'
  BY <1>3, <1>4, <1>5 DEF IInv, TypeOK
<1>7. Entries'
  BY <1>2, <1>3, <1>4, <1>5, BroadcastKeepsEntries DEF IInv, Entries, Directed
<1>8. Current'
  <2>1. /\ LastReportIs(toSender, session) => LastReportIs(toSender', session)
        /\ NoReport(toSender) => NoReport(toSender')
    BY <1>2, <1>3, <1>5, SilentIsNotLast
  <2>2. Known => Known'
    BY <1>3, <1>4 DEF Known
  <2> QED  BY <1>3, <1>4, <2>1, <2>2 DEF IInv, Current
<1> QED  BY <1>6, <1>7, <1>8 DEF IInv

LEMMA NextIInv == IInv /\ [Next]_vars => IInv'
<1>1. CASE UNCHANGED vars
  BY <1>1 DEF vars, channel, receiver, history, IInv, TypeOK, Entries, Current, Known
<1> QED  BY <1>1, UserIInv, MessageIInv, ServingIInv, StatusIInv, RefusalIInv DEF Next

-----------------------------------------------------------------------------
(* A user who waits *)

LEMMA InitWaits == Init => Waiting
<1> SUFFICES ASSUME Init
             PROVE  Waiting
  OBVIOUS
<1> DEFINE q == [id |-> 1, kind |-> "getStatus", session |-> 0, op |-> 0, armed |-> TRUE]
<1>1. requests = {q} /\ toReceiver = <<q>> /\ lastId = 1 /\ ops = 0 /\ told = {}
  BY DEF Init, InitRest
<1>2. q.id = 1 /\ q.op = 0 /\ q.kind = "getStatus"
  OBVIOUS
<1> HIDE DEF q
<1>3. Len(toReceiver) = 1 /\ toReceiver[1] = q
  BY <1>1
<1> QED  BY <1>1, <1>2, <1>3 DEF Waiting, CommandsFitTheSession, Commands

\* If nothing is under way to the receiver and no report will change what the channel
\* knows, then it knows the session, or none.
LEMMA NoNews ==
  ASSUME IInv, toReceiver = <<>>, status = "running", ~NewsUnderWay
  PROVE  lastStatus \in {0, session}
<1>1. ASSUME LastReportIs(toSender, session)
      PROVE  lastStatus = session
  BY <1>1 DEF LastReportIs, NewsUnderWay, Reports
<1>2. ASSUME Known
      PROVE  lastStatus \in {0, session}
  BY <1>2 DEF Known
<1> QED  BY <1>1, <1>2 DEF IInv, Current

\* A call is made when nothing is under way, or the user did not wait.
LEMMA CallWaits ==
  ASSUME IInv, Waiting, UserCalls, NEW kind \in {"load", "getStatus"} \cup Commands, NEW s,
         Request(requests, kind, s, ops + 1),
         kind \in Commands => s = lastStatus
  PROVE  Waiting'
<1> SUFFICES ASSUME calm'
             PROVE  /\ lastId' = ops' + 1
                    /\ \A q \in requests' : q.id = q.op + 1
                    /\ \A k \in 1..Len(toReceiver') :
                         LET q == toReceiver'[k] IN q.id = q.op + 1 /\ q.op = ops' /\ q.op \notin told'
                    /\ CommandsFitTheSession'
  BY DEF Waiting
<1> DEFINE q == [id |-> lastId + 1, kind |-> kind, session |-> s, op |-> ops + 1, armed |-> TRUE]
<1>1. requests' = requests \cup {q} /\ toReceiver' = Append(toReceiver, q) /\ lastId' = lastId + 1
  BY DEF Request
<1>2. /\ status = "running" /\ ops' = ops + 1 /\ calm /\ told = 0..ops /\ told' = told
      /\ crossed' = NewsUnderWay /\ session' = session
  BY DEF UserCalls, receiver
<1>3. lastId = ops + 1 /\ ops \in Nat
  BY <1>2 DEF Waiting, IInv, TypeOK
<1>4. q.op = ops + 1 /\ q.id = q.op + 1 /\ q.kind = kind /\ q.session = s
  BY <1>3
<1> HIDE DEF q
<1>5. toReceiver = <<>>
  <2>1. Len(toReceiver) = 0
    <3>1. ASSUME NEW k \in 1..Len(toReceiver)
          PROVE  FALSE
      <4>1. toReceiver[k].op = ops /\ toReceiver[k].op \notin told
        BY <1>2, <3>1 DEF Waiting
      <4> QED  BY <1>2, <1>3, <4>1
    <3>2. Len(toReceiver) \in Nat
      BY DEF IInv, TypeOK
    <3> QED  BY <3>1, <3>2
  <2>2. toReceiver \in Seq(Requests)
    BY DEF IInv, TypeOK
  <2> QED  BY <2>1, <2>2
<1>6. Len(toReceiver') = 1 /\ toReceiver'[1] = q
  BY <1>1, <1>5
<1>7. \A r \in requests' : r.id = r.op + 1
  BY <1>1, <1>2, <1>4 DEF Waiting
<1>8. q.op = ops' /\ q.op \notin told'
  BY <1>2, <1>3, <1>4
<1>9. CommandsFitTheSession'
  <2>1. ASSUME ~crossed', kind \in Commands
        PROVE  s \in {0, session}
    BY <1>2, <1>5, <2>1, NoNews
  <2> QED  BY <1>2, <1>4, <1>6, <2>1 DEF CommandsFitTheSession
<1>10. lastId' = ops' + 1
  BY <1>1, <1>2, <1>3
<1> QED  BY <1>4, <1>6, <1>7, <1>8, <1>9, <1>10

\* The answer of a call comes when its request is no longer under way.
LEMMA MessageWaits ==
  ASSUME IInv, Waiting, toSender # <<>>, OnMessage(Head(toSender))
  PROVE  Waiting'
<1> DEFINE m == Head(toSender)
<1>1. /\ toSender \in Seq(Messages) /\ m \in Messages /\ m = toSender[1] /\ 1 \in 1..Len(toSender)
  BY TailOf DEF IInv, TypeOK
<1> HIDE DEF m
<1>2. /\ UNCHANGED <<lastId, ops, toReceiver, session, crossed>> /\ requests' \subseteq requests
      /\ \/ told' = told /\ calm' = calm
         \/ \E q \in requests : q.id = m.id /\ told' = told \cup {q.op} /\ calm' = (calm /\ m.to # "*")
  <2>1. CASE OnInvalidRequest(m)
    BY <2>1 DEF OnInvalidRequest, Received, receiver
  <2>2. CASE OnBroadcast(m)
    BY <2>2 DEF OnBroadcast, Received, receiver
  <2>3. CASE OnUnhandledMessage(m)
    BY <2>3 DEF OnUnhandledMessage, Received, receiver
  <2>4. ASSUME NEW q \in requests, OnAnswer(m, q)
        PROVE  /\ UNCHANGED <<lastId, ops, toReceiver, session, crossed>> /\ requests' \subseteq requests
               /\ q.id = m.id /\ told' = told \cup {q.op} /\ calm' = (calm /\ m.to # "*")
    BY <2>4 DEF OnAnswer, Received, receiver
  <2> QED  BY <2>1, <2>2, <2>3, <2>4 DEF OnMessage, m
<1>3. CASE told' = told /\ calm' = calm
  BY <1>2, <1>3 DEF Waiting, CommandsFitTheSession
<1>4. ASSUME NEW q \in requests, q.id = m.id, told' = told \cup {q.op}, calm' = (calm /\ m.to # "*"), calm'
      PROVE  Waiting'
  <2>1. Directed(m)
    BY <1>1, <1>4 DEF Messages, Directed
  <2>2. ASSUME NEW k \in 1..Len(toReceiver)
        PROVE  toReceiver[k].op # q.op
    <3>1. toReceiver[k].id # m.id
      BY <1>1, <2>1 DEF IInv, Entries, EntriesOf
    <3>2. toReceiver[k].id = toReceiver[k].op + 1 /\ q.id = q.op + 1
      BY <1>4 DEF Waiting
    <3> QED  BY <1>4, <3>1, <3>2
  <2> QED  BY <1>2, <1>4, <2>2 DEF Waiting, CommandsFitTheSession
<1> QED  BY <1>2, <1>3, <1>4 DEF Waiting

\* The receiver serves what is under way: nothing is after that.
LEMMA ServingWaits ==
  ASSUME IInv, Waiting, toReceiver # <<>>, ReceiverStep(Head(toReceiver))
  PROVE  Waiting'
<1>1. /\ toReceiver' = Tail(toReceiver)
      /\ UNCHANGED <<requests, lastId, ops, told, calm>>
  BY ServingSends DEF channel, history
<1>2. SUFFICES ASSUME calm
               PROVE  Waiting'
  BY <1>1 DEF Waiting
<1>3. toReceiver \in Seq(Requests)
  BY DEF IInv, TypeOK
<1>4. Len(toReceiver') = 0
  <2>1. Len(toReceiver) \in Nat \ {0} /\ Len(toReceiver') = Len(toReceiver) - 1
    BY <1>1, <1>3, TailOf
  <2>2. ASSUME Len(toReceiver) > 1
        PROVE  FALSE
    <3>1. 1 \in 1..Len(toReceiver) /\ 2 \in 1..Len(toReceiver)
      BY <2>1, <2>2
    <3>2. toReceiver[1].id = toReceiver[2].id
      BY <1>2, <3>1 DEF Waiting
    <3>3. 1 = 2
      BY <3>1, <3>2 DEF IInv, Entries, EntriesOf
    <3> QED  BY <3>3
  <2> QED  BY <2>1, <2>2
<1>5. \A k \in 1..Len(toReceiver') : FALSE
  BY <1>4
<1>6. CommandsFitTheSession'
  BY <1>5 DEF CommandsFitTheSession
<1> QED  BY <1>1, <1>2, <1>5, <1>6 DEF Waiting

LEMMA NextWaits == IInv /\ Waiting /\ [Next]_vars => Waiting'
<1> SUFFICES ASSUME IInv, Waiting, [Next]_vars
             PROVE  Waiting'
  OBVIOUS
<1>1. CASE UNCHANGED vars
  BY <1>1 DEF vars, channel, receiver, history, Waiting, CommandsFitTheSession
<1>2. CASE Load
  BY <1>2, CallWaits DEF Load, Commands
<1>3. CASE GetStatus
  BY <1>3, CallWaits DEF GetStatus, Commands
<1>4. ASSUME NEW kind \in Commands, SessionRequest(kind)
      PROVE  Waiting'
  BY <1>4, CallWaits DEF SessionRequest
<1>5. ASSUME NEW q \in requests, Retry(q)
      PROVE  Waiting'
  BY <1>5 DEF Retry, SendsAgain, Waiting
<1>6. CASE StatusChanges
  <2>1. /\ UNCHANGED <<requests, lastId, ops, told, toReceiver, calm>>
        /\ crossed' = (crossed \/ session' # session)
    BY <1>6 DEF StatusChanges, channel
  <2> QED  BY <2>1 DEF Waiting, CommandsFitTheSession
<1>7. CASE OtherIsRefused
  <2>1. UNCHANGED <<requests, lastId, ops, told, toReceiver, calm, crossed, session>>
    BY <1>7 DEF OtherIsRefused, Answers, channel, history
  <2> QED  BY <2>1 DEF Waiting, CommandsFitTheSession
<1> QED  BY <1>1, <1>2, <1>3, <1>4, <1>5, <1>6, <1>7, MessageWaits, ServingWaits DEF Next

-----------------------------------------------------------------------------
(* The theorems *)

LEMMA Invariance == Spec => []IInv
BY InitIInv, NextIInv, PTL DEF Spec

\* Every variable keeps its type.
THEOREM TypeCorrect == Spec => []TypeOK
<1>1. IInv => TypeOK
  BY DEF IInv
<1> QED  BY <1>1, Invariance, PTL

\* Every answer under way finds its entry (channel.cpp:42 throws otherwise), for any number
\* of calls and retries and whatever else is reported, unless another client's took it.
THEOREM AnswersFindTheirRequest == Spec => []AnswersAreExpected
<1>1. IInv => AnswersAreExpected
  BY DEF IInv, Entries, EntriesOf, Expected, Directed, AnswersAreExpected
<1> QED  BY <1>1, Invariance, PTL

\* Once everything has arrived the channel knows the receiver's session, whoever began or
\* ended it, unless an answer without a status was taken for one (media_channel.cpp:48-49).
THEOREM StatusBecomesCurrent == Spec => []StatusIsCurrent
<1>1. ASSUME IInv, toSender = <<>>, toReceiver = <<>>, status = "running"
      PROVE  lastStatus = IF misled THEN 0 ELSE session
  <2>1. ~LastReportIs(toSender, session)
    BY <1>1 DEF LastReportIs
  <2> QED  BY <1>1, <2>1 DEF IInv, Current, Known
<1>2. IInv => StatusIsCurrent
  BY <1>1 DEF StatusIsCurrent
<1> QED  BY <1>2, Invariance, PTL

\* The commands of a user who waits for his answers, if nothing is sent twice, name the
\* receiver's session or none when they reach it, until the session changes by itself
\* without his knowing, for any number of calls, refusals and changes.
THEOREM CommandsFit == Spec => []CommandsFitTheSession
<1>1. Waiting => CommandsFitTheSession
  BY DEF Waiting, CommandsFitTheSession
<1>2. Spec => []Waiting
  BY InitWaits, NextWaits, Invariance, PTL DEF Spec
<1> QED  BY <1>1, <1>2, PTL
=============================================================================
