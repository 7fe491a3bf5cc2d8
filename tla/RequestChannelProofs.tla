------------------------ MODULE RequestChannelProofs ------------------------
(***************************************************************************)
(* Theorems about RequestChannel, for any number of channels and requests, *)
(* any bound on the ids and any behaviour of the environment.              *)
(*                                                                         *)
(* The invariant says which ids exist (Allocated), which of them are still *)
(* in the map (PendingIds), and how the timers of a request stand along    *)
(* the chain of its retries (RetryChain).                                  *)
(***************************************************************************)
EXTENDS RequestChannel, TLAPS

\* An id has a request and a timer exactly when the counter has reached it, and
\* the request was issued on a channel.
Allocated ==
  \A i \in Ids :
    /\ i <= counter <=> call[i] # None
    /\ i <= counter <=> timer[i] # "unset"
    /\ i > counter => completedBy[i] = "nobody" /\ i \notin unanswered
    /\ i <= counter => HomeOf(i) # None

\* The map holds the ids that have not been answered, on channels still alive.
PendingIds ==
  \A i \in Ids : i \in pending <=> i <= counter /\ completedBy[i] = "nobody" /\ HomeOf(i) \in alive

\* An armed timer belongs to an entry; an entry of the newest id has a timer
\* that will retry; all older ids have a timer that has run.
RetryChain ==
  /\ CancelledWhenAnswered
  /\ RetryNeverLost
  /\ SingleTimer

\* An id the receiver itself has answered is no longer owed an answer.
AnsweredOnce == \A i \in unanswered : completedBy[i] # "receiver"

\* A request that was issued has an id.
Issued == \A c \in Calls : home[c] # None => \E i \in Ids : call[i] = c

IInv == TypeOK /\ Allocated /\ Issued /\ PendingIds /\ RetryChain /\ AnsweredOnce

-----------------------------------------------------------------------------

USE DEF Ids, Live, TimerStates, HomeOf

LEMMA InitIInv == Init => IInv
  BY ConstantsAssumption DEF Init, IInv, TypeOK, Allocated, Issued, PendingIds, RetryChain, AnsweredOnce,
     CancelledWhenAnswered, RetryNeverLost, SingleTimer, Newest

\* A new id extends the invariant if it is given to a request that has a channel
\* alive, and whose timers have all run.
LEMMA AttemptIInv ==
  ASSUME IInv, NEW c \in Calls, NEW timers \in [Ids -> TimerStates],
         Attempt(c, timers),
         home' \in [Calls -> Channels \cup {None}], home'[c] \in alive,
         \A d \in Calls : d # c => home'[d] = home[d],
         \A i \in Ids : call[i] = c => home'[c] = home[c] /\ timers[i] = "done",
         \A i \in Ids : call[i] # c => timers[i] = timer[i],
         UNCHANGED <<completedBy, alive, status>>
  PROVE  IInv'
<1> DEFINE n == counter + 1
<1> USE ConstantsAssumption DEF IInv, RetryChain
<1>1. n \in Ids /\ counter \in Nat /\ ~(n <= counter)
  BY DEF TypeOK, Attempt
<1>2. call[n] = None /\ timer[n] = "unset" /\ completedBy[n] = "nobody"
  BY <1>1 DEF Allocated
<1>3. /\ counter' = n /\ call' = [call EXCEPT ![n] = c] /\ timer' = [timers EXCEPT ![n] = "armed"]
      /\ pending' = pending \cup {n} /\ unanswered' = unanswered \cup {n}
  BY DEF Attempt
<1>4. \A i \in Ids : i <= n <=> i <= counter \/ i = n
  BY <1>1
<1>5. \A i \in Ids \ {n} : i <= counter => call[i] \in Calls
  BY DEF TypeOK, Allocated
<1>6. None \notin Channels /\ None \notin Calls /\ home'[c] # None
  BY DEF TypeOK
<1>7. TypeOK'
  BY <1>1, <1>3 DEF TypeOK
<1>8. \A i \in Ids \ {n} : call'[i] = call[i] /\ timer'[i] = timers[i]
  BY <1>3 DEF TypeOK
<1>9. call'[n] = c /\ timer'[n] = "armed"
  BY <1>1, <1>3 DEF TypeOK
<1>10. \A i \in Ids \ {n} : i <= counter => home'[call[i]] = home[call[i]]
  BY <1>5
<1>11. Allocated'
  <2> SUFFICES ASSUME NEW i \in Ids
      PROVE /\ i <= counter' <=> call'[i] # None
            /\ i <= counter' <=> timer'[i] # "unset"
            /\ i > counter' => completedBy'[i] = "nobody" /\ i \notin unanswered'
            /\ i <= counter' => home'[call'[i]] # None
    BY DEF Allocated
  <2>1. CASE i = n
    BY <2>1, <1>1, <1>3, <1>6, <1>9
  <2>2. CASE i # n
    <3>1. timers[i] # "unset" <=> timer[i] # "unset"
      <4>1. CASE call[i] = c
        BY <4>1, <1>6 DEF Allocated
      <4>2. CASE call[i] # c
        BY <4>2
      <4> QED BY <4>1, <4>2
    <3>2. i > n => i > counter
      BY <1>1
    <3> QED BY <2>2, <3>1, <3>2, <1>3, <1>4, <1>8, <1>10 DEF Allocated
  <2> QED BY <2>1, <2>2
<1>12. PendingIds'
  <2> SUFFICES ASSUME NEW i \in Ids
      PROVE i \in pending' <=> i <= counter' /\ completedBy'[i] = "nobody" /\ home'[call'[i]] \in alive'
    BY DEF PendingIds
  <2>1. CASE i = n
    BY <2>1, <1>1, <1>2, <1>3, <1>9
  <2>2. CASE i # n
    BY <2>2, <1>3, <1>4, <1>8, <1>10 DEF PendingIds
  <2> QED BY <2>1, <2>2
<1>13. SingleTimer'
  <2> SUFFICES ASSUME NEW i \in Ids, NEW d \in Calls, call'[i] = d, timer'[i] # "done",
                      NEW j \in Ids, call'[j] = d
      PROVE j <= i
    BY DEF SingleTimer, Newest
  <2>1. CASE d = c
    <3>1. i = n
      BY <2>1, <1>8
    <3>2. j <= counter'
      BY <1>11, <1>6 DEF Allocated
    <3> QED BY <3>1, <3>2, <1>3
  <2>2. CASE d # c
    BY <2>2, <1>8, <1>9 DEF SingleTimer, Newest
  <2> QED BY <2>1, <2>2
<1>14. RetryNeverLost'
  <2> SUFFICES ASSUME NEW i \in pending', NEW d \in Calls, call'[i] = d,
                      \A j \in Ids : call'[j] = d => j <= i
      PROVE timer'[i] \in {"armed", "fired"}
    BY DEF RetryNeverLost, Newest
  <2>1. i \in Ids
    BY <1>7 DEF TypeOK
  <2>2. CASE d = c
    <3>1. n <= i
      BY <2>2, <1>1, <1>9
    <3>2. i = n
      BY <3>1, <2>1, <1>1, <1>3, <1>7, <1>11, <1>6 DEF Allocated
    <3> QED BY <3>2, <1>9
  <2>3. CASE d # c
    <3>1. i # n /\ i \in pending /\ call[i] = d
      BY <2>1, <2>3, <1>3, <1>8, <1>9
    <3>2. \A j \in Ids : call[j] = d => j <= i
      <4> SUFFICES ASSUME NEW j \in Ids, call[j] = d PROVE j <= i
        OBVIOUS
      <4>1. j # n
        BY <1>2, <1>6
      <4> QED BY <4>1, <1>8
    <3> QED BY <2>1, <2>3, <3>1, <3>2, <1>8 DEF RetryChain, RetryNeverLost, Newest
  <2> QED BY <2>2, <2>3
<1>15. CancelledWhenAnswered'
  <2> SUFFICES ASSUME NEW i \in Ids, timer'[i] = "armed" PROVE i \in pending'
    BY DEF CancelledWhenAnswered
  <2>1. CASE i = n
    BY <2>1, <1>3
  <2>2. CASE i # n
    <3>1. timer[i] = "armed"
      BY <2>2, <1>8
    <3> QED BY <3>1, <1>3 DEF RetryChain, CancelledWhenAnswered
  <2> QED BY <2>1, <2>2
<1>16. AnsweredOnce'
  BY <1>2, <1>3 DEF AnsweredOnce
<1>17. Issued'
  <2> SUFFICES ASSUME NEW d \in Calls, d # c, home'[d] # None PROVE \E i \in Ids : call'[i] = d
    BY <1>1, <1>9 DEF Issued
  <2>1. PICK i \in Ids : call[i] = d
    BY DEF Issued
  <2>2. i # n
    BY <2>1, <1>2, <1>6
  <2> QED BY <2>1, <2>2, <1>8
<1> QED BY <1>7, <1>11, <1>12, <1>13, <1>14, <1>15, <1>16, <1>17

\* The steps that allocate no id preserve the invariant, whatever they do to the
\* status.
LEMMA KeepsIdsIInv ==
  ASSUME IInv, NEW i \in Ids,
         Expire(i) \/ AbortedHandler(i) \/ DanglingHandler(i) \/ OnMessage(i) \/ StaySilent(i)
  PROVE  IInv'
<1> USE DEF IInv, RetryChain, Allocated, Issued, PendingIds, AnsweredOnce, CancelledWhenAnswered,
            RetryNeverLost, SingleTimer, Newest
<1>1. CASE Expire(i)
  <2>1. timer' = [timer EXCEPT ![i] = "fired"] /\ timer[i] = "armed"
    BY <1>1 DEF Expire
  <2>2. UNCHANGED <<counter, home, call, pending, unanswered, completedBy, alive, status>>
    BY <1>1 DEF Expire
  <2> QED BY <2>1, <2>2 DEF TypeOK
<1>2. CASE AbortedHandler(i)
  <2>1. timer' = [timer EXCEPT ![i] = "done"] /\ timer[i] = "aborted"
    BY <1>2 DEF AbortedHandler
  <2>2. UNCHANGED <<counter, home, call, pending, unanswered, completedBy, alive, status>>
    BY <1>2 DEF AbortedHandler
  <2> QED BY <2>1, <2>2 DEF TypeOK
<1>3. CASE DanglingHandler(i)
  <2>1. timer' = [timer EXCEPT ![i] = "done"] /\ timer[i] = "fired" /\ HomeOf(i) \notin alive
    BY <1>3 DEF DanglingHandler
  <2>2. UNCHANGED <<counter, home, call, pending, unanswered, completedBy, alive>>
    BY <1>3 DEF DanglingHandler
  <2>3. status' = "undefined"
    BY <1>3 DEF DanglingHandler
  <2>4. i \notin pending
    BY <2>1
  <2> QED BY <2>1, <2>2, <2>3, <2>4 DEF TypeOK
<1>4. CASE StaySilent(i)
  BY <1>4 DEF StaySilent, TypeOK
<1>5. ASSUME NEW dest \in {"sender", "*"}, NEW kind \in {"RESPONSE", "UNEXPECTED"},
             OnResponse(i, dest, kind)
      PROVE  IInv'
  <2>1. /\ timer' = [timer EXCEPT ![i] = IF @ = "armed" THEN "aborted" ELSE @]
        /\ pending' = pending \ {i} /\ i \in pending
        /\ completedBy' = [completedBy EXCEPT ![i] = IF dest = "*" THEN "foreign" ELSE "receiver"]
        /\ status' = IF kind = "UNEXPECTED" THEN "halted" ELSE status
    BY <1>5 DEF OnResponse
  <2>2. UNCHANGED <<counter, home, call, alive>>
    BY <1>5 DEF OnResponse
  <2>3. unanswered' \subseteq unanswered /\ (dest = "sender" => i \notin unanswered')
    BY <1>5 DEF OnResponse, Received
  <2>4. i <= counter
    BY <2>1
  <2>5. \A j \in Ids : timer'[j] = IF j = i /\ timer[j] = "armed" THEN "aborted" ELSE timer[j]
    BY <2>1 DEF TypeOK
  <2>6. \A j \in Ids : j # i => completedBy'[j] = completedBy[j]
    BY <2>1 DEF TypeOK
  <2>7. completedBy'[i] = IF dest = "*" THEN "foreign" ELSE "receiver"
    BY <2>1 DEF TypeOK
  <2>8. TypeOK'
    BY <2>1, <2>2, <2>3 DEF TypeOK
  <2>9. Allocated'
    BY <2>2, <2>3, <2>4, <2>5, <2>6 DEF TypeOK
  <2>10. PendingIds'
    BY <2>1, <2>2, <2>6, <2>7
  <2>11. AnsweredOnce'
    BY <2>3, <2>6, <2>7 DEF TypeOK
  <2>12. CancelledWhenAnswered' /\ SingleTimer'
    BY <2>1, <2>2, <2>5
  <2>13. RetryNeverLost'
    BY <2>1, <2>2, <2>5 DEF TypeOK
  <2>14. Issued'
    BY <2>2
  <2> QED BY <2>8, <2>9, <2>10, <2>11, <2>12, <2>13, <2>14
<1>6. ASSUME \/ OnUnrecognizedAddress(i)
             \/ \E dest \in {"sender", "*"} : OnUnhandledMessage(i, dest) \/ OnInvalidRequest(i, dest)
      PROVE  IInv'
  <2>1. /\ UNCHANGED <<counter, home, call, pending, timer, completedBy, alive>>
        /\ unanswered' \subseteq unanswered
        /\ status' \in {status, "halted"}
    BY <1>6 DEF OnInvalidRequest, OnUnrecognizedAddress, OnUnhandledMessage, Received
  <2> QED BY <2>1 DEF TypeOK
<1> QED BY <1>1, <1>2, <1>3, <1>4, <1>5, <1>6 DEF OnMessage

\* Destroying a channel takes its entries out of the map and disarms their timers.
LEMMA DestroyIInv ==
  ASSUME IInv, NEW ch \in Channels, Destroy(ch)
  PROVE  IInv'
<1> USE DEF IInv, RetryChain, Allocated, Issued, PendingIds, AnsweredOnce, CancelledWhenAnswered,
            RetryNeverLost, SingleTimer, Newest
<1>1. /\ alive' = alive \ {ch}
      /\ pending' = {i \in pending : HomeOf(i) # ch}
      /\ timer' = [i \in Ids |-> IF timer[i] = "armed" /\ HomeOf(i) = ch THEN "aborted" ELSE timer[i]]
      /\ UNCHANGED <<counter, home, call, unanswered, completedBy, status>>
  BY DEF Destroy
<1>2. \A i \in Ids : timer'[i] = IF timer[i] = "armed" /\ HomeOf(i) = ch THEN "aborted" ELSE timer[i]
  BY <1>1
<1>3. TypeOK'
  BY <1>1 DEF TypeOK
<1>4. Allocated'
  BY <1>1, <1>2
<1>5. PendingIds' /\ AnsweredOnce'
  BY <1>1
<1>6. CancelledWhenAnswered' /\ SingleTimer'
  BY <1>1, <1>2
<1>7. RetryNeverLost'
  BY <1>1, <1>2 DEF TypeOK
<1>8. Issued'
  BY <1>1
<1> QED BY <1>3, <1>4, <1>5, <1>6, <1>7, <1>8

LEMMA NextIInv == IInv /\ [Next]_vars => IInv'
<1> SUFFICES ASSUME IInv, [Next]_vars PROVE IInv'
  OBVIOUS
<1> USE ConstantsAssumption
<1>1. ASSUME NEW ch \in Channels, NEW c \in Calls, Request(ch, c)
      PROVE  IInv'
  <2>1. Attempt(c, timer) /\ UNCHANGED <<completedBy, alive, status>>
    BY <1>1 DEF Request
  <2>2. /\ home[c] = None /\ ch \in alive /\ home' = [home EXCEPT ![c] = ch]
        /\ home' \in [Calls -> Channels \cup {None}] /\ home'[c] = ch
        /\ \A d \in Calls : d # c => home'[d] = home[d]
    BY <1>1 DEF Request, IInv, TypeOK
  <2>3. \A i \in Ids : call[i] # c
    BY <2>2 DEF IInv, TypeOK, Allocated
  <2>4. PICK timers \in [Ids -> TimerStates] : timers = timer
    BY DEF IInv, TypeOK
  <2>5. Attempt(c, timers)
    BY <2>1, <2>4 DEF Attempt
  <2> QED BY <2>1, <2>2, <2>3, <2>4, <2>5, AttemptIInv
<1>2. ASSUME NEW i \in Ids, RetryHandler(i)
      PROVE  IInv'
  <2> DEFINE c == call[i]
  <2>1. /\ timer[i] = "fired" /\ HomeOf(i) \in alive
        /\ Attempt(c, [timer EXCEPT ![i] = "done"])
        /\ UNCHANGED <<home, completedBy, alive, status>>
    BY <1>2 DEF RetryHandler
  <2>2. c \in Calls
    BY <2>1 DEF IInv, TypeOK, Allocated
  <2>3. PICK timers \in [Ids -> TimerStates] : timers = [timer EXCEPT ![i] = "done"]
    BY DEF IInv, TypeOK
  <2>4. Attempt(c, timers)
    BY <2>1, <2>3 DEF Attempt
  <2>5. \A j \in Ids : call[j] = c => timers[j] = "done"
    <3> SUFFICES ASSUME NEW j \in Ids, call[j] = c, j # i PROVE timer[j] = "done"
      BY <2>3 DEF IInv, TypeOK
    <3>1. j <= i
      BY <2>1, <2>2 DEF IInv, RetryChain, SingleTimer, Newest
    <3>2. ~(i <= j)
      BY <3>1
    <3> QED BY <3>2, <2>2 DEF IInv, RetryChain, SingleTimer, Newest
  <2>6. \A j \in Ids : call[j] # c => timers[j] = timer[j]
    BY <2>3 DEF IInv, TypeOK
  <2>7. home' \in [Calls -> Channels \cup {None}] /\ home'[c] \in alive
    BY <2>1 DEF IInv, TypeOK
  <2> QED BY <2>1, <2>2, <2>4, <2>5, <2>6, <2>7, AttemptIInv
<1>3. ASSUME NEW ch \in Channels, Destroy(ch) PROVE IInv'
  BY <1>3, DestroyIInv
<1>4. ASSUME NEW i \in Ids, 
             Expire(i) \/ AbortedHandler(i) \/ DanglingHandler(i) \/ OnMessage(i) \/ StaySilent(i)
      PROVE  IInv'
  BY <1>4, KeepsIdsIInv
<1>5. CASE UNCHANGED vars
  BY <1>5 DEF vars, IInv, TypeOK, Allocated, Issued, PendingIds, RetryChain, AnsweredOnce,
     CancelledWhenAnswered, RetryNeverLost, SingleTimer, Newest
<1> QED BY <1>1, <1>2, <1>3, <1>4, <1>5 DEF Next, Handler

-----------------------------------------------------------------------------
(* The theorems *)

LEMMA Invariance == Spec => []IInv
  BY InitIInv, NextIInv, PTL DEF Spec

\* Every variable keeps its type.
THEOREM TypeCorrect == Spec => []TypeOK
<1>1. IInv => TypeOK
  BY DEF IInv
<1> QED BY <1>1, Invariance, PTL

\* The retries of a request form a chain: only the newest id has a timer left.
THEOREM RetriesFormAChain == Spec => []SingleTimer
<1>1. IInv => SingleTimer
  BY DEF IInv, RetryChain
<1> QED BY <1>1, Invariance, PTL

\* The chain goes on while the newest id is unanswered: neither a retry nor the answer to
\* an older id ends it.
THEOREM RetriesGoOn == Spec => []RetryNeverLost
<1>1. IInv => RetryNeverLost
  BY DEF IInv, RetryChain
<1> QED BY <1>1, Invariance, PTL

\* An answer that is still owed finds its entry, however many retries came
\* between, unless another client's broadcast took it.
THEOREM LateAnswersAreFound == Spec => []AnswerFindsEntry
<1>1. IInv => AnswerFindsEntry
  BY DEF IInv, TypeOK, Allocated, PendingIds, AnsweredOnce, AnswerFindsEntry
<1> QED BY <1>1, Invariance, PTL

\* No step but OnResponse completes an id, and none completes it twice.
LEMMA CompletionStep ==
  ASSUME IInv, [Next]_vars, NEW i \in Ids, completedBy'[i] # completedBy[i]
  PROVE  i \in pending
<1>1. PICK j \in Ids, dest \in {"sender", "*"}, kind \in {"RESPONSE", "UNEXPECTED"} :
        OnResponse(j, dest, kind)
  BY DEF Next, vars, Request, Destroy, Expire, Handler, AbortedHandler, RetryHandler, DanglingHandler,
     OnMessage, OnUnhandledMessage, OnInvalidRequest, OnUnrecognizedAddress, StaySilent
<1>2. completedBy' = [completedBy EXCEPT ![j] = IF dest = "*" THEN "foreign" ELSE "receiver"]
      /\ j \in pending
  BY <1>1 DEF OnResponse
<1>3. i = j
  BY <1>2 DEF IInv, TypeOK
<1> QED BY <1>2, <1>3

\* The callback runs at most once for each id.
THEOREM CallbackRunsOncePerId == Spec => CompletedOnce
<1> DEFINE Once == \A i \in Ids : completedBy[i] # "nobody" => /\ completedBy'[i] = completedBy[i]
                                                              /\ i \notin pending'
<1>1. IInv /\ IInv' /\ [Next]_vars => [Once]_vars
  <2> SUFFICES ASSUME IInv, IInv', [Next]_vars, NEW i \in Ids, completedBy[i] # "nobody"
      PROVE completedBy'[i] = completedBy[i] /\ i \notin pending'
    OBVIOUS
  <2>1. i \notin pending
    BY DEF IInv, PendingIds
  <2>2. completedBy'[i] = completedBy[i]
    BY <2>1, CompletionStep
  <2> QED BY <2>2 DEF IInv, PendingIds
<1> QED BY <1>1, Invariance, PTL DEF Spec, CompletedOnce

-----------------------------------------------------------------------------
(* RequestChannel implements AtLeastOnce *)

LEMMA InitPromise == Init => Promise!PInit
  BY ConstantsAssumption DEF Init, Promise!PInit, Attempts, Answered, Open, Abandoned

\* The id that Attempt allocates is larger than all ids in use.
LEMMA FreshId ==
  ASSUME IInv, counter < MaxId
  PROVE  Promise!Fresh(counter + 1)
<1>1. counter + 1 \in Ids
  BY ConstantsAssumption DEF IInv, TypeOK
<1>2. ASSUME NEW i \in Promise!AllAttempts PROVE i < counter + 1
  <2>1. PICK c \in Calls : i \in Ids /\ call[i] = c
    BY <1>2 DEF Promise!AllAttempts, Attempts
  <2>2. i <= counter
    BY <2>1, ConstantsAssumption DEF IInv, Allocated
  <2> QED BY <2>1, <2>2 DEF IInv, TypeOK
<1> QED BY <1>1, <1>2 DEF Promise!Fresh

\* Allocating an id for request c adds it to the attempts of c and opens c.
LEMMA AttemptPromise ==
  ASSUME IInv, NEW c \in Calls, NEW timers \in [Ids -> TimerStates], Attempt(c, timers),
         UNCHANGED <<completedBy, alive>>,
         \A d \in Calls : (home'[d] # None /\ home'[d] \notin alive) <=> (home[d] # None /\ home[d] \notin alive),
         \A i \in Ids : call[i] # c => timers[i] = timer[i]
  PROVE  /\ Attempts' = [Attempts EXCEPT ![c] = @ \cup {counter + 1}]
         /\ Answered' = Answered
         /\ Open' = Open \cup {c}
         /\ Abandoned' = Abandoned
<1> DEFINE n == counter + 1
<1> USE ConstantsAssumption
<1>1. n \in Ids /\ call[n] = None /\ completedBy[n] = "nobody"
  BY DEF IInv, TypeOK, Attempt, Allocated
<1>2. call' = [call EXCEPT ![n] = c] /\ timer' = [timers EXCEPT ![n] = "armed"]
  BY DEF Attempt
<1>3. \A i \in Ids \ {n} : call'[i] = call[i] /\ timer'[i] = timers[i]
  BY <1>2 DEF IInv, TypeOK
<1>4. call'[n] = c /\ timer'[n] = "armed"
  BY <1>1, <1>2 DEF IInv, TypeOK
<1>5. \A d \in Calls, i \in Ids : call'[i] = d <=> call[i] = d \/ (d = c /\ i = n)
  BY <1>1, <1>3, <1>4
<1>6. Attempts' = [Attempts EXCEPT ![c] = @ \cup {n}]
  <2>1. \A d \in Calls : Attempts'[d] = IF d = c THEN Attempts[d] \cup {n} ELSE Attempts[d]
    BY <1>1, <1>5 DEF Attempts
  <2> QED BY <2>1 DEF Attempts
<1>7. Answered' = Answered
  BY <1>1, <1>5 DEF Answered
<1>8. Open' = Open \cup {c}
  <2>1. c \in Open'
    BY <1>1, <1>4 DEF Open
  <2>2. ASSUME NEW d \in Calls, d # c PROVE d \in Open' <=> d \in Open
    <3>1. \A i \in Ids : call'[i] = d <=> call[i] = d
      BY <1>5, <2>2
    <3>2. \A i \in Ids : call[i] = d => timer'[i] = timer[i]
      BY <1>1, <1>3, <2>2
    <3> QED BY <3>1, <3>2 DEF Open
  <2>3. Open' \subseteq Calls /\ Open \subseteq Calls
    BY DEF Open
  <2> QED BY <2>1, <2>2, <2>3
<1>9. Abandoned' = Abandoned
  BY DEF Abandoned
<1> QED BY <1>6, <1>7, <1>8, <1>9

\* Every step of RequestChannel is a step of AtLeastOnce or changes nothing in it.
LEMMA StepPromise ==
  IInv /\ IInv' /\ [Next]_vars => [Promise!PNext]_(Promise!promiseVars)
<1> SUFFICES ASSUME IInv, IInv', [Next]_vars
    PROVE Promise!PNext \/ UNCHANGED Promise!promiseVars
  OBVIOUS
<1> USE ConstantsAssumption
<1>1. ASSUME NEW ch \in Channels, NEW c \in Calls, Request(ch, c)
      PROVE  Promise!PNext
  <2>1. /\ home[c] = None /\ ch \in alive /\ home' = [home EXCEPT ![c] = ch]
        /\ Attempt(c, timer) /\ UNCHANGED <<completedBy, alive, status>>
    BY <1>1 DEF Request
  <2>2. \A i \in Ids : call[i] # c
    BY <2>1 DEF IInv, TypeOK, Allocated
  <2>3. \A d \in Calls : (home'[d] # None /\ home'[d] \notin alive) <=> (home[d] # None /\ home[d] \notin alive)
    BY <2>1 DEF IInv, TypeOK
  <2>4. PICK timers \in [Ids -> TimerStates] : timers = timer
    BY DEF IInv, TypeOK
  <2>5. Attempt(c, timers)
    BY <2>1, <2>4 DEF Attempt
  <2>6. /\ Attempts' = [Attempts EXCEPT ![c] = @ \cup {counter + 1}]
        /\ Answered' = Answered /\ Open' = Open \cup {c} /\ Abandoned' = Abandoned
    BY <2>1, <2>3, <2>4, <2>5, AttemptPromise
  <2>7. Attempts[c] = {} /\ c \notin Abandoned
    BY <2>1, <2>2 DEF Attempts, Abandoned
  <2>8. Promise!Fresh(counter + 1) /\ counter + 1 \in Ids
    BY <2>1, FreshId DEF Attempt, Promise!Fresh
  <2>9. Promise!Issue(c, counter + 1)
    BY <2>6, <2>7, <2>8 DEF Promise!Issue, Attempts
  <2> QED BY <2>8, <2>9 DEF Promise!PNext
<1>2. ASSUME NEW i \in Ids, RetryHandler(i)
      PROVE  Promise!PNext
  <2> DEFINE c == call[i]
  <2>1. /\ timer[i] = "fired"
        /\ Attempt(c, [timer EXCEPT ![i] = "done"])
        /\ UNCHANGED <<home, completedBy, alive, status>>
    BY <1>2 DEF RetryHandler
  <2>2. c \in Calls
    BY <2>1 DEF IInv, TypeOK, Allocated
  <2>3. PICK timers \in [Ids -> TimerStates] : timers = [timer EXCEPT ![i] = "done"]
    BY DEF IInv, TypeOK
  <2>4. Attempt(c, timers)
    BY <2>1, <2>3 DEF Attempt
  <2>5. \A j \in Ids : call[j] # c => timers[j] = timer[j]
    BY <2>3 DEF IInv, TypeOK
  <2>6. /\ Attempts' = [Attempts EXCEPT ![c] = @ \cup {counter + 1}]
        /\ Answered' = Answered /\ Open' = Open \cup {c} /\ Abandoned' = Abandoned
    BY <2>1, <2>2, <2>4, <2>5, AttemptPromise
  <2>7. c \in Open
    BY <2>1, <2>2 DEF Open
  <2>8. Promise!Fresh(counter + 1) /\ counter + 1 \in Ids
    BY <2>1, FreshId DEF Attempt, Promise!Fresh
  <2>9. Promise!Resend(c, counter + 1)
    BY <2>6, <2>7, <2>8 DEF Promise!Resend
  <2> QED BY <2>2, <2>8, <2>9 DEF Promise!PNext
<1>3. ASSUME NEW ch \in Channels, Destroy(ch)
      PROVE  Promise!PNext
  <2>1. /\ alive' = alive \ {ch}
        /\ timer' = [i \in Ids |-> IF timer[i] = "armed" /\ HomeOf(i) = ch THEN "aborted" ELSE timer[i]]
        /\ UNCHANGED <<counter, home, call, completedBy>>
    BY <1>3 DEF Destroy
  <2> DEFINE S == {c \in Calls : home[c] = ch}
             T == Open \ Open'
  <2>2. Attempts' = Attempts /\ Answered' = Answered
    BY <2>1 DEF Attempts, Answered
  <2>3. Open' = Open \ T
    BY <2>1 DEF Open
  <2>4. Abandoned' = Abandoned \cup S
    BY <1>3, <2>1 DEF Abandoned, Destroy, IInv, TypeOK
  <2>5. \A c \in S : Attempts[c] # {}
    BY DEF Attempts, IInv, Issued
  <2>6. T \subseteq S
    <3> SUFFICES ASSUME NEW c \in Open, c \notin Open' PROVE c \in S
      OBVIOUS
    <3>1. PICK i \in Ids : c \in Calls /\ call[i] = c /\ timer[i] \in Live
      BY DEF Open
    <3>2. timer'[i] \notin Live
      BY <3>1, <2>1 DEF Open
    <3> QED BY <3>1, <3>2, <2>1
  <2>7. Promise!Abandon
    BY <2>2, <2>3, <2>4, <2>5, <2>6 DEF Promise!Abandon
  <2> QED BY <2>7 DEF Promise!PNext
<1>4. ASSUME NEW i \in Ids, Expire(i)
      PROVE  UNCHANGED Promise!promiseVars
  <2>1. /\ timer[i] = "armed" /\ timer' = [timer EXCEPT ![i] = "fired"]
        /\ UNCHANGED <<home, call, completedBy, alive>>
    BY <1>4 DEF Expire
  <2>2. \A j \in Ids : timer'[j] \in Live <=> timer[j] \in Live
    BY <2>1 DEF IInv, TypeOK
  <2> QED BY <2>1, <2>2 DEF Promise!promiseVars, Attempts, Answered, Open, Abandoned
<1>5. ASSUME NEW i \in Ids, AbortedHandler(i)
      PROVE  UNCHANGED Promise!promiseVars
  <2>1. /\ timer[i] = "aborted" /\ timer' = [timer EXCEPT ![i] = "done"]
        /\ UNCHANGED <<home, call, completedBy, alive>>
    BY <1>5 DEF AbortedHandler
  <2>2. \A j \in Ids : timer'[j] \in Live <=> timer[j] \in Live
    BY <2>1 DEF IInv, TypeOK
  <2> QED BY <2>1, <2>2 DEF Promise!promiseVars, Attempts, Answered, Open, Abandoned
<1>6. ASSUME NEW i \in Ids, DanglingHandler(i)
      PROVE  Promise!PNext
  <2> DEFINE c == call[i]
  <2>1. /\ timer[i] = "fired" /\ timer' = [timer EXCEPT ![i] = "done"] /\ home[c] \notin alive
        /\ UNCHANGED <<home, call, completedBy, alive>>
    BY <1>6 DEF DanglingHandler
  <2>2. c \in Calls /\ home[c] # None
    BY <2>1 DEF IInv, TypeOK, Allocated
  <2>3. \A j \in Ids : j # i => timer'[j] = timer[j]
    BY <2>1 DEF IInv, TypeOK
  <2>4. Open \ Open' \subseteq {c}
    BY <2>1, <2>3 DEF Open
  <2>5. Open' \subseteq Open
    BY <2>1, <2>3 DEF Open, IInv, TypeOK
  <2>6. c \in Abandoned
    BY <2>1, <2>2 DEF Abandoned
  <2>7. Attempts' = Attempts /\ Answered' = Answered /\ Abandoned' = Abandoned \cup {}
    BY <2>1 DEF Attempts, Answered, Abandoned
  <2>8. Open \ Open' \subseteq Abandoned' /\ Open' = Open \ (Open \ Open')
    BY <2>4, <2>5, <2>6, <2>7
  <2>9. Promise!Abandon
    BY <2>7, <2>8 DEF Promise!Abandon
  <2> QED BY <2>9 DEF Promise!PNext
<1>7. ASSUME NEW i \in Ids, NEW dest \in {"sender", "*"}, NEW kind \in {"RESPONSE", "UNEXPECTED"},
             OnResponse(i, dest, kind)
      PROVE  Promise!PNext
  <2> DEFINE c == call[i]
  <2>1. /\ timer' = [timer EXCEPT ![i] = IF @ = "armed" THEN "aborted" ELSE @]
        /\ i \in pending
        /\ completedBy' = [completedBy EXCEPT ![i] = IF dest = "*" THEN "foreign" ELSE "receiver"]
        /\ UNCHANGED <<counter, home, call, alive>>
    BY <1>7 DEF OnResponse
  <2>2. c \in Calls /\ completedBy[i] = "nobody"
    BY <2>1 DEF IInv, TypeOK, Allocated, PendingIds
  <2>3. \A j \in Ids : completedBy'[j] # "nobody" <=> completedBy[j] # "nobody" \/ j = i
    BY <2>1 DEF IInv, TypeOK
  <2>4. Attempts' = Attempts /\ Abandoned' = Abandoned
    BY <2>1 DEF Attempts, Abandoned
  <2>5. Answered' = [Answered EXCEPT ![c] = @ \cup {i}]
    BY <2>1, <2>2, <2>3 DEF Answered
  <2>6. i \in Attempts[c] \ Answered[c]
    BY <2>2 DEF Attempts, Answered
  <2>7. \A j \in Ids : timer'[j] = IF j = i /\ timer[j] = "armed" THEN "aborted" ELSE timer[j]
    BY <2>1 DEF IInv, TypeOK
  <2>8. Open' = Open \/ (Promise!Newest(c, i) /\ Open' = Open \ {c})
    <3>1. CASE timer[i] # "armed"
      BY <3>1, <2>1, <2>7 DEF Open
    <3>2. CASE timer[i] = "armed"
      <4>1. \A j \in Ids : call[j] = c => j <= i
        BY <3>2, <2>2 DEF IInv, RetryChain, SingleTimer, Newest
      <4>2. Promise!Newest(c, i)
        BY <4>1, <2>2, <2>6 DEF Promise!Newest, Attempts
      <4>3. \A j \in Ids : call[j] = c /\ j # i => timer[j] = "done"
        <5> SUFFICES ASSUME NEW j \in Ids, call[j] = c, timer[j] # "done" PROVE j = i
          OBVIOUS
        <5>1. i <= j
          BY <2>2 DEF IInv, RetryChain, SingleTimer, Newest
        <5> QED BY <5>1, <4>1
      <4>4. Open' = Open \ {c}
        BY <3>2, <4>3, <2>1, <2>2, <2>7 DEF Open
      <4> QED BY <4>2, <4>4
    <3> QED BY <3>1, <3>2
  <2>9. Promise!Answer(c, i)
    BY <2>4, <2>5, <2>6, <2>8 DEF Promise!Answer
  <2> QED BY <2>2, <2>9 DEF Promise!PNext
<1>8. ASSUME NEW i \in Ids,
             \/ OnUnrecognizedAddress(i) \/ StaySilent(i)
             \/ \E dest \in {"sender", "*"} : OnUnhandledMessage(i, dest) \/ OnInvalidRequest(i, dest)
      PROVE  UNCHANGED Promise!promiseVars
  <2>1. UNCHANGED <<home, call, timer, completedBy, alive>>
    BY <1>8 DEF OnInvalidRequest, OnUnrecognizedAddress, StaySilent, OnUnhandledMessage
  <2> QED BY <2>1 DEF Promise!promiseVars, Attempts, Answered, Open, Abandoned
<1>9. CASE UNCHANGED vars
  BY <1>9 DEF vars, Promise!promiseVars, Attempts, Answered, Open, Abandoned
<1> QED BY <1>1, <1>2, <1>3, <1>4, <1>5, <1>6, <1>7, <1>8, <1>9 DEF Next, Handler, OnMessage

\* Requests are sent again until their newest id is answered: RequestChannel
\* implements AtLeastOnce.
THEOREM ImplementsAtLeastOnce == Spec => KeepsPromise
  BY InitPromise, StepPromise, Invariance, PTL DEF Spec, KeepsPromise, Promise!PSpec

-----------------------------------------------------------------------------
(* A receiver that is only slow *)

\* Nobody but the receiver answers, and no channel is destroyed.
Undisturbed ==
  /\ alive = Channels
  /\ \A i \in Ids : completedBy[i] # "foreign"
  /\ AnswersNeverHalt

LEMMA UndisturbedStep ==
  ASSUME Env \subseteq {"silent"}, IInv, Undisturbed, [Next]_vars
  PROVE  Undisturbed'
<1> USE DEF Undisturbed, AnswersNeverHalt
<1>1. CASE UNCHANGED vars
  BY <1>1 DEF vars
<1>2. ASSUME NEW ch \in Channels, NEW c \in Calls, Request(ch, c)
      PROVE  Undisturbed'
  BY <1>2 DEF Request
<1>3. ASSUME NEW i \in Ids, Expire(i) \/ Handler(i) \/ StaySilent(i)
      PROVE  Undisturbed'
  BY <1>3 DEF Expire, Handler, AbortedHandler, RetryHandler, DanglingHandler, StaySilent
<1>4. ASSUME NEW i \in Ids, OnMessage(i)
      PROVE  Undisturbed'
  <2>1. ASSUME NEW dest \in {"sender", "*"}, NEW kind \in {"RESPONSE", "UNEXPECTED"}, OnResponse(i, dest, kind)
        PROVE  Undisturbed'
    <3>1. dest = "sender" /\ kind = "RESPONSE"
      BY <2>1 DEF OnResponse, Received
    <3>2. /\ completedBy' = [completedBy EXCEPT ![i] = "receiver"]
          /\ alive' = alive /\ status' = status
      BY <2>1, <3>1 DEF OnResponse
    <3> QED BY <3>2 DEF IInv, TypeOK
  <2>2. \A j \in unanswered : HomeOf(j) \in alive /\ j \in pending
    BY DEF IInv, TypeOK, Allocated, PendingIds, AnsweredOnce
  <2>3. ASSUME NEW dest \in {"sender", "*"}, OnUnhandledMessage(i, dest)
        PROVE  FALSE
    BY <2>3, <2>2 DEF OnUnhandledMessage, Received
  <2>4. ~OnUnrecognizedAddress(i) /\ \A dest \in {"sender", "*"} : ~OnInvalidRequest(i, dest)
    BY <2>2 DEF OnInvalidRequest, OnUnrecognizedAddress, Received
  <2> QED BY <1>4, <2>1, <2>3, <2>4 DEF OnMessage
<1>5. ASSUME NEW ch \in Channels, Destroy(ch)
      PROVE  FALSE
  BY <1>5 DEF Destroy
<1> QED BY <1>1, <1>2, <1>3, <1>4, <1>5 DEF Next

\* However late a receiver answers, and whatever it ignores, its answers do not end run():
\* for any number of channels and requests.
THEOREM SlowAnswersNeverHalt ==
  ASSUME Env \subseteq {"silent"}
  PROVE  Spec => []AnswersNeverHalt
<1>1. Init => Undisturbed
  BY DEF Init, Undisturbed, AnswersNeverHalt
<1>2. IInv /\ Undisturbed /\ [Next]_vars => Undisturbed'
  BY UndisturbedStep
<1>3. Undisturbed => AnswersNeverHalt
  BY DEF Undisturbed
<1> QED BY <1>1, <1>2, <1>3, Invariance, PTL DEF Spec
=============================================================================
