----------------------------- MODULE AtLeastOnce -----------------------------
(***************************************************************************)
(* What the retry machinery of RequestChannel promises to the code that    *)
(* issues a request: the request is sent under one number or several, the  *)
(* callback runs once per answered number, and sending stops only when the *)
(* newest number has been answered or the channel is gone.                 *)
(*                                                                         *)
(* It says nothing of timers, of the map of outstanding requests, or of    *)
(* messages: RequestChannel has those and implements this specification.   *)
(***************************************************************************)
EXTENDS Naturals

CONSTANTS
  Calls,        \* requests, as the application issues them
  Ids           \* numbers a request can be sent under

VARIABLES
  attempts,     \* attempts[c]: the numbers request c was sent under
  answered,     \* answered[c]: those for which the callback of c has run
  open,         \* requests that will still be sent again if nothing happens
  abandoned     \* requests whose channel is gone

promiseVars == <<attempts, answered, open, abandoned>>

AllAttempts == UNION {attempts[c] : c \in Calls}

\* n is a number that no request has used, and larger than all those used.
Fresh(n) == n \in Ids /\ \A i \in AllAttempts : i < n

\* i is the newest number of request c.
Newest(c, i) == i \in attempts[c] /\ \A j \in attempts[c] : j <= i

-----------------------------------------------------------------------------

PInit ==
  /\ attempts = [c \in Calls |-> {}]
  /\ answered = [c \in Calls |-> {}]
  /\ open = {}
  /\ abandoned = {}

Issue(c, n) ==
  /\ attempts[c] = {}
  /\ c \notin abandoned
  /\ Fresh(n)
  /\ attempts' = [attempts EXCEPT ![c] = {n}]
  /\ open' = open \cup {c}
  /\ UNCHANGED <<answered, abandoned>>

Resend(c, n) ==
  /\ c \in open
  /\ Fresh(n)
  /\ attempts' = [attempts EXCEPT ![c] = @ \cup {n}]
  /\ UNCHANGED <<answered, open, abandoned>>

\* The answer to the newest number may end the resending; the answer to an
\* older one may not.
Answer(c, i) ==
  /\ i \in attempts[c] \ answered[c]
  /\ answered' = [answered EXCEPT ![c] = @ \cup {i}]
  /\ open' = open \/ (Newest(c, i) /\ open' = open \ {c})
  /\ UNCHANGED <<attempts, abandoned>>

\* The channel of some requests goes away; they, and no others, may stop.
Abandon ==
  /\ \E S \in SUBSET {c \in Calls : attempts[c] # {}} : abandoned' = abandoned \cup S
  /\ \E T \in SUBSET open : T \subseteq abandoned' /\ open' = open \ T
  /\ UNCHANGED <<attempts, answered>>

PNext ==
  \/ \E c \in Calls, n \in Ids : Issue(c, n) \/ Resend(c, n) \/ Answer(c, n)
  \/ Abandon

PSpec == PInit /\ [][PNext]_promiseVars

-----------------------------------------------------------------------------

\* A request is given up only once its newest number has been answered, or
\* when its channel is gone: silence alone never ends it.
NeverGivesUp ==
  \A c \in Calls \ (open \cup abandoned) :
    attempts[c] # {} => \E i \in answered[c] : Newest(c, i)
=============================================================================
