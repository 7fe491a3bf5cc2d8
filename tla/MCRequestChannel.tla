--------------------------- MODULE MCRequestChannel ---------------------------
(***************************************************************************)
(* RequestChannel for TLC: constants of the runs and symmetry.             *)
(***************************************************************************)
EXTENDS RequestChannel, TLC

\* Channels and requests are interchangeable; used by the runs that check no
\* liveness property.
Symmetric == Permutations(Channels) \cup Permutations(Calls)

\* Everything the environment can do, and the receiver that is only slow.
AnyFault == Faults
SlowReceiver == {"silent"}
=============================================================================
