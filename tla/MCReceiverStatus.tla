--------------------------- MODULE MCReceiverStatus ---------------------------
(***************************************************************************)
(* ReceiverStatus for TLC.                                                 *)
(***************************************************************************)
EXTENDS ReceiverStatus

TwoApps == {"player", "other"}
AnyEvent == Events
=============================================================================
