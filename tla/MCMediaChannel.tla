---------------------------- MODULE MCMediaChannel ----------------------------
(***************************************************************************)
(* MediaChannel for TLC.                                                   *)
(***************************************************************************)
EXTENDS MediaChannel

AnyEvent == Events
=============================================================================
