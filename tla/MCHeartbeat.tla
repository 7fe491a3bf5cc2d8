----------------------------- MODULE MCHeartbeat -----------------------------
(***************************************************************************)
(* Heartbeat for TLC, with the intervals of heartbeat_channel.h.           *)
(***************************************************************************)
EXTENDS Heartbeat

AnyEvent == Events
=============================================================================
