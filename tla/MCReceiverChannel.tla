-------------------------- MODULE MCReceiverChannel --------------------------
(***************************************************************************)
(* ReceiverChannel for TLC: what the user calls, what may happen.          *)
(***************************************************************************)
EXTENDS ReceiverChannel, TLC

Symmetric == Permutations(Apps)

NoIds == {}
SomeIds == {1, 2}
LaunchOnly == {"launch"}
AnyCall == Calls
AnyEvent == Events
VolumeChanges == {"volume"}
LaunchFails == {"launchFails"}
=============================================================================
