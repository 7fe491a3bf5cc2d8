------------------------------ MODULE MCRegistry ------------------------------
(***************************************************************************)
(* Registry for TLC.  The names are not adjacent in the order of strings.  *)
(***************************************************************************)
EXTENDS Registry

TwoSources == {3, 6}
TwoNamespaces == {2, 5}
TwoDestinations == {4, 7}
=============================================================================
