------------------------------- MODULE MCClient -------------------------------
(***************************************************************************)
(* Client for TLC.                                                         *)
(***************************************************************************)
EXTENDS Client

SomeBodies == {<<0>>, <<1, 0, 1>>}
APing == <<0>>
=============================================================================
