---------------------------- MODULE MCCastMessage ----------------------------
(***************************************************************************)
(* CastMessage for TLC.                                                    *)
(***************************************************************************)
EXTENDS CastMessage, TLC

SomePackets ==
  {[source |-> 1, destination |-> 2, namespace |-> 1, type |-> 0, payload |-> 2],
   [source |-> 0, destination |-> 1, namespace |-> 2, type |-> 1, payload |-> 1],
   [source |-> 1, destination |-> 1, namespace |-> 1, type |-> 1, payload |-> 0]}

\* Newer fields and values, fields again, values that break off, the end of a group.
SomeTokens ==
  {Token("unknown", 1), Token("end", 0), Token("protocol_version", 1), Token("payload_type", 0),
   Token("payload_type", 3), Token("source_id", 0),
   Token("payload_binary", 2),
   [Token("payload_utf8", 1) EXCEPT !.whole = FALSE],
   [Token("payload_type", 1) EXCEPT !.whole = FALSE]}

Symmetry == Permutations(Objs)
=============================================================================
