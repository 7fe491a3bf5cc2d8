--------------------------- MODULE MCMediaMessages ---------------------------
(***************************************************************************)
(* MediaMessages for TLC.                                                  *)
(***************************************************************************)
EXTENDS MediaMessages

OneContent == {"film"}
OneText == {"subtitles"}
OneOther == {"voices"}
OneUrl == {"poster"}
=============================================================================
