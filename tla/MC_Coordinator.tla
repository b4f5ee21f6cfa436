--------------------------- MODULE MC_Coordinator ---------------------------
(* Instantiates Coordinator for TLC.                                       *)
EXTENDS Coordinator
=============================================================================
