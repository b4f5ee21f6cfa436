----------------------------- MODULE MC_Broker -----------------------------
(* Instantiates Broker for TLC.                                            *)
EXTENDS Broker
=============================================================================
