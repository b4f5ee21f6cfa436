-------------------------- MODULE MC_RateLimiter --------------------------
(* Instantiates RateLimiter for TLC.                                       *)
EXTENDS RateLimiter
=============================================================================
