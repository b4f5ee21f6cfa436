----------------------------- MODULE MC_Routes -----------------------------
(* Instantiates Routes for TLC; the constants come from the cfg.           *)
EXTENDS Routes
=============================================================================
