---------------------------- MODULE MC_JobQueue ----------------------------
(* Instantiates JobQueue for TLC: two jobs, two executor threads.          *)
EXTENDS JobQueue

\* State constraint: none needed, every counter of JobQueue is bounded.
=============================================================================
