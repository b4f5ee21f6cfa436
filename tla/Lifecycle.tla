----------------------------- MODULE Lifecycle -----------------------------
(***************************************************************************)
(* The abstract lifecycle of a set of jobs: each job has one status, and a *)
(* step moves some jobs along permitted moves.  A step may move several    *)
(* jobs at once, because the implementations persist a whole table in one  *)
(* write (the JSON ledger of the job queue, a SQL statement of the broker) *)
(* and several in-memory changes can reach storage together.               *)
(*                                                                         *)
(* Ids are the jobs, Statuses their statuses, Initial the status of a      *)
(* job not yet created, and Moves the permitted <<from, to>> pairs.  The   *)
(* modules that implement a lifecycle instantiate this one with their own  *)
(* moves and map their state to status.                                    *)
(***************************************************************************)
CONSTANTS Ids, Statuses, Initial, Moves

ASSUME Initial \in Statuses /\ Moves \subseteq Statuses \X Statuses

VARIABLE status

TypeOK == status \in [Ids -> Statuses]

Init == status = [j \in Ids |-> Initial]

\* Job j moves from its status to s.
Move(j, s) == <<status[j], s>> \in Moves

\* One write: some jobs change status, each along a permitted move.
Next ==
  /\ status' \in [Ids -> Statuses]
  /\ status' # status
  /\ \A j \in Ids : status'[j] = status[j] \/ Move(j, status'[j])

Spec == Init /\ [][Next]_status

=============================================================================
