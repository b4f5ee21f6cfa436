------------------------------- MODULE Broker -------------------------------
(***************************************************************************)
(* The ledger-backed broker of src/integrations/broker/server/broker.py    *)
(* and the node client of src/integrations/broker/node_client/node.py.     *)
(*                                                                         *)
(* The broker keeps two SQLite tables, jobs and nodes; each request runs   *)
(* its statements on its own connection and commits once, so a request is  *)
(* one atomic step, except claim_job, whose SELECT and conditional UPDATE  *)
(* are separate statements another request can run between.  The cleanup  *)
(* thread runs cleanup_stale_data, one transaction, every 30 s.            *)
(*                                                                         *)
(* Each node runs node.py: start() registers (node_id is a hash of the     *)
(* endpoint, so a restarted node gets the same id), a heartbeat thread     *)
(* posts every 30 s, and job_loop claims, executes and reports one job at  *)
(* a time.  Time enters only through two comparisons: a node's            *)
(* last_heartbeat older than NODE_TIMEOUT (nfresh false), and a result     *)
(* older than RESULT_TTL (jold).  A live node's heartbeats keep it fresh;  *)
(* it turns stale only through a fault (a network outage or a pause of     *)
(* over 60 s), unless the host clock is ahead of UTC (HeartbeatRecent).    *)
(* Faults (node crashes, stale live nodes, lost replies, an exception in   *)
(* execute_job) are                                                        *)
(* bounded by MaxFaults; MaxStarts bounds how often a node process starts. *)
(***************************************************************************)
EXTENDS Naturals, FiniteSets

CONSTANTS
  Jobs,        \* job ids (generate_job_id)
  Nodes,       \* node ids, one per sandrun endpoint
  MaxFaults,   \* bound on crashes, stale live nodes and lost replies
  MaxStarts,   \* bound on start() runs of each node process
  NoJob,       \* model value: a node holding no job
  NoNode,      \* model value: node_id IS NULL
  HostAheadOfUtc  \* the broker host's local time is ahead of UTC

ASSUME MaxFaults \in Nat /\ MaxStarts \in Nat \ {0} /\ HostAheadOfUtc \in BOOLEAN

\* jobs.status values; "none" before submit_job, "deleted" once the row
\* is removed.  The code never writes 'running'.
JobStates == {"none", "pending", "assigned", "completed", "failed", "deleted"}
Done == {"completed", "failed"}
\* Where each node's job_loop is; "down" when its process is not running.
NodePcs == {"down", "idle", "claim", "exec", "report"}

VARIABLES
  jstatus,   \* jobs.status
  jnode,     \* jobs.node_id
  jold,      \* jobs.completed_at < now - RESULT_TTL
  nrow,      \* a row of nodes exists for the node
  nactive,   \* nodes.active
  nfresh,    \* nodes.last_heartbeat >= now - NODE_TIMEOUT
  npc,       \* node client: position in job_loop
  ncand,     \* the job claim_job's SELECT returned, for the node's request
  njob,      \* the job the node client is executing or reporting
  nres,      \* the status execute_job's exit code gives
  starts,    \* start() runs of each node
  faults     \* faults so far

vars == <<jstatus, jnode, jold, nrow, nactive, nfresh, npc, ncand, njob,
          nres, starts, faults>>

-----------------------------------------------------------------------------
Init ==
  /\ jstatus = [j \in Jobs |-> "none"]
  /\ jnode = [j \in Jobs |-> NoNode]
  /\ jold = [j \in Jobs |-> FALSE]
  /\ nrow = [n \in Nodes |-> FALSE]
  /\ nactive = [n \in Nodes |-> FALSE]
  /\ nfresh = [n \in Nodes |-> FALSE]
  /\ npc = [n \in Nodes |-> "down"]
  /\ ncand = [n \in Nodes |-> NoJob]
  /\ njob = [n \in Nodes |-> NoJob]
  /\ nres = [n \in Nodes |-> "none"]
  /\ starts = [n \in Nodes |-> 0]
  /\ faults = 0

\* A node client returns to the top of job_loop holding nothing.
Idle(n) ==
  /\ npc' = [npc EXCEPT ![n] = "idle"]
  /\ ncand' = [ncand EXCEPT ![n] = NoJob]
  /\ njob' = [njob EXCEPT ![n] = NoJob]
  /\ nres' = [nres EXCEPT ![n] = "none"]

-----------------------------------------------------------------------------
(* Broker requests.                                                        *)

\* submit_job: INSERT a new row with status 'pending'.
SubmitJob(j) ==
  /\ jstatus[j] = "none"
  /\ jstatus' = [jstatus EXCEPT ![j] = "pending"]
  /\ UNCHANGED <<jnode, jold, nrow, nactive, nfresh, npc, ncand, njob, nres,
                 starts, faults>>

\* register_node: INSERT OR REPLACE the node's row, active, heartbeat now.
RegisterNode(n) ==
  /\ nrow' = [nrow EXCEPT ![n] = TRUE]
  /\ nactive' = [nactive EXCEPT ![n] = TRUE]
  /\ nfresh' = [nfresh EXCEPT ![n] = TRUE]

\* register() returns False when the POST fails before the broker handles
\* it (no row) or when its reply is lost after the row is written.
RegisterFailed(n) ==
  \/ UNCHANGED <<nrow, nactive, nfresh>>
  \/ RegisterNode(n)

\* node.py start(): register with the broker, start the heartbeat thread,
\* enter job_loop; when sandrun or the broker is unreachable, start()
\* returns False and the process exits.  A crashed node process may be
\* started again.
Start(n) ==
  /\ npc[n] = "down" /\ starts[n] < MaxStarts
  /\ starts' = [starts EXCEPT ![n] = @ + 1]
  /\ \/ RegisterNode(n) /\ Idle(n)
     \/ RegisterFailed(n) /\ UNCHANGED <<npc, ncand, njob, nres>>
  /\ UNCHANGED <<jstatus, jnode, jold, faults>>

\* heartbeat: UPDATE the node's row with a fresh last_heartbeat and
\* active = 1 (no row: nothing is updated).
TouchNode(n) ==
  /\ nactive' = [nactive EXCEPT ![n] = nactive[n] \/ nrow[n]]
  /\ nfresh' = [nfresh EXCEPT ![n] = nfresh[n] \/ nrow[n]]

\* heartbeat_loop: while the node runs, heartbeat() posts its node_id
\* (a failed post is only printed).
Heartbeat(n) ==
  /\ npc[n] # "down"
  /\ TouchNode(n)
  /\ UNCHANGED <<jstatus, jnode, jold, nrow, npc, ncand, njob, nres, starts, faults>>

\* claim_job, first statement: SELECT the oldest pending job.  created_at
\* has one-second resolution, so any pending job may come first.  With no
\* pending job the node gets {'job': None} and sleeps: nothing changes.
ClaimSelect(n) ==
  /\ npc[n] = "idle"
  /\ \E j \in Jobs :
       /\ jstatus[j] = "pending"
       /\ ncand' = [ncand EXCEPT ![n] = j]
  /\ npc' = [npc EXCEPT ![n] = "claim"]
  /\ UNCHANGED <<jstatus, jnode, jold, nrow, nactive, nfresh, njob, nres, starts, faults>>

\* Mutation: the UPDATE drops "AND status = 'pending'", so a job another
\* request assigned between the SELECT and the UPDATE is assigned again.
ClaimUpdateNoRecheck(n) ==
  LET j == ncand[n] IN
  /\ npc[n] = "claim"
  /\ IF jstatus[j] # "deleted"
       THEN /\ jstatus' = [jstatus EXCEPT ![j] = "assigned"]
            /\ jnode' = [jnode EXCEPT ![j] = n]
            /\ npc' = [npc EXCEPT ![n] = "exec"]
            /\ njob' = [njob EXCEPT ![n] = j]
            /\ ncand' = [ncand EXCEPT ![n] = NoJob]
            /\ UNCHANGED nres
       ELSE /\ Idle(n)
            /\ UNCHANGED <<jstatus, jnode>>
  /\ UNCHANGED <<jold, nrow, nactive, nfresh, starts, faults>>

\* claim_job, second statement: UPDATE ... SET status = 'assigned',
\* node_id = n WHERE id = j AND status = 'pending'.  If another request
\* took the job first, rowcount is 0 and the node gets no job.
ClaimUpdate(n) ==
  LET j == ncand[n] IN
  /\ npc[n] = "claim"
  /\ IF jstatus[j] = "pending"
       THEN /\ jstatus' = [jstatus EXCEPT ![j] = "assigned"]
            /\ jnode' = [jnode EXCEPT ![j] = n]
            /\ npc' = [npc EXCEPT ![n] = "exec"]
            /\ njob' = [njob EXCEPT ![n] = j]
            /\ ncand' = [ncand EXCEPT ![n] = NoJob]
            /\ UNCHANGED nres
       ELSE /\ Idle(n)
            /\ UNCHANGED <<jstatus, jnode>>
  /\ UNCHANGED <<jold, nrow, nactive, nfresh, starts, faults>>

\* claim_job in node.py: the broker commits the assignment, but the reply
\* is lost (the 10 s timeout fires); the exception is caught and the node
\* goes back to polling without the job.
ClaimReplyLost(n) ==
  LET j == ncand[n] IN
  /\ npc[n] = "claim" /\ jstatus[j] = "pending"
  /\ faults < MaxFaults /\ faults' = faults + 1
  /\ jstatus' = [jstatus EXCEPT ![j] = "assigned"]
  /\ jnode' = [jnode EXCEPT ![j] = n]
  /\ Idle(n)
  /\ UNCHANGED <<jold, nrow, nactive, nfresh, starts>>

\* execute_job: submit to the local sandrun, poll its status until it ends
\* or the timeout passes.  Every path returns a result: exit code 0 for a
\* completed job, 1 or 124 (failed, refused, timed out, an exception).
Execute(n) ==
  /\ npc[n] = "exec"
  /\ \E r \in Done : nres' = [nres EXCEPT ![n] = r]
  /\ npc' = [npc EXCEPT ![n] = "report"]
  /\ UNCHANGED <<jstatus, jnode, jold, nrow, nactive, nfresh, ncand, njob, starts, faults>>

\* execute_job raises before its inner try (writing main.py or the tar in
\* the temporary directory fails): job_loop's except prints the error and
\* sleeps, report_completion is skipped, and the job stays assigned to the
\* node, which claims the next one.
ExecuteRaises(n) ==
  /\ npc[n] = "exec"
  /\ faults < MaxFaults /\ faults' = faults + 1
  /\ Idle(n)
  /\ UNCHANGED <<jstatus, jnode, jold, nrow, nactive, nfresh, starts>>

\* complete_job: UPDATE jobs SET status = completed/failed, completed_at
\* WHERE id = j AND node_id = n.  A job since reassigned (node_id NULL or
\* another node) or deleted matches no row and is left alone; the node's
\* counters are updated either way.  job_loop then claims again.
Report(n) ==
  LET j == njob[n] IN
  /\ npc[n] = "report"
  /\ jstatus' = IF jnode[j] = n /\ jstatus[j] # "deleted"
                  THEN [jstatus EXCEPT ![j] = nres[n]] ELSE jstatus
  /\ Idle(n)
  /\ UNCHANGED <<jnode, jold, nrow, nactive, nfresh, starts, faults>>

\* report_completion in node.py: the POST fails; the exception is printed
\* and the node moves on.  The broker never hears of the result.
ReportLost(n) ==
  /\ npc[n] = "report"
  /\ faults < MaxFaults /\ faults' = faults + 1
  /\ Idle(n)
  /\ UNCHANGED <<jstatus, jnode, jold, nrow, nactive, nfresh, starts>>

-----------------------------------------------------------------------------
(* The cleanup thread, and the environment.                                *)

\* cleanup_stale_data's test last_heartbeat < datetime.now() - NODE_TIMEOUT
\* compares the UTC text SQLite's CURRENT_TIMESTAMP wrote with the host's
\* local time.  On a host ahead of UTC by an hour or more every heartbeat
\* looks older than NODE_TIMEOUT; behind UTC, staleness only comes later.
HeartbeatRecent(n) == nfresh[n] /\ ~HostAheadOfUtc

\* Mutation: only jobs in status 'running' are taken back from dead nodes.
CleanupRunningOnly ==
  LET active2 == [n \in Nodes |-> nactive[n] /\ HeartbeatRecent(n)]
      dead == {n \in Nodes : nrow[n] /\ ~active2[n]}
      reclaim == {j \in Jobs : jstatus[j] = "running" /\ jnode[j] \in dead}
  IN
  /\ nactive' = active2
  /\ jstatus' = [j \in Jobs |-> IF j \in reclaim THEN "pending"
                                ELSE IF jstatus[j] \in Done /\ jold[j] THEN "deleted"
                                ELSE jstatus[j]]
  /\ jnode' = [j \in Jobs |-> IF j \in reclaim THEN NoNode ELSE jnode[j]]
  /\ UNCHANGED <<jold, nrow, nfresh, npc, ncand, njob, nres, starts, faults>>

\* Mutation: reclaimed jobs go back to 'pending' but keep their node_id.
CleanupKeepNode ==
  LET active2 == [n \in Nodes |-> nactive[n] /\ HeartbeatRecent(n)]
      dead == {n \in Nodes : nrow[n] /\ ~active2[n]}
      reclaim == {j \in Jobs : jstatus[j] = "assigned" /\ jnode[j] \in dead}
  IN
  /\ nactive' = active2
  /\ jstatus' = [j \in Jobs |-> IF j \in reclaim THEN "pending"
                                ELSE IF jstatus[j] \in Done /\ jold[j] THEN "deleted"
                                ELSE jstatus[j]]
  /\ UNCHANGED <<jnode, jold, nrow, nfresh, npc, ncand, njob, nres, starts, faults>>

\* cleanup_stale_data, one transaction: nodes with a stale heartbeat
\* become inactive; jobs 'assigned' or 'running' on an inactive node go
\* back to 'pending' with node_id NULL; finished jobs older than
\* RESULT_TTL are deleted.
Cleanup ==
  LET active2 == [n \in Nodes |-> nactive[n] /\ HeartbeatRecent(n)]
      dead == {n \in Nodes : nrow[n] /\ ~active2[n]}
      reclaim == {j \in Jobs : jstatus[j] = "assigned" /\ jnode[j] \in dead}
  IN
  /\ nactive' = active2
  /\ jstatus' = [j \in Jobs |-> IF j \in reclaim THEN "pending"
                                ELSE IF jstatus[j] \in Done /\ jold[j] THEN "deleted"
                                ELSE jstatus[j]]
  /\ jnode' = [j \in Jobs |-> IF j \in reclaim THEN NoNode ELSE jnode[j]]
  /\ UNCHANGED <<jold, nrow, nfresh, npc, ncand, njob, nres, starts, faults>>

\* The node process dies (its heartbeat thread with it).
Crash(n) ==
  /\ npc[n] # "down"
  /\ faults < MaxFaults /\ faults' = faults + 1
  /\ npc' = [npc EXCEPT ![n] = "down"]
  /\ ncand' = [ncand EXCEPT ![n] = NoJob]
  /\ njob' = [njob EXCEPT ![n] = NoJob]
  /\ nres' = [nres EXCEPT ![n] = "none"]
  /\ UNCHANGED <<jstatus, jnode, jold, nrow, nactive, nfresh, starts>>

\* NODE_TIMEOUT passes without a heartbeat reaching the broker: always, for
\* a node that is down; for a live node only as a fault.
Stale(n) ==
  /\ nfresh[n]
  /\ \/ npc[n] = "down" /\ UNCHANGED faults
     \/ npc[n] # "down" /\ faults < MaxFaults /\ faults' = faults + 1
  /\ nfresh' = [nfresh EXCEPT ![n] = FALSE]
  /\ UNCHANGED <<jstatus, jnode, jold, nrow, nactive, npc, ncand, njob, nres, starts>>

\* RESULT_TTL passes after a job finished.
AgeResult(j) ==
  /\ jstatus[j] \in Done /\ ~jold[j]
  /\ jold' = [jold EXCEPT ![j] = TRUE]
  /\ UNCHANGED <<jstatus, jnode, nrow, nactive, nfresh, npc, ncand, njob, nres,
                 starts, faults>>

-----------------------------------------------------------------------------
Next ==
  \/ \E j \in Jobs : SubmitJob(j) \/ AgeResult(j)
  \/ \E n \in Nodes :
       \/ Start(n) \/ Heartbeat(n) \/ ClaimSelect(n) \/ ClaimUpdate(n)
       \/ ClaimReplyLost(n) \/ Execute(n) \/ ExecuteRaises(n) \/ Report(n)
       \/ ReportLost(n)
       \/ Crash(n) \/ Stale(n)
  \/ Cleanup

\* The cleanup thread and each running node's job_loop and heartbeat
\* thread are daemon loops that never stop while their process runs, and
\* time passes for a node that is down.  Submissions, starts, faults and
\* result ageing are not obliged to happen.
Fairness ==
  /\ WF_vars(Cleanup)
  /\ \A n \in Nodes :
       /\ WF_vars(ClaimSelect(n)) /\ WF_vars(ClaimUpdate(n))
       /\ WF_vars(Execute(n)) /\ WF_vars(Report(n)) /\ WF_vars(Heartbeat(n))
       /\ WF_vars(npc[n] = "down" /\ Stale(n))

Spec == Init /\ [][Next]_vars /\ Fairness

-----------------------------------------------------------------------------
(* Properties.                                                             *)

\* Types, and the node_id column agrees with the status: set exactly while
\* the job is assigned or has a result.
TypeOK ==
  /\ jstatus \in [Jobs -> JobStates]
  /\ jnode \in [Jobs -> Nodes \cup {NoNode}]
  /\ npc \in [Nodes -> NodePcs]
  /\ njob \in [Nodes -> Jobs \cup {NoJob}]
  /\ faults \in 0..MaxFaults
  /\ \A j \in Jobs :
       jstatus[j] \in {"none", "pending"} => jnode[j] = NoNode

\* A job left assigned to a node whose process has died is eventually
\* taken back (or the node comes back): cleanup_stale_data reclaims it.
StaleJobReclaimed ==
  \A j \in Jobs, n \in Nodes :
    (jstatus[j] = "assigned" /\ jnode[j] = n /\ npc[n] = "down")
      ~> (jstatus[j] # "assigned" \/ jnode[j] # n \/ npc[n] # "down")

\* Every submitted job eventually gets a result, provided every node
\* process eventually stays up.
JobEventuallyFinished ==
  (\A n \in Nodes : <>[](npc[n] # "down"))
    => \A j \in Jobs : jstatus[j] = "pending" ~> jstatus[j] \in Done \cup {"deleted"}

-----------------------------------------------------------------------------
(* The job lifecycle the broker promises, over the row (status, node_id):  *)
(* submit_job creates a pending row, claim_job assigns it to one node,     *)
(* only that node's complete_job records its result, cleanup_stale_data    *)
(* hands an assignment of a dead node back to the queue and deletes old    *)
(* results.                                                                *)

Row(st, n) == <<st, n>>

LifecycleMoves ==
  {<<Row("none", NoNode), Row("pending", NoNode)>>}
  \cup {<<Row("pending", NoNode), Row("assigned", n)>> : n \in Nodes}
  \cup {<<Row("assigned", n), Row(d, n)>> : n \in Nodes, d \in Done}
  \cup {<<Row("assigned", n), Row("pending", NoNode)>> : n \in Nodes}
  \cup {<<Row(d, n), Row("deleted", n)>> : n \in Nodes, d \in Done}

JobLifecycle == INSTANCE Lifecycle
  WITH Ids <- Jobs,
       Statuses <- JobStates \X (Nodes \cup {NoNode}),
       Initial <- Row("none", NoNode),
       Moves <- LifecycleMoves,
       status <- [j \in Jobs |-> Row(jstatus[j], jnode[j])]

\* The broker implements that lifecycle: under crashes, restarts, lost
\* claim and report replies and stale heartbeats, no job is assigned to a
\* second node while the first holds it (claim_job's SELECT/UPDATE race),
\* no result is overwritten by a late or reclaimed run (complete_job's
\* node_id match), and no row skips a stage.
ImplementsJobLifecycle == JobLifecycle!Spec

=============================================================================
