----------------------------- MODULE Coordinator -----------------------------
(***************************************************************************)
(* The trusted pool coordinator of                                         *)
(* src/integrations/trusted-pool/coordinator.py (TrustedPoolCoordinator).  *)
(*                                                                         *)
(* Everything runs as asyncio tasks on one thread: the dispatcher loop,    *)
(* the health-check loop, and one task per HTTP request.  A task runs      *)
(* without interruption between two awaits, so an action below is the     *)
(* code between two suspension points.  Submission never suspends (the     *)
(* queue is unbounded).  Each worker runs its own job queue, whose jobs    *)
(* are the remote jobs here, identified by <<pool job, attempt>>.          *)
(*                                                                         *)
(* Network outcomes are chosen nondeterministically; MaxFailures bounds    *)
(* how many dispatch posts and health probes fail.  A failing status poll  *)
(* changes nothing but frees its task, and is not counted.                 *)
(***************************************************************************)
EXTENDS Naturals, FiniteSets, Sequences, SequencesExt

CONSTANTS
  PoolJobs,     \* pool job ids (pool-<uuid>)
  Workers,      \* the allowlisted workers of workers.json
  Pollers,      \* concurrent GET /status/{job_id} request tasks
  Capacity,     \* max_concurrent_jobs of every worker
  MaxFailures,  \* bound on failed dispatch posts and health probes
  RemoteEnds,   \* the ends a remote job can reach on its worker
  NoWorker,     \* model value: job.worker_id is None
  NoRemote,     \* model value: job.remote_job_id is None
  NoJob         \* model value: a task holding no job

ASSUME /\ Capacity \in Nat \ {0} /\ MaxFailures \in Nat
       /\ RemoteEnds \subseteq {"completed", "failed", "cancelled"}

\* Attempts: each accepted post creates one remote job on the worker.
Attempts == 1..(MaxFailures + 1)
RIds == PoolJobs \X Attempts

\* Statuses a worker's own queue reports (the Job lifecycle of spec 4.1).
RStatuses == {"queued", "running", "completed", "failed", "cancelled"}
\* Coordinator-side statuses: its own, and whatever the worker reports.
CStatuses == {"queued", "dispatched", "running", "completed", "failed"} \cup RStatuses
Held == {"dispatched", "running"}     \* statuses get_job_status polls

VARIABLES
  cstatus,    \* self.jobs[id].status, or "none" before submit_job
  cworker,    \* self.jobs[id].worker_id
  cremote,    \* self.jobs[id].remote_job_id
  queue,      \* self.job_queue (asyncio.Queue, FIFO)
  disp,       \* the dispatcher task: where it is suspended, and on what
  healthy,    \* worker.is_healthy
  active,     \* worker.active_jobs
  rstatus,    \* status of each remote job on its worker, "none" if absent
  rworker,    \* the worker a remote job was created on
  polls,      \* each status-request task: idle, awaiting, or answered
  failures,   \* network failures so far
  released    \* history: decrements of active_jobs made for each pool job

vars == <<cstatus, cworker, cremote, queue, disp, healthy, active, rstatus,
          rworker, polls, failures, released>>

-----------------------------------------------------------------------------
Init ==
  /\ cstatus = [j \in PoolJobs |-> "none"]
  /\ cworker = [j \in PoolJobs |-> NoWorker]
  /\ cremote = [j \in PoolJobs |-> NoRemote]
  /\ queue = <<>>
  /\ disp = [at |-> "get", job |-> NoJob, worker |-> NoWorker]
  /\ healthy = [w \in Workers |-> FALSE]      \* Worker.is_healthy default
  /\ active = [w \in Workers |-> 0]
  /\ rstatus = [r \in RIds |-> "none"]
  /\ rworker = [r \in RIds |-> NoWorker]
  /\ polls = [p \in Pollers |-> [at |-> "idle", job |-> NoJob, answer |-> "none"]]
  /\ failures = 0
  /\ released = [j \in PoolJobs |-> 0]

-----------------------------------------------------------------------------
(* Request handlers.                                                       *)

\* submit_job: a new PoolJob, queued, put on the dispatch queue.
SubmitJob(j) ==
  /\ cstatus[j] = "none"
  /\ cstatus' = [cstatus EXCEPT ![j] = "queued"]
  /\ queue' = Append(queue, j)
  /\ UNCHANGED <<cworker, cremote, disp, healthy, active, rstatus, rworker,
                 polls, failures, released>>

\* get_job_status, up to its await: only a dispatched or running job with
\* a worker and a remote id is polled; otherwise the local status is
\* returned and nothing changes.
PollStart(p, j) ==
  /\ polls[p].at = "idle"
  /\ cstatus[j] \in Held /\ cworker[j] # NoWorker /\ cremote[j] # NoRemote
  /\ polls' = [polls EXCEPT ![p] = [at |-> "awaiting", job |-> j, answer |-> "none"]]
  /\ UNCHANGED <<cstatus, cworker, cremote, queue, disp, healthy, active,
                 rstatus, rworker, failures, released>>

\* The worker serves GET /status/{remote_job_id}; the answer travels back.
PollServe(p) ==
  /\ polls[p].at = "awaiting"
  /\ polls' = [polls EXCEPT ![p].at = "answered",
                            ![p].answer = rstatus[cremote[polls[p].job]]]
  /\ UNCHANGED <<cstatus, cworker, cremote, queue, disp, healthy, active,
                 rstatus, rworker, failures, released>>

\* The request fails (timeout, connection error): logged, local status
\* returned.
PollFail(p) ==
  /\ polls[p].at \in {"awaiting", "answered"}
  /\ polls' = [polls EXCEPT ![p] = [at |-> "idle", job |-> NoJob, answer |-> "none"]]
  /\ UNCHANGED <<cstatus, cworker, cremote, queue, disp, healthy, active,
                 rstatus, rworker, failures, released>>

\* get_job_status after its await, on a 200: job.status takes the worker's
\* answer whatever it is; if that is completed or failed, active_jobs is
\* decremented (clamped at 0) and completed_at stamped.  The status the
\* poll was started on is not checked again.
PollReturn(p) ==
  LET j == polls[p].job
      w == cworker[j]
      ends == polls[p].answer \in {"completed", "failed"}
  IN /\ polls[p].at = "answered"
     /\ cstatus' = [cstatus EXCEPT ![j] = polls[p].answer]
     /\ active' = IF ends THEN [active EXCEPT ![w] = IF @ > 0 THEN @ - 1 ELSE 0]
                  ELSE active
     /\ released' = IF ends THEN [released EXCEPT ![j] = @ + 1] ELSE released
     /\ polls' = [polls EXCEPT ![p] = [at |-> "idle", job |-> NoJob, answer |-> "none"]]
     /\ UNCHANGED <<cworker, cremote, queue, disp, healthy, rstatus, rworker, failures>>

-----------------------------------------------------------------------------
(* The dispatcher task: job_dispatcher_loop and dispatch_job.              *)

\* Mutation: the capacity test admits a worker that is already full.
AvailableOffByOne == {w \in Workers : healthy[w] /\ active[w] <= Capacity}

\* get_available_worker: healthy workers below capacity.
Available == {w \in Workers : healthy[w] /\ active[w] < Capacity}

\* min(available, key=active_jobs): one with the fewest active jobs (ties
\* go to dict order, which the model leaves open).
LeastLoaded(S) == {w \in S : \A v \in S : active[w] <= active[v]}

\* await job_queue.get(), then dispatch_job up to its first await: no
\* available worker means asyncio.sleep(5); otherwise the post is sent.
DispatchTake ==
  /\ disp.at = "get" /\ queue # <<>>
  /\ queue' = Tail(queue)
  /\ IF Available = {}
       THEN disp' = [at |-> "backoff", job |-> Head(queue), worker |-> NoWorker]
       ELSE \E w \in LeastLoaded(Available) :
              disp' = [at |-> "post", job |-> Head(queue), worker |-> w]
  /\ UNCHANGED <<cstatus, cworker, cremote, healthy, active, rstatus, rworker,
                 polls, failures, released>>

\* Mutation: after the back-off sleep the job is not put back.
BackoffDrop ==
  /\ disp.at = "backoff"
  /\ disp' = [at |-> "get", job |-> NoJob, worker |-> NoWorker]
  /\ UNCHANGED <<cstatus, cworker, cremote, queue, healthy, active, rstatus,
                 rworker, polls, failures, released>>

\* After the back-off sleep the job is put back at the tail of the queue.
Backoff ==
  /\ disp.at = "backoff"
  /\ queue' = Append(queue, disp.job)
  /\ disp' = [at |-> "get", job |-> NoJob, worker |-> NoWorker]
  /\ UNCHANGED <<cstatus, cworker, cremote, healthy, active, rstatus, rworker,
                 polls, failures, released>>

\* The remote job an accepted post of j creates: the next unused attempt.
NextRid(j) == <<j, CHOOSE a \in Attempts : rstatus[<<j, a>>] = "none"
                                    /\ \A b \in 1..(a - 1) : rstatus[<<j, b>>] # "none">>
HasRid(j) == \E a \in Attempts : rstatus[<<j, a>>] = "none"

\* The POST /submit to the worker completes:
\*  "ok"       200: worker_id, dispatched, active_jobs + 1, remote id kept;
\*  "rejected" non-200: the job is put back, the worker stays healthy;
\*  "lost"     exception: worker marked unhealthy, job put back;
\*  "late"     the worker accepted it but the 30 s timeout fired first:
\*             handled as "lost", while the remote job runs anyway.
PostResult ==
  LET j == disp.job
      w == disp.worker
      requeue == queue' = Append(queue, j)
  IN
  /\ disp.at = "post"
  /\ disp' = [at |-> "get", job |-> NoJob, worker |-> NoWorker]
  /\ \/ /\ HasRid(j)
        /\ rstatus' = [rstatus EXCEPT ![NextRid(j)] = "queued"]
        /\ rworker' = [rworker EXCEPT ![NextRid(j)] = w]
        /\ cworker' = [cworker EXCEPT ![j] = w]
        /\ cstatus' = [cstatus EXCEPT ![j] = "dispatched"]
        /\ cremote' = [cremote EXCEPT ![j] = NextRid(j)]
        /\ active' = [active EXCEPT ![w] = @ + 1]
        /\ UNCHANGED <<queue, healthy, failures>>
     \/ /\ failures < MaxFailures /\ failures' = failures + 1
        /\ requeue
        /\ UNCHANGED <<healthy, rstatus, rworker, cworker, cstatus, cremote, active>>
     \/ /\ failures < MaxFailures /\ failures' = failures + 1
        /\ requeue
        /\ healthy' = [healthy EXCEPT ![w] = FALSE]
        /\ UNCHANGED <<rstatus, rworker, cworker, cstatus, cremote, active>>
     \/ /\ failures < MaxFailures /\ failures' = failures + 1
        /\ HasRid(j)
        /\ rstatus' = [rstatus EXCEPT ![NextRid(j)] = "queued"]
        /\ rworker' = [rworker EXCEPT ![NextRid(j)] = w]
        /\ requeue
        /\ healthy' = [healthy EXCEPT ![w] = FALSE]
        /\ UNCHANGED <<cworker, cstatus, cremote, active>>
  /\ UNCHANGED <<polls, released>>

-----------------------------------------------------------------------------
(* The health-check task and the workers.                                  *)

\* Mutation: a probe can only keep a worker healthy, never restore it.
HealthCheckNoRecovery(w) ==
  /\ \/ healthy' = [healthy EXCEPT ![w] = healthy[w]] /\ UNCHANGED failures
     \/ /\ failures < MaxFailures /\ failures' = failures + 1
        /\ healthy' = [healthy EXCEPT ![w] = FALSE]
  /\ UNCHANGED <<cstatus, cworker, cremote, queue, disp, active, rstatus,
                 rworker, polls, released>>

\* health_check_worker: GET /health with a 5 s timeout; healthy exactly
\* when it answers 200 with the configured worker_id.  The loop probes
\* every worker, then sleeps 30 s.
HealthCheck(w) ==
  /\ \/ healthy' = [healthy EXCEPT ![w] = TRUE] /\ UNCHANGED failures
     \/ /\ failures < MaxFailures /\ failures' = failures + 1
        /\ healthy' = [healthy EXCEPT ![w] = FALSE]
  /\ UNCHANGED <<cstatus, cworker, cremote, queue, disp, active, rstatus,
                 rworker, polls, released>>

\* A worker's own queue runs a remote job: queued -> running -> an end.
\* The end may be cancelled (when RemoteEnds has it): the worker's cancel
\* endpoint is open to any client holding the remote job id; the
\* coordinator has none of its own.
RemoteProgress(r) ==
  /\ \/ rstatus[r] = "queued" /\ rstatus' = [rstatus EXCEPT ![r] = "running"]
     \/ rstatus[r] = "running" /\ \E e \in RemoteEnds :
                                     rstatus' = [rstatus EXCEPT ![r] = e]
  /\ UNCHANGED <<cstatus, cworker, cremote, queue, disp, healthy, active,
                 rworker, polls, failures, released>>

-----------------------------------------------------------------------------
Next ==
  \/ \E j \in PoolJobs : SubmitJob(j)
  \/ \E p \in Pollers : \/ \E j \in PoolJobs : PollStart(p, j)
                        \/ PollServe(p) \/ PollFail(p) \/ PollReturn(p)
  \/ DispatchTake \/ Backoff \/ PostResult
  \/ \E w \in Workers : HealthCheck(w)
  \/ \E r \in RIds : RemoteProgress(r)

\* The dispatcher and health-check tasks are never cancelled while the app
\* runs, and each worker runs its own queue; requests come when clients
\* send them, so the request tasks get no fairness.
Fairness ==
  /\ WF_vars(DispatchTake) /\ WF_vars(Backoff) /\ WF_vars(PostResult)
  /\ \A w \in Workers : WF_vars(HealthCheck(w))
  /\ \A r \in RIds : WF_vars(RemoteProgress(r))

Spec == Init /\ [][Next]_vars /\ Fairness

-----------------------------------------------------------------------------
(* Properties.                                                             *)

TypeOK ==
  /\ cstatus \in [PoolJobs -> CStatuses \cup {"none"}]
  /\ cworker \in [PoolJobs -> Workers \cup {NoWorker}]
  /\ cremote \in [PoolJobs -> RIds \cup {NoRemote}]
  /\ queue \in Seq(PoolJobs)
  /\ disp.at \in {"get", "backoff", "post"}
  /\ healthy \in [Workers -> BOOLEAN]
  /\ active \in [Workers -> 0..Capacity]
  /\ rstatus \in [RIds -> RStatuses \cup {"none"}]
  /\ polls \in [Pollers -> [at : {"idle", "awaiting", "answered"},
                            job : PoolJobs \cup {NoJob},
                            answer : RStatuses \cup {"none"}]]
  /\ failures \in 0..MaxFailures

\* The job is in the dispatcher's hands: queued, or taken by the task.
InDispatch(j) == j \in ToSet(queue) \/ (disp.at # "get" /\ disp.job = j)

\* No submitted job is ever dropped: it is waiting for dispatch or has
\* been given to a worker (work is only delayed, never lost).
JobNeverLost ==
  \A j \in PoolJobs : cstatus[j] # "none" => InDispatch(j) \/ cworker[j] # NoWorker

\* Every submitted job is eventually given to a worker, once failures stop.
EventuallyAssigned ==
  \A j \in PoolJobs : cstatus[j] = "queued" ~> cworker[j] # NoWorker

\* active_jobs is decremented at most once for each pool job (spec section
\* 8: exactly once per job reaching a terminal state, under any polling).
SlotReleasedOnce ==
  \A j \in PoolJobs : released[j] <= 1

-----------------------------------------------------------------------------
(* Refinement of the PoolJob state machine of the design (section 4.3):    *)
(* queued -> dispatched -> running -> completed | failed, a dispatch       *)
(* failure leaving the job queued.  A poll may observe the worker's job    *)
(* past running, so dispatched may move straight to an end.                *)

PoolMoves ==
  {<<"none", "queued">>, <<"queued", "dispatched">>}
    \cup ({"dispatched"} \X {"running", "completed", "failed"})
    \cup ({"running"} \X {"completed", "failed"})

PoolLifecycle == INSTANCE Lifecycle
                   WITH Ids <- PoolJobs, Statuses <- CStatuses \cup {"none"},
                        Initial <- "none", Moves <- PoolMoves, status <- cstatus

\* Every change get_job_status, submit_job and dispatch_job make to
\* job.status follows the pool job state machine: no status goes back, and
\* completed and failed are final.
ImplementsPoolLifecycle == PoolLifecycle!Spec

\* get_job_status resolves a pool job as section 4.3 specifies: the status
\* it copies from the worker only moves along the pool job state machine,
\* and the worker's active_jobs is decremented at most once for the job
\* (spec section 8: exactly once, even under repeated status polling).
StatusResolvedOnce == ImplementsPoolLifecycle /\ []SlotReleasedOnce

=============================================================================
