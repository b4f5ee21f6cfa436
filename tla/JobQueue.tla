------------------------------ MODULE JobQueue ------------------------------
(***************************************************************************)
(* The isolated job queue of src/job_queue.py (class JobQueue).            *)
(*                                                                         *)
(* One event-loop thread serves the HTTP API (FastAPI runs the async route *)
(* handlers of src/routes.py on one thread, and they call the queue        *)
(* synchronously), so API operations are atomic with respect to each       *)
(* other.  A ThreadPoolExecutor of |Workers| threads runs _run_job.  All   *)
(* of them share self.jobs, guarded by self.lock, and the JSON ledger.     *)
(*                                                                         *)
(* Every job owns an ephemeral OS user named after it; restart_job reuses  *)
(* the same name, so the set of existing OS users is a set of job ids.     *)
(* OS users and the ledger survive a crash of the server process; the      *)
(* in-memory table, the executor queue and the threads do not.             *)
(*                                                                         *)
(* _save_jobs takes self.lock, and every caller of it already holds it.   *)
(* self.lock is a threading.Lock, which is not reentrant: the second       *)
(* acquire blocks the calling thread forever.  LockReentrant = FALSE       *)
(* models that; LockReentrant = TRUE models the same code with an RLock,   *)
(* under which the rest of the queue's behaviour can be examined.          *)
(***************************************************************************)
EXTENDS Naturals, Sequences, SequencesExt

CONSTANTS
  JobIds,         \* job ids (uuid4); each also names the job's OS user
  Workers,        \* the executor's threads (max_workers)
  NoThread,       \* model value: nobody holds self.lock
  Api,            \* model value: the event-loop thread running the routes
  NoJob,          \* model value: "no job" for a worker or the API
  LockReentrant,  \* FALSE: threading.Lock as written; TRUE: an RLock
  MaxCrashes,     \* bound on crashes of the server process
  MaxAddFailures  \* bound on failing useradd runs in enqueue

ASSUME LockReentrant \in BOOLEAN /\ MaxCrashes \in Nat /\ MaxAddFailures \in Nat
ASSUME Api \notin Workers /\ NoThread \notin Workers \cup {Api}

Absent   == "absent"             \* job_id not a key of self.jobs
Statuses == {"queued", "running", "completed", "failed", "cancelled"}
Terminal == {"completed", "failed", "cancelled"}

VARIABLES
  table,        \* self.jobs: job id -> status, or Absent
  ledger,       \* the JSON storage file: job id -> status, or Absent
  created,      \* job ids in the order Job() created them (dict order)
  users,        \* ephemeral OS users that exist (useradd'ed, not userdel'ed)
  apiPending,   \* job whose enqueue has saved it but not yet provisioned it
  poolQueue,    \* the executor's FIFO of submitted _run_job(job_id) calls
  wpc,          \* each worker thread's position in _run_job
  wjob,         \* the job each worker thread is running
  proc,         \* the sudo child of each worker: none/alive/killed/nouser
  lockHolder,   \* the thread holding self.lock (blocked in _save_jobs)
  crashes,      \* crashes so far
  addFailures,  \* useradd failures in enqueue so far
  aborted       \* a restart found the ledger torn: _load_jobs raised

vars == <<table, ledger, created, users, apiPending, poolQueue, wpc, wjob,
          proc, lockHolder, crashes, addFailures, aborted>>

WorkerPcs == {"idle", "spawn", "wait", "save", "cleanup"}
ProcStates == {"none", "alive", "killed", "nouser"}

-----------------------------------------------------------------------------
(* Helpers.                                                                *)

\* _save_jobs, called by thread t that already holds self.lock; it writes
\* the table tbl the caller has just produced (truncate and dump as one
\* step; CrashInSave is the crash between them).  A non-reentrant lock makes
\* t block here forever, still holding the lock, before anything is written.
SaveJobs(t, tbl) ==
  IF LockReentrant
    THEN /\ ledger' = tbl
         /\ lockHolder' = NoThread
    ELSE /\ ledger' = ledger
         /\ lockHolder' = t

\* Thread t may take a step: it is not stuck inside _save_jobs.
Runnable(t) == lockHolder # t

\* Thread t acquires self.lock (with self.lock:).
Acquire(t) == lockHolder = NoThread

\* The API thread is free to serve a new request.
ApiIdle == ~aborted /\ apiPending = NoJob /\ Runnable(Api)

\* Mutation: recovery resubmits every job of the ledger, finished or not.
RecoveredAll(ldg) == SelectSeq(created, LAMBDA j : ldg[j] # Absent)

\* Mutation: recovery resubmits only the jobs that were running.
RecoveredRunningOnly(ldg) == SelectSeq(created, LAMBDA j : ldg[j] = "running")

\* _load_jobs: the jobs the recovery pass resubmits, in ledger (dict) order.
Recovered(ldg) == SelectSeq(created, LAMBDA j : ldg[j] \in {"queued", "running"})

\* pool.submit(self._run_job, job_id)
Submit(j) == poolQueue' = Append(poolQueue, j)

-----------------------------------------------------------------------------
Init ==
  /\ table = [j \in JobIds |-> Absent]
  /\ ledger = [j \in JobIds |-> Absent]
  /\ created = <<>>
  /\ users = {}
  /\ apiPending = NoJob
  /\ poolQueue = <<>>
  /\ wpc = [w \in Workers |-> "idle"]
  /\ wjob = [w \in Workers |-> NoJob]
  /\ proc = [w \in Workers |-> "none"]
  /\ lockHolder = NoThread
  /\ crashes = 0
  /\ addFailures = 0
  /\ aborted = FALSE

-----------------------------------------------------------------------------
(* API operations (src/job_queue.py, called from src/routes.py).           *)

\* enqueue, first half: Job(...) with a fresh uuid, then under the lock add
\* it to self.jobs and _save_jobs.
EnqueueRecord(j) ==
  /\ ApiIdle /\ Acquire(Api)
  /\ j \notin ToSet(created)
  /\ table' = [table EXCEPT ![j] = "queued"]
  /\ SaveJobs(Api, table')
  /\ created' = Append(created, j)
  /\ apiPending' = j
  /\ UNCHANGED <<users, poolQueue, wpc, wjob, proc, crashes, addFailures, aborted>>

\* enqueue, second half, outside the lock: makedirs, _create_user (useradd
\* of a fresh name), pool.submit.
EnqueueProvision ==
  /\ apiPending # NoJob /\ Runnable(Api)
  /\ users' = users \cup {apiPending}
  /\ Submit(apiPending)
  /\ apiPending' = NoJob
  /\ UNCHANGED <<table, ledger, created, wpc, wjob, proc, lockHolder, crashes, addFailures, aborted>>

\* enqueue, second half, when useradd fails: _create_user runs it with
\* check=True, the CalledProcessError leaves enqueue before pool.submit,
\* and the job stays queued in self.jobs and in the ledger.
EnqueueUserAddFails ==
  /\ apiPending # NoJob /\ Runnable(Api)
  /\ addFailures < MaxAddFailures
  /\ addFailures' = addFailures + 1
  /\ apiPending' = NoJob
  /\ UNCHANGED <<table, ledger, created, users, poolQueue, wpc, wjob, proc,
                 lockHolder, crashes, aborted>>

\* Mutation: delete_job drops the entry without calling _save_jobs.
DeleteJobNoSave(j) ==
  /\ ApiIdle /\ Acquire(Api)
  /\ table[j] \notin {Absent, "running"}
  /\ table' = [table EXCEPT ![j] = Absent]
  /\ UNCHANGED <<ledger, lockHolder>>
  /\ UNCHANGED <<created, users, apiPending, poolQueue, wpc, wjob, proc, crashes, addFailures, aborted>>

\* delete_job: refused if unknown or running; otherwise drop the entry,
\* _save_jobs, rmtree the directory.  The OS user is left alone.
DeleteJob(j) ==
  /\ ApiIdle /\ Acquire(Api)
  /\ table[j] \notin {Absent, "running"}
  /\ table' = [table EXCEPT ![j] = Absent]
  /\ SaveJobs(Api, table')
  /\ UNCHANGED <<created, users, apiPending, poolQueue, wpc, wjob, proc, crashes, addFailures, aborted>>

\* The children of job j that pkill -u <user of j> would signal.
Killable(j) == {w \in Workers : wjob[w] = j /\ proc[w] = "alive"}

\* Mutation: cancel_job records the spelling "canceled" that routes.py uses.
CancelJobMisspelt(j) ==
  /\ ApiIdle /\ Acquire(Api)
  /\ table[j] = "running"
  /\ Killable(j) # {}
  /\ proc' = [w \in Workers |-> IF w \in Killable(j) THEN "killed" ELSE proc[w]]
  /\ table' = [table EXCEPT ![j] = "canceled"]
  /\ SaveJobs(Api, table')
  /\ UNCHANGED <<created, users, apiPending, poolQueue, wpc, wjob, crashes, addFailures, aborted>>

\* cancel_job: refused unless running; pkill -u by the job's user; a
\* non-zero pkill status (no process matched) raises, leaving the job
\* running; otherwise status cancelled and _save_jobs.
CancelJob(j) ==
  /\ ApiIdle /\ Acquire(Api)
  /\ table[j] = "running"
  /\ Killable(j) # {}
  /\ proc' = [w \in Workers |-> IF w \in Killable(j) THEN "killed" ELSE proc[w]]
  /\ table' = [table EXCEPT ![j] = "cancelled"]
  /\ SaveJobs(Api, table')
  /\ UNCHANGED <<created, users, apiPending, poolQueue, wpc, wjob, crashes, addFailures, aborted>>

\* restart_job: refused unless cancelled; status queued, _save_jobs,
\* makedirs, _create_user(job.ephemeral_user) with check=True and then
\* pool.submit.  useradd of a name that still exists fails, the
\* CalledProcessError leaves the with-block, and pool.submit never runs.
RestartJob(j) ==
  /\ ApiIdle /\ Acquire(Api)
  /\ table[j] = "cancelled"
  /\ table' = [table EXCEPT ![j] = "queued"]
  /\ SaveJobs(Api, table')
  /\ IF LockReentrant /\ j \notin users
       THEN users' = users \cup {j} /\ Submit(j)
       ELSE UNCHANGED <<users, poolQueue>>
  /\ UNCHANGED <<created, apiPending, wpc, wjob, proc, crashes, addFailures, aborted>>

-----------------------------------------------------------------------------
(* _run_job, executed by worker thread w.                                  *)

\* The worker takes the next submitted call; under the lock it reads
\* self.jobs[job_id] (a KeyError for a deleted job ends the call), sets
\* running and calls _save_jobs.
RunStart(w) ==
  /\ wpc[w] = "idle" /\ poolQueue # <<>>
  /\ Runnable(w) /\ Acquire(w)
  /\ LET j == Head(poolQueue) IN
       /\ poolQueue' = Tail(poolQueue)
       /\ IF table[j] = Absent
            THEN UNCHANGED <<table, ledger, wpc, wjob, lockHolder>>
            ELSE /\ table' = [table EXCEPT ![j] = "running"]
                 /\ SaveJobs(w, table')
                 /\ wpc' = [wpc EXCEPT ![w] = "spawn"]
                 /\ wjob' = [wjob EXCEPT ![w] = j]
  /\ UNCHANGED <<created, users, apiPending, proc, crashes, addFailures, aborted>>

\* Popen(["sudo", "-u", user] + command): the child runs as the job's user,
\* or sudo exits at once when that user does not exist.
Spawn(w) ==
  /\ wpc[w] = "spawn" /\ Runnable(w)
  /\ proc' = [proc EXCEPT ![w] = IF wjob[w] \in users THEN "alive" ELSE "nouser"]
  /\ wpc' = [wpc EXCEPT ![w] = "wait"]
  /\ UNCHANGED <<table, ledger, created, users, apiPending, poolQueue, wjob,
                 lockHolder, crashes, addFailures, aborted>>

\* communicate() returns: exit status 0 gives completed, anything else (a
\* kill, sudo's unknown-user error, a failing script, a Popen exception)
\* gives failed.  The write is to the Job object, outside the lock: it
\* overwrites whatever status the job has, and is lost if the job was deleted.
Finish(w) ==
  /\ wpc[w] = "wait" /\ Runnable(w)
  /\ \E outcome \in IF proc[w] = "alive" THEN {"completed", "failed"} ELSE {"failed"} :
       table' = IF table[wjob[w]] = Absent THEN table
                ELSE [table EXCEPT ![wjob[w]] = outcome]
  /\ proc' = [proc EXCEPT ![w] = "none"]
  /\ wpc' = [wpc EXCEPT ![w] = "save"]
  /\ UNCHANGED <<ledger, created, users, apiPending, poolQueue, wjob,
                 lockHolder, crashes, addFailures, aborted>>

\* finally: with self.lock: self._save_jobs()
FinalSave(w) ==
  /\ wpc[w] = "save" /\ Runnable(w) /\ Acquire(w)
  /\ SaveJobs(w, table)
  /\ wpc' = [wpc EXCEPT ![w] = "cleanup"]
  /\ UNCHANGED <<table, created, users, apiPending, poolQueue, wjob, proc, crashes, addFailures, aborted>>

\* finally: _delete_user (userdel, check=False: a failure is ignored).
DeleteUser(w) ==
  /\ wpc[w] = "cleanup" /\ Runnable(w)
  /\ users' = users \ {wjob[w]}
  /\ wpc' = [wpc EXCEPT ![w] = "idle"]
  /\ wjob' = [wjob EXCEPT ![w] = NoJob]
  /\ UNCHANGED <<table, ledger, created, apiPending, poolQueue, proc,
                 lockHolder, crashes, addFailures, aborted>>

-----------------------------------------------------------------------------
(* Crash of the server process and restart: JobQueue.__init__ and          *)
(* _load_jobs reload the ledger and resubmit every queued or running job.  *)
(* The job's children die with the service; OS users and the file stay.    *)
(* _save_jobs opens the file with mode 'w', which truncates it, and then   *)
(* json.dump writes it, with no temporary file, rename or fsync: a crash   *)
(* between the two leaves a prefix of the JSON text, which json.load       *)
(* rejects, and a crash anywhere else leaves the last complete save.       *)

\* Memory and threads after the process died: nothing runs or waits.
ProcessGone ==
  /\ apiPending' = NoJob
  /\ wpc' = [w \in Workers |-> "idle"]
  /\ wjob' = [w \in Workers |-> NoJob]
  /\ proc' = [w \in Workers |-> "none"]
  /\ lockHolder' = NoThread

\* The crash falls outside _save_jobs; the restart loads the last save.
CrashRestart ==
  /\ ~aborted /\ crashes < MaxCrashes
  /\ crashes' = crashes + 1
  /\ table' = ledger
  /\ poolQueue' = Recovered(ledger)
  /\ ProcessGone
  /\ UNCHANGED <<ledger, created, users, addFailures, aborted>>

\* A save by the API thread could start now: its next request may be one
\* that writes the ledger.
ApiSaveEnabled ==
  \E j \in JobIds :
    ENABLED (EnqueueRecord(j) \/ DeleteJob(j) \/ CancelJob(j) \/ RestartJob(j))

\* A save by a pool thread could start now: the finally of _run_job, or
\* the start of a job that is still in self.jobs.
WorkerSaveEnabled ==
  \E w \in Workers : ENABLED FinalSave(w) \/ ENABLED (RunStart(w) /\ wpc'[w] = "spawn")

\* The crash falls inside a _save_jobs that apiMaySave allows to start
\* (the caller of the API may be busy elsewhere): the file is left
\* truncated, no record can be read back, and on restart json.load raises
\* in _load_jobs, so JobQueue() and the import of routes.py fail and the
\* service does not come up.  self.jobs is not rebuilt; table keeps the
\* last image of the dead process.
CrashInSave(apiMaySave) ==
  /\ LockReentrant /\ ~aborted /\ crashes < MaxCrashes
  /\ (apiMaySave /\ ApiSaveEnabled) \/ WorkerSaveEnabled
  /\ crashes' = crashes + 1
  /\ ledger' = [j \in JobIds |-> Absent]
  /\ aborted' = TRUE
  /\ poolQueue' = <<>>
  /\ ProcessGone
  /\ UNCHANGED <<table, created, users, addFailures>>

-----------------------------------------------------------------------------
Next ==
  \/ \E j \in JobIds : EnqueueRecord(j) \/ DeleteJob(j) \/ CancelJob(j) \/ RestartJob(j)
  \/ EnqueueProvision \/ EnqueueUserAddFails
  \/ \E w \in Workers :
       RunStart(w) \/ Spawn(w) \/ Finish(w) \/ FinalSave(w) \/ DeleteUser(w)
  \/ CrashRestart \/ CrashInSave(TRUE)

\* The executor's threads are scheduled by the OS and the rest of an enqueue
\* handler runs once it has started; the caller's requests and crashes are
\* not obliged to happen.  WF on Finish assumes every job's process exits:
\* the code sets no timeout on communicate().
Fairness ==
  /\ WF_vars(EnqueueProvision)
  /\ \A w \in Workers :
       /\ WF_vars(RunStart(w)) /\ WF_vars(Spawn(w)) /\ WF_vars(Finish(w))
       /\ WF_vars(FinalSave(w)) /\ WF_vars(DeleteUser(w))

Spec == Init /\ [][Next]_vars /\ Fairness

-----------------------------------------------------------------------------
(* Properties.                                                             *)

TypeOK ==
  /\ table \in [JobIds -> Statuses \cup {Absent}]
  /\ ledger \in [JobIds -> Statuses \cup {Absent}]
  /\ created \in Seq(JobIds)
  /\ users \subseteq JobIds
  /\ apiPending \in JobIds \cup {NoJob}
  /\ poolQueue \in Seq(JobIds)
  /\ wpc \in [Workers -> WorkerPcs]
  /\ wjob \in [Workers -> JobIds \cup {NoJob}]
  /\ proc \in [Workers -> ProcStates]
  /\ lockHolder \in Workers \cup {Api, NoThread}
  /\ crashes \in 0..MaxCrashes
  /\ addFailures \in 0..MaxAddFailures
  /\ aborted \in BOOLEAN

\* An execution of j is pending: submitted to the executor or being run.
Scheduled(j) == j \in ToSet(poolQueue) \/ \E w \in Workers : wjob[w] = j

\* Once the ledger records that a job completed or failed, the record is
\* final: recovery after a crash never runs that job again and no later
\* save rewrites it; only delete_job, or a crash that tears the file,
\* removes it.
PersistedTerminalIsFinal ==
  [][\A j \in JobIds :
       ledger[j] \in {"completed", "failed"} => ledger'[j] \in {ledger[j], Absent}]_vars

\* A job queued with an execution submitted to the executor eventually
\* ends (a terminal status) or is deleted, whatever crashes and recoveries
\* happen in between (at-least-once execution of what _load_jobs finds),
\* unless a crash tears the ledger and the service stays down.
ScheduledJobTerminates ==
  \A j \in JobIds :
    (table[j] = "queued" /\ Scheduled(j)) ~> (table[j] \in Terminal \cup {Absent} \/ aborted)

\* self.lock is always released again by the thread that holds it.
LockEventuallyReleased ==
  \A t \in Workers \cup {Api} : lockHolder = t ~> lockHolder # t

QueuedJobEventuallyRuns ==
  \A j \in JobIds : table[j] = "queued" ~> (table[j] \in {"running", Absent} \/ aborted)

-----------------------------------------------------------------------------
(* The job lifecycle of the spec (section 3, Job): created queued, then    *)
(* running on dispatch, then completed, failed or cancelled; restart takes *)
(* a cancelled job back to queued; delete removes a job that is not        *)
(* running.  Stated over self.jobs, the status every route reads.  A crash *)
(* between Finish and FinalSave makes recovery re-run a finished job from  *)
(* the start (the at-least-once resumption section 4.1 accepts), so a      *)
(* completed or failed job may go back to running.                         *)

LifecycleMoves ==
  {<<Absent, "queued">>, <<"queued", "running">>, <<"running", "completed">>,
   <<"running", "failed">>, <<"running", "cancelled">>, <<"cancelled", "queued">>,
   <<"completed", "running">>, <<"failed", "running">>}
  \cup {<<s, Absent>> : s \in Statuses \ {"running"}}

JobLifecycle == INSTANCE Lifecycle
  WITH Ids <- JobIds, Statuses <- Statuses \cup {Absent}, Initial <- Absent,
       Moves <- LifecycleMoves, status <- table

\* The job table follows the spec's lifecycle: in particular a cancelled
\* job stays cancelled until restart_job or delete_job, whatever the pool
\* thread that ran it writes when its killed process returns.
ImplementsJobLifecycle == JobLifecycle!Spec

=============================================================================
