------------------------------- MODULE Routes -------------------------------
(***************************************************************************)
(* The HTTP routes of src/routes.py composed with the job queue they call. *)
(*                                                                         *)
(* routes.py creates one JobQueue at import and calls it from async        *)
(* handlers that never await while they hold the queue, so each route is   *)
(* one API step of JobQueue; the pool threads and crashes are JobQueue's.  *)
(* The checks a route makes before calling the queue (no files, an         *)
(* unsupported interpreter, an unknown job, a missing or wrong secret)     *)
(* answer 400, 403 or 404 and change nothing, so they are stuttering steps *)
(* and need no action here.  No route calls restart_job.                   *)
(*                                                                         *)
(* promised records what the routes have told clients: a job id that       *)
(* create_job returned ("exists") and a job whose deletion delete_job      *)
(* acknowledged ("gone").                                                  *)
(*                                                                         *)
(* download_job_tarball is the one read route that takes time: after its   *)
(* status check, Job.tarball runs shutil.make_archive on the event-loop    *)
(* thread, without self.lock, while the pool threads go on.  archiving is  *)
(* the job whose directory is being archived; the event loop serves no     *)
(* other request until it is done.                                         *)
(***************************************************************************)
EXTENDS JobQueue

CONSTANT MaxTarballs  \* bound on download_job_tarball calls explored

VARIABLES promised, archiving, tarballs

rvars == <<vars, promised, archiving, tarballs>>

Promises == {"none", "exists", "gone"}

\* router and the module-level queue = JobQueue(...).
RoutesInit ==
  /\ Init
  /\ promised = [j \in JobIds |-> "none"]
  /\ archiving = NoJob
  /\ tarballs = 0

\* The event loop is not inside a download_job_tarball call.
NotArchiving == archiving = NoJob

\* create_job: checks the upload, makes the directory, builds the command,
\* and calls queue.enqueue, whose first half runs here.
CreateJob(j) ==
  /\ NotArchiving
  /\ EnqueueRecord(j)
  /\ UNCHANGED <<promised, archiving, tarballs>>

\* create_job returns {"job_id": ...} once enqueue has returned.
CreateJobReply ==
  /\ promised' = [promised EXCEPT ![apiPending] = "exists"]
  /\ EnqueueProvision
  /\ UNCHANGED <<archiving, tarballs>>

\* Mutation: the handler swallows enqueue's exception and answers with the
\* job id anyway.
CreateJobErrorAcked ==
  /\ promised' = [promised EXCEPT ![apiPending] = "exists"]
  /\ EnqueueUserAddFails
  /\ UNCHANGED <<archiving, tarballs>>

\* enqueue raised (useradd failed): FastAPI answers 500, no job id.
CreateJobError ==
  /\ EnqueueUserAddFails
  /\ UNCHANGED <<promised, archiving, tarballs>>

\* delete_job route: after the lookup and the secret check, queue.delete_job;
\* a running job makes it raise ValueError, answered 500.
DeleteRoute(j) ==
  /\ NotArchiving
  /\ DeleteJob(j)
  /\ promised' = [promised EXCEPT ![j] = "gone"]
  /\ UNCHANGED <<archiving, tarballs>>

\* cancel_job route: after the lookup and the secret check, queue.cancel_job.
\* It returns None, so the route raises "Failed to cancel job." (500) even
\* when the job was cancelled.
CancelRoute(j) ==
  /\ NotArchiving
  /\ CancelJob(j)
  /\ UNCHANGED <<promised, archiving, tarballs>>

\* download_job_tarball up to job.tarball(): queue.get_job under self.lock,
\* the secret check, then 400 if job.status is running.  The status is
\* read from the Job object after get_job has released the lock.
TarballCheck(j) ==
  /\ NotArchiving /\ ApiIdle /\ Acquire(Api)
  /\ table[j] \notin {Absent, "running"}
  /\ tarballs < MaxTarballs /\ tarballs' = tarballs + 1
  /\ archiving' = j
  /\ UNCHANGED <<vars, promised>>

\* Job.tarball returns: make_archive has packed the directory, and the
\* route answers with the file.
TarballDone ==
  /\ archiving # NoJob
  /\ archiving' = NoJob
  /\ UNCHANGED <<vars, promised, tarballs>>

RoutesNext ==
  \/ \E j \in JobIds : CreateJob(j) \/ DeleteRoute(j) \/ CancelRoute(j) \/ TarballCheck(j)
  \/ CreateJobReply \/ CreateJobError \/ TarballDone
  \/ \E w \in Workers :
       /\ RunStart(w) \/ Spawn(w) \/ Finish(w) \/ FinalSave(w) \/ DeleteUser(w)
       /\ UNCHANGED <<promised, archiving, tarballs>>
  \/ (CrashRestart \/ CrashInSave(NotArchiving))
     /\ archiving' = NoJob /\ UNCHANGED <<promised, tarballs>>

\* The queue's fairness, and make_archive, which reads a finite directory,
\* returns.
RoutesSpec == RoutesInit /\ [][RoutesNext]_rvars /\ Fairness /\ WF_rvars(TarballDone)

-----------------------------------------------------------------------------
(* Properties.                                                             *)

RoutesTypeOK ==
  /\ TypeOK
  /\ promised \in [JobIds -> Promises]
  /\ archiving \in JobIds \cup {NoJob}
  /\ tarballs \in 0..MaxTarballs

\* What the routes tell a client survives a crash of the server: a job id
\* create_job returned stays in self.jobs until delete_job removes it, and
\* a job delete_job acknowledged never comes back after _load_jobs, as long
\* as the service comes up again.  enqueue and delete_job save the ledger
\* before returning, and a restart succeeds only when the last save was
\* complete; a crash inside a save makes _load_jobs abort startup instead.
AcknowledgedSurvivesCrash ==
  ~aborted =>
  \A j \in JobIds :
    /\ promised[j] = "exists" => table[j] # Absent
    /\ promised[j] = "gone" => table[j] = Absent

\* Every job id create_job returned is eventually finished (completed,
\* failed or cancelled) or deleted, through crashes of the server: enqueue
\* submits it to the pool before the route answers, and _load_jobs
\* resubmits it from the ledger while it is queued or running; unless a
\* crash tears the ledger and startup aborts.
AcknowledgedJobFinishes ==
  \A j \in JobIds : promised[j] = "exists" ~> (table[j] \in Terminal \cup {Absent} \/ aborted)

\* download_job_tarball never archives the directory of a running job
\* (spec section 4.1: tarball is only valid when the job is not running):
\* the job stays out of running from the status check until make_archive
\* has finished.
TarballOfStoppedJob ==
  archiving \in JobIds => table[archiving] # "running"

=============================================================================
