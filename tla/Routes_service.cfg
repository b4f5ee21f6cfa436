\* The service as deployed (routes over the queue) with self.lock replaced
\* by an RLock: two jobs, two executor threads, two crashes of the server
\* process (a recovery can itself be interrupted), one failing useradd and
\* two download_job_tarball calls.
CONSTANTS
  JobIds = {j1, j2}
  Workers = {w1, w2}
  NoThread = NoThread
  Api = Api
  NoJob = NoJob
  LockReentrant = TRUE
  MaxCrashes = 2
  MaxAddFailures = 1
  MaxTarballs = 2

SPECIFICATION RoutesSpec

INVARIANT RoutesTypeOK
INVARIANT AcknowledgedSurvivesCrash
PROPERTY PersistedTerminalIsFinal
PROPERTY ScheduledJobTerminates
PROPERTY AcknowledgedJobFinishes

\* Once every job id is used and every execution has ended, the server
\* only waits for requests: a final state here is an idle server.
CHECK_DEADLOCK FALSE
