\* A job saved as queued whose useradd then fails (in enqueue, or in
\* restart_job, where the user always still exists) is never submitted and
\* stays queued.  One failing useradd is allowed.
CONSTANTS
  JobIds = {j1, j2}
  Workers = {w1, w2}
  NoThread = NoThread
  Api = Api
  NoJob = NoJob
  LockReentrant = TRUE
  MaxCrashes = 0
  MaxAddFailures = 1

SPECIFICATION Spec

PROPERTY QueuedJobEventuallyRuns

CHECK_DEADLOCK FALSE
