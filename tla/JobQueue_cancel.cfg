\* The job table leaves the spec's lifecycle: the pool thread writes failed
\* over a job cancel_job has just cancelled.
CONSTANTS
  JobIds = {j1, j2}
  Workers = {w1, w2}
  NoThread = NoThread
  Api = Api
  NoJob = NoJob
  LockReentrant = TRUE
  MaxCrashes = 0
  MaxAddFailures = 0

SPECIFICATION Spec

PROPERTY ImplementsJobLifecycle

CHECK_DEADLOCK FALSE
