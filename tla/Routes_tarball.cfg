\* One job, one executor thread: the tarball route checks the job while it
\* waits in the pool queue, and the pool thread starts it during the archive.
CONSTANTS
  JobIds = {j1}
  Workers = {w1}
  NoThread = NoThread
  Api = Api
  NoJob = NoJob
  LockReentrant = TRUE
  MaxCrashes = 0
  MaxAddFailures = 0
  MaxTarballs = 1

SPECIFICATION RoutesSpec

INVARIANT TarballOfStoppedJob

CHECK_DEADLOCK FALSE
