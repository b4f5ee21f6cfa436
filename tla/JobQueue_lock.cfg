\* The queue as written, with a threading.Lock: the first _save_jobs blocks.
CONSTANTS
  JobIds = {j1, j2}
  Workers = {w1, w2}
  NoThread = NoThread
  Api = Api
  NoJob = NoJob
  LockReentrant = FALSE
  MaxCrashes = 0
  MaxAddFailures = 0

SPECIFICATION Spec

PROPERTY LockEventuallyReleased

CHECK_DEADLOCK FALSE
