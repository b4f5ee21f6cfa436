\* One pool job, one worker, two concurrent status requests: the worker's
\* answers (queued, running, or an end, cancelled included) are copied into
\* job.status, and the slot released, in the order the requests return.
CONSTANTS
  PoolJobs = {a}
  Workers = {v1}
  Pollers = {p1, p2}
  Capacity = 1
  MaxFailures = 0
  RemoteEnds = {"completed", "failed", "cancelled"}
  NoWorker = NoWorker
  NoRemote = NoRemote
  NoJob = NoJob

SPECIFICATION Spec

PROPERTY StatusResolvedOnce

CHECK_DEADLOCK FALSE
