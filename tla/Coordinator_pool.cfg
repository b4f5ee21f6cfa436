\* Two pool jobs, two workers of capacity 1 (enough for both jobs without
\* any slot being released), one status-request task, two network failures.
CONSTANTS
  PoolJobs = {a, b}
  Workers = {v1, v2}
  Pollers = {p1}
  Capacity = 1
  MaxFailures = 2
  RemoteEnds = {"completed", "failed"}
  NoWorker = NoWorker
  NoRemote = NoRemote
  NoJob = NoJob

SPECIFICATION Spec

INVARIANT TypeOK
INVARIANT JobNeverLost
PROPERTY EventuallyAssigned

\* With every job submitted, dispatched and finished on its worker, the
\* coordinator only waits for requests.
CHECK_DEADLOCK FALSE
