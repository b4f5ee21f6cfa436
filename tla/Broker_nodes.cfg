\* Two jobs, two nodes, each node process started at most twice, two
\* faults: enough for a job to be claimed, lost with its node, reclaimed
\* and claimed by the other node while the first still reports it.
CONSTANTS
  Jobs = {j1, j2}
  Nodes = {n1, n2}
  MaxFaults = 2
  MaxStarts = 2
  NoJob = NoJob
  NoNode = NoNode
  HostAheadOfUtc = FALSE

SPECIFICATION Spec

INVARIANT TypeOK
PROPERTY ImplementsJobLifecycle
PROPERTY StaleJobReclaimed

\* Once every job has a result and no fault is left, the nodes only poll.
CHECK_DEADLOCK FALSE
