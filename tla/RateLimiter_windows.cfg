\* Two callers, two jobs, CPU costs 1 and 2 against a cap of 2 per minute,
\* one concurrent job, one per hour; windows of 2 and 4 ticks, retention 4,
\* eight ticks: long enough for samples to leave each window and for a
\* caller to be swept and come back.
CONSTANTS
  Ips = {i1, i2}
  Jobs = {j1, j2}
  CpuCosts = {1, 2}
  CpuPerMinute = 2
  MaxConcurrent = 1
  MaxPerHour = 1
  Minute = 2
  Hour = 4
  Retention = 4
  MaxTime = 8
  NoIp = NoIp

SPECIFICATION Spec

INVARIANT TypeOK
INVARIANT DecisionMatchesHistory

\* At MaxTime, with every job ended, nothing is left to do in the model.
CHECK_DEADLOCK FALSE
