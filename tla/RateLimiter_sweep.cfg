\* One caller: queried before it is ever seen, or swept and then seen again.
CONSTANTS
  Ips = {i1}
  Jobs = {j1}
  CpuCosts = {1, 2}
  CpuPerMinute = 2
  MaxConcurrent = 1
  MaxPerHour = 3
  Minute = 2
  Hour = 3
  Retention = 3
  MaxTime = 8
  NoIp = NoIp

SPECIFICATION Spec

INVARIANT SweepForgetsInactive

CHECK_DEADLOCK FALSE
