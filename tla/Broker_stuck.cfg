\* One job, one node, one fault, and the node may be started again.
CONSTANTS
  Jobs = {j1}
  Nodes = {n1}
  MaxFaults = 1
  MaxStarts = 2
  NoJob = NoJob
  NoNode = NoNode
  HostAheadOfUtc = FALSE

SPECIFICATION Spec

PROPERTY JobEventuallyFinished

CHECK_DEADLOCK FALSE
