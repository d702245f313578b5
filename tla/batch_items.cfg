SPECIFICATION Spec
CONSTANTS
  a = a  b = b  w1 = w1  w2 = w2  c1 = c1  c2 = c2  Nobody = Nobody  Dead = Dead
  Item <- MCItems
  Worker <- MCWorkers
  Client <- MCOneClient
  Limit <- MCLimit
  MaxJobs = 2
  MaxRequests = 2
  MaxSendFails = 1
  MaxCrashes = 0
  MaxKills = 1
  MaxLockFaults = 1
SYMMETRY ItemsAndWorkers
INVARIANTS RunningWithinLimit QueuedHasSlot
CHECK_DEADLOCK FALSE
