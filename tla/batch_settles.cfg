SPECIFICATION FairSpec
CONSTANTS
  a = a  b = b  w1 = w1  w2 = w2  c1 = c1  c2 = c2  Nobody = Nobody  Dead = Dead
  Item <- MCItems
  Worker = {w1}
  Client <- MCOneClient
  Limit <- MCLimit
  MaxJobs = 2
  MaxRequests = 2
  MaxSendFails = 0
  MaxCrashes = 1
  MaxKills = 1
  MaxLockFaults = 0
PROPERTY QueuedItemSettles
CHECK_DEADLOCK FALSE
