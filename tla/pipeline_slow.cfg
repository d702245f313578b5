SPECIFICATION Spec
CONSTANTS
  w1 = w1  w2 = w2  p1 = p1  p2 = p2
  Worker <- MCWorkers
  Page <- MCOnePage
  MaxJobs = 1
  NumExports = 1
  Slow <- AllSlow
  MaxKills = 1
  MaxLate = 1
  MaxRedisErrors = 1
SYMMETRY JustWorkers
PROPERTY OwnLeaseOnly
CHECK_DEADLOCK FALSE
