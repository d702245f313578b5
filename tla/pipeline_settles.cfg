SPECIFICATION FairSpec
CONSTANTS
  w1 = w1  w2 = w2  p1 = p1  p2 = p2
  Worker <- MCOneWorker
  Page <- MCOnePage
  MaxJobs = 2
  NumExports = 0
  Slow <- NothingSlow
  MaxKills = 1
  MaxLate = 0
  MaxRedisErrors = 0
INVARIANT SettledMessageSettledJob
PROPERTY SentJobSettles
CHECK_DEADLOCK FALSE
