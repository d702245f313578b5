SPECIFICATION Spec
CONSTANTS
  w1 = w1  w2 = w2  p1 = p1  p2 = p2
  Worker <- MCWorkers
  Page <- MCPages
  MaxJobs = 2
  NumExports = 2
  Slow <- NothingSlow
  MaxKills = 1
  MaxLate = 0
  MaxRedisErrors = 0
SYMMETRY WorkersAndPages
INVARIANTS LiveRunHoldsLease CancelWithinOnePage CompletedDocumentIsConsistent
PROPERTY ExclusiveSpec
CHECK_DEADLOCK FALSE
