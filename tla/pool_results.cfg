SPECIFICATION FairSpec
CONSTANTS
  NumPages = 4
  NumWorkers = 2
  MaxPages = 2
  MaxCrashes = 1
  MaxInitFails = 1
  MaxErrors = 1
INVARIANTS PagesConserved RecycleOnlyExhausted CompleteIfEnginesLoad
PROPERTIES StreamSpec EndsUnlessPageLost
CHECK_DEADLOCK FALSE
