SPECIFICATION FairSpec
CONSTANTS
  Steps = 1
  MaxInFlight = 2
  MaxErrors = 1
INVARIANTS PollingStops NeverDeaf
PROPERTIES EndLeftByLateAnswerOnly EndIsShown
CHECK_DEADLOCK FALSE
