SPECIFICATION FairSpec
CONSTANTS
  NumPages = 5
  MaxFailures = 2
INVARIANTS AnswersPairUp BlankHasReason LoadFailureCostsOnePage
PROPERTY SweepEnds
CHECK_DEADLOCK FALSE
