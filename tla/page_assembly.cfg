SPECIFICATION Spec
CONSTANTS
  Rows = 5
  Cols = 3
  MaxMissing = 2
  Pages <- MCPages
INVARIANTS EachWordOnce UnruledRowsStayApart ExportsHoldTables SearchableHoldsPage
CHECK_DEADLOCK FALSE
