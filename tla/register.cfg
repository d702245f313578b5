SPECIFICATION Spec
CONSTANTS
  a = a  b = b  c = c  p1 = p1  p2 = p2  Nobody = Nobody
  Doc <- MCDocs
  Proc <- MCProcs
  Filename <- MCFilename
  Cover <- MCCover
  Start = 1
  Bounds <- MCBounds
SYMMETRY Processes
INVARIANTS NoNumberTwice RowsMatchRecords RowsOfCompletedBooks DownloadIsComplete
CHECK_DEADLOCK FALSE
