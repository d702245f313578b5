SPECIFICATION Spec
CONSTANTS
  d1 = d1  d2 = d2  c1 = c1  bad = bad  t1 = t1  t2 = t2  api1 = api1  api2 = api2  Nothing = Nothing
  Doc <- MCDocs
  Content <- MCContents
  Refused <- MCRefused
  Task <- MCTasks
  Api <- MCApis
  MaxAsks = 3
  MaxUploads = 2
  MaxFaults = 1
SYMMETRY Interchangeable
INVARIANTS NoTwoLiveDuplicates StrandedOnlyByFault DeletedLeavesNoFiles RecordMatchesFile
PROPERTY RegeneratedHoldsEdits
CHECK_DEADLOCK FALSE
