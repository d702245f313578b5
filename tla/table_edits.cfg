SPECIFICATION Spec
CONSTANTS
  t1 = t1  t2 = t2  h1 = h1  h2 = h2
  Table <- MCTables
  Handler <- MCHandlers
  Size <- MCSize
  Span <- MCSpan
  Index <- MCIndex
  MaxEdits = 3
  MaxSide <- MCMaxSide
  MaxReprocess = 1
SYMMETRY Handlers
INVARIANTS JsonMatchesRows SoundGrid
PROPERTIES StructureKeepsText MergeLosesNoWord
CHECK_DEADLOCK FALSE
