CONSTANTS
  Kinds <- MCKinds
  Tapes <- MCTapes
  Stale = 90
  Edits <- MCEdits
  Roots <- MCRoots
  MaxSteps = 4
SPECIFICATION CodecsSpec
INVARIANTS
  PatternsReturn
  PacketsReturn
  PayloadsReturn
  SampleBytesSettle
CHECK_DEADLOCK FALSE
