SPECIFICATION EditSpec
CONSTANTS
  PreambleBytes = 16
  RangeBytes = 1
  BlockBytes = 4
  MaxPayload = 3
  PacketsPerBlock = 2
  Frames <- MCFrames
  Substitutes <- MCSubstitutes
  Targets = {1, 2, 3}
  SampleRuns <- MCSampleRuns
INVARIANTS PlannedSizesAreExact OnlyTheTargetChanges SamplesStay ProjectionHolds
CHECK_DEADLOCK FALSE
