SPECIFICATION RebuildsSpec
CONSTANTS
  PreambleBytes = 16
  RangeBytes = 1
  BlockBytes = 5
  MaxPayload = 4
  PacketsPerBlock = 2
  MelodicSlots = 2
  Frames <- MCFrames
  Slots = {0, 1, 2}
  SampleRuns <- MCSampleRuns
  Targets = {1, 2}
  RawRanges <- MCRawRanges
  MaxEdits = 2
  Top = 8
  Pointers <- MCPointers
  Sizes <- MCSizes
  Required = 2
INVARIANTS EditsFollowPlans SpeechFollowsPlans MemoryIsKept
PROPERTIES EditsImplementBackup SpeechImplementsStore
CHECK_DEADLOCK FALSE
