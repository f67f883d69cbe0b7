SPECIFICATION PatternSpec
CONSTANTS
  StepCount = 2
  LaneCount = 2
  Numbers = {3, 9}
  FillRates = {0, 15, 16}
INVARIANTS InSync
PROPERTIES NoGhostAccent
