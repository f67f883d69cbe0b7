SPECIFICATION ModemsSpec
CONSTANTS
  CounterBytes = 1
  HoldSymbols = 3
  LeadFrames = 3
  Ticks = 2
  Denominator = 5
  Wires <- MCWires
  Chunks = {9, 24}
  Capacities = {0, 7, 60}
  Noise <- MCNoise
  MaxResets = 1
INVARIANTS
  StereoWiresArrive
  StereoCandidatesOnce
  BitsArrive
CHECK_DEADLOCK FALSE
