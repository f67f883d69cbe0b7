CONSTANTS
  Calls <- MCCalls
  Clock = 11
  NominalRate = 6
  LowRate = 2
  HighRate = 40
  Radius = 8
  WordMax = 255
  FloatBytes = 4
SPECIFICATION SoundSpec
INVARIANTS
  ImportIsFaithful
  ChunksDoNotShow
  ConversionHearsAll
  AnalysisSpansTheSound
PROPERTIES
  ImportEnds
CHECK_DEADLOCK FALSE
