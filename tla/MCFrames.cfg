SPECIFICATION FramesSpec
CONSTANTS
  Preamble <- MCPreamble
  Capacities <- MCCapacities
  Inputs <- MCInputs
  CounterBytes <- MCCounterBytes
  Devices <- MCDevices
  FrameCapacities <- MCRooms
  FrameInputs <- MCPackets
INVARIANTS
  BufferFits
  ReadsBack
  BracketedReadsBack
