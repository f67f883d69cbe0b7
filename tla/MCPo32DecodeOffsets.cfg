SPECIFICATION DecodeSpec
CONSTANTS
  Preamble <- MCPreamble
  Broadcast <- MCBroadcast
  FaultyZone <- MCFaultyZone
  Replies <- MCReplies
  SyncBytes = 8
  WorkSize = 280
  MaxFaults = 1
  ChunkStride = 1
  Capacities <- MCCapacities
  Inputs = {}
  EndStride = 5
INVARIANTS OffsetsIndexTheFrame
CHECK_DEADLOCK FALSE
