SPECIFICATION FairLinkSpec
CONSTANTS
  Preamble <- MCPreamble
  Broadcast <- MCBroadcast
  FaultyZone <- MCFaultyZone
  Replies <- MCCarryOrStop
  SyncBytes = 8
  WorkSize = 280
  MaxFaults = 1
  ChunkStride = 40
PROPERTIES Recovers
CHECK_DEADLOCK FALSE
