SPECIFICATION LinkSpec
CONSTANTS
  Preamble <- MCPreamble
  Broadcast <- MCBroadcast
  FaultyZone <- MCFaultyZone
  Replies <- MCReplies
  SyncBytes = 8
  WorkSize = 280
  MaxFaults = 1
  ChunkStride = 5
INVARIANTS OffsetsTile StreamMatchesParse CleanBytesKeepSync
PROPERTIES StopIsTerminal NothingAfterLoss ImplementsLink
CHECK_DEADLOCK FALSE
