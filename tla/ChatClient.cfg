\* One client, its connection and the server's end of it.
SPECIFICATION FairSpec
CONSTANTS
  CHAT_HEADER_SIZE = 2
  CHAT_MAX_BODY = 4
  PIPE = 4
  Chunks <- MCChunks
  MAX_HISTORY = 1
  MAX_OTHERS = 2
  MAX_READS = 1
  MAX_SPINS = 3
  MAX_STALL = 1
INVARIANTS
  TypeOK StreamsIntact RoomForMore 
  LastWordsHeard
PROPERTIES
  EverythingShown ServerLossNoticed
CHECK_DEADLOCK FALSE
