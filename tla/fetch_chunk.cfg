SPECIFICATION FairSpec
CONSTANTS
  From = 2
  To = 8
  MinChunkSize = 1
  ChunkRetries = 3
  RawLogs <- MCRawLogs
INVARIANTS
  FetchTypeOK
  FetchInv
  ChunkFetchedWhole
PROPERTIES
  FetchReturns
CHECK_DEADLOCK FALSE
