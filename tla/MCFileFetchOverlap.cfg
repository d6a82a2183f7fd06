SPECIFICATION FairFetchSpec
CONSTANTS
  FileSize = 3
  ChunkSize = 2
  MultipartThreshold = 1
  MaxWorkers = 2
  MaxRetries = 0
  MaxCalls = 2
  Overlap = TRUE
  IgnoresRange = FALSE
  Absent = Absent
INVARIANT Delivered
CHECK_DEADLOCK FALSE
