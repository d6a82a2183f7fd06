SPECIFICATION FairFetchSpec
CONSTANTS
  FileSize = 3
  ChunkSize = 2
  MultipartThreshold = 1
  MaxWorkers = 2
  MaxRetries = 1
  MaxCalls = 2
  Overlap = FALSE
  IgnoresRange = FALSE
  Absent = Absent
INVARIANTS FetchTypeOK SkippedPartIsComplete
CHECK_DEADLOCK FALSE
PROPERTIES IsDelivery OnlySilenceHangs
