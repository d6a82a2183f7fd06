SPECIFICATION FairDownloadSpec
CONSTANTS
  Models = {m1}
  Files = {f1, f2}
  Jobs = {j1, j2}
  NoJob = NoJob
  MaxConcurrent = 1
  UserWaits = TRUE
  Watched = {m1}
  MaxFaults = 2
  MaxEvents = 4
INVARIANTS DownloadTypeOK OneWriter MarkerMeansComplete
PROPERTY DownloadsSettle
CHECK_DEADLOCK FALSE
