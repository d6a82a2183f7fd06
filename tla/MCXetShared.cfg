SPECIFICATION XetSpec
CONSTANTS
  Downloads = {"d1", "d2"}
  Recons <- BothAny
  Xorbs <- SmallXorbs
  Concurrency = 2
  ReadSize = 2
  PadsGroups = TRUE
  MaxExpiries = 1
  NoFile = NoFile
  NoOne = NoOne
INVARIANT Reconstructed
CHECK_DEADLOCK FALSE
