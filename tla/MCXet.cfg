SPECIFICATION XetSpec
CONSTANTS
  Downloads = {"d1", "d2"}
  Recons <- PlainBeside
  Xorbs <- SmallXorbs
  Concurrency = 2
  ReadSize = 2
  PadsGroups = TRUE
  MaxExpiries = 1
  NoFile = NoFile
  NoOne = NoOne
INVARIANTS XetTypeOK Reconstructed OutputIsPrefix
PROPERTY AllCollected
CHECK_DEADLOCK FALSE
