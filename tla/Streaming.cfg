CONSTANTS
  p1 = p1
  p2 = p2
  Proc <- Procs
  Boot <- Procs
  Overwriters <- OnlyP2
  Overlap = FALSE
  Event = {"short", "long"}
  Separated = {}
  FileFaults = {"lost", "torn"}
  SinkFaults = TRUE
  MaxEntries = 2
  Size <- MCSize
  MaxBytes = 3
  SpoolFaults = {"flush", "fsync"}
  MaxBatch = 2
  AckDies = FALSE
  MaxRestarts = 1
SPECIFICATION FairSpec
INVARIANTS VerifiedIsOneLog FilesLoadBack SpoolIsAPrefix
PROPERTIES LedgersAreKept SpoolIsDelivered
CHECK_DEADLOCK FALSE
