CONSTANTS
  p1 = p1
  p2 = p2
  Proc <- Procs
  Boot <- Procs
  Overwriters <- OnlyP2
  Overlap = FALSE
  Event = {"short", "long"}
  Separated = {"long"}
  FileFaults = {}
  SinkFaults = FALSE
  MaxEntries = 2
  Size <- MCSize
  MaxBytes = 3
  SpoolFaults = {}
  MaxBatch = 2
  AckDies = FALSE
  MaxRestarts = 0
SPECIFICATION Spec
INVARIANTS FilesLoadBack
CHECK_DEADLOCK FALSE
