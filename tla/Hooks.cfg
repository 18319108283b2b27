CONSTANTS
  Unreadable = Unreadable
  NoAnchor = NoAnchor
  Inherits = Inherits
  Garbled = Garbled
  NoOne = NoOne
  p1 = p1
  p2 = p2
  p3 = p3
  Procs <- MCProcs
  Names <- MCNames
  Calls <- MCCalls
  Declared <- MCDeclared
  Initially = "before"
  Configs <- MCConfigs
  Acts <- MCActs
  MaxFaults = 1
SPECIFICATION Spec
INVARIANTS
  OneLedger
  AnswersAreRecorded
  StopsVerify
SYMMETRY Symmetry
CHECK_DEADLOCK FALSE
