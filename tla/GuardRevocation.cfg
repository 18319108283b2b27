CONSTANTS
  t1 = t1
  t2 = t2
  a = a
  b = b
  Thread <- Threads
  Free = Free
  Agent <- Agents
  RootAgent = a
  Act <- MCAct
  RootAuth <- MCOneRow
  Request <- NarrowRequests
  Auth <- MCAuth
  CanAttenuate <- MCCanAttenuate
  Attenuate <- MCAttenuate
  Narrower <- MCNarrower
  PermitsAct <- MCPermitsAct
  CallLimits <- MCCallLimits
  Ttls <- MCTtls
  MaxDepth = 2
  MaxFanout = 2
  StrikeMode = "off"
  StrikeLimit = 1
  MaxNodes = 4
  Version = 1
  Ops = {"check", "delegate", "revoke", "revoke_agent"}
  Faults = {}
  Unwritable = {}
  AnyIdRevoked = FALSE
  MaxCalls = 1
  MaxLog = 5
  MaxTime = 0
SYMMETRY Interchangeable
SPECIFICATION Spec
INVARIANTS TypeOK BannedHoldNothing LedgerTellsRevocations
  LedgerContained AllowsWithinAncestors
PROPERTIES ImplementsAbstractGuard
CHECK_DEADLOCK FALSE
