CONSTANTS
  t1 = t1
  t2 = t2
  a = a
  b = b
  Thread <- Threads
  Free = Free
  Agent <- OneAgent
  RootAgent = a
  Act <- OneAct
  RootAuth <- MCRootAuth
  Request <- PlainRequest
  Auth <- MCAuth
  CanAttenuate <- MCCanAttenuate
  Attenuate <- MCAttenuate
  Narrower <- MCNarrower
  PermitsAct <- MCPermitsAct
  CallLimits <- MCCallLimits
  Ttls <- MCTtls
  MaxDepth = 1
  MaxFanout = 1
  StrikeMode = "off"
  StrikeLimit = 1
  MaxNodes = 2
  Version = 2
  Ops = {"check", "record_passthrough", "record_outcome", "complete", "delegate", "revoke"}
  Faults = {}
  Unwritable = {}
  AnyIdRevoked = FALSE
  MaxCalls = 2
  MaxLog = 7
  MaxTime = 0
SYMMETRY Interchangeable
SPECIFICATION Spec
INVARIANTS DoneIsFinal KillSnapshotExact
  HonestBinding
PROPERTIES ImplementsAbstractGuard
CHECK_DEADLOCK FALSE
