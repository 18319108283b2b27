CONSTANTS
  t1 = t1
  t2 = t2
  a = a
  b = b
  Thread <- Threads
  Free = Free
  Agent <- Agents
  RootAgent = a
  Act <- OneAct
  RootAuth <- MCOneRow
  Request <- PlainRequest
  Auth <- MCAuth
  CanAttenuate <- MCCanAttenuate
  Attenuate <- MCAttenuate
  Narrower <- MCNarrower
  PermitsAct <- MCPermitsAct
  CallLimits <- MCCallLimits
  Ttls <- MCTtls
  MaxDepth = 2
  MaxFanout = 2
  StrikeMode = "off"
  StrikeLimit = 1
  MaxNodes = 3
  Version = 1
  Ops = {"delegate", "revoke"}
  Faults = {}
  Unwritable = {}
  AnyIdRevoked = FALSE
  MaxCalls = 1
  MaxLog = 5
  MaxTime = 0
SPECIFICATION Spec
INVARIANTS LedgerMonotone
CHECK_DEADLOCK FALSE
