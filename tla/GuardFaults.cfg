CONSTANTS
  t1 = t1
  t2 = t2
  a = a
  b = b
  Thread <- Threads
  Free = Free
  Agent <- Agents
  RootAgent = a
  Act <- MCAct
  RootAuth <- MCMetered
  Request <- BriefRequests
  Auth <- MCAuth
  CanAttenuate <- MCCanAttenuate
  Attenuate <- MCAttenuate
  Narrower <- MCNarrower
  PermitsAct <- MCPermitsAct
  CallLimits <- MCCallLimits
  Ttls <- MCTtls
  MaxDepth = 2
  MaxFanout = 1
  StrikeMode = "same_scope"
  StrikeLimit = 2
  MaxNodes = 3
  Version = 1
  Ops = {"check", "record_denial", "delegate", "revoke", "revoke_agent"}
  Faults = {"uncommitted", "committed"}
  Unwritable <- OnlyB
  AnyIdRevoked = TRUE
  MaxCalls = 4
  MaxLog = 4
  MaxTime = 1
SPECIFICATION FairSpec
INVARIANTS CascadeClosed StrikesRevoke MeterExact
PROPERTIES LockReturned
CHECK_DEADLOCK FALSE
