CONSTANTS
  shop = "shop"
  bank = "bank"
  Remotes = {"shop", "bank"}
  ClientGrant <- MCClientGrant
  Asks <- MCAsks
  Needs <- MCNeeds
  Key <- MCKey
  Audited = {"shop"}
  Checked = {"bank"}
  MaxDepth = 2
  MaxClock = 4
  MaxSent = 2
  MaxRevoked = 1
  MaxNodes = 7
  Asked <- MCAsked
  Contexts <- MCContexts
SPECIFICATION Spec
INVARIANTS ServedWithinCallers HopsVerify RemoteCallsEnd
CHECK_DEADLOCK FALSE
