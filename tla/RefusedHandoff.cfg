CONSTANTS
  boss = boss
  clerk = clerk
  aide = aide
  None = None
  Node <- MCNode
  Root = 0
  Agent <- MCAgent
  RootAgent = boss
  Act <- MCAct
  Dispatch <- MCDispatch
  Binding = TRUE
  Strict = TRUE
  Adapters = {"ag2"}
  Declared <- MCDeclared
  Bounds <- MCBounds
  MaxRecentVerdicts = 1
SPECIFICATION AdaptersSpec
INVARIANTS
  RefusalsAreClosed
CHECK_DEADLOCK FALSE
