CONSTANTS
  boss = boss
  clerk = clerk
  aide = aide
  None = None
  Node <- MCNode
  Root = 0
  Agent <- MCAgent
  RootAgent = boss
  Act <- MCAct
  Dispatch <- MCDispatch
  Binding = TRUE
  Strict = TRUE
  Adapters <- MCAdapters
  Declared <- MCDeclared
  Bounds <- MCBounds
  MaxRecentVerdicts = 1
SPECIFICATION AdaptersSpec
INVARIANTS
  BodiesAreAuthorized
  DelegatedByCaller
  OutcomesAreTrue
  ClosedOnceOver
  ChildrenAreClosed
PROPERTIES
  RevokedStaysRevoked
CHECK_DEADLOCK FALSE
