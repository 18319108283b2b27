CONSTANTS
  Roots <- MCRoots
  Requests <- MCRequests
  Asked <- MCAsked
  Contexts <- MCContexts
  MaxHops = 2
  Mints <- MCMints
  Verifiers <- MCVerifiers
SPECIFICATION Spec
INVARIANTS PathNarrows PathPermits MeetIsGreatest LoadsExactlyMints LoadedPermitsNoMore
CHECK_DEADLOCK FALSE
