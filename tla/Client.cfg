SPECIFICATION FairSpec
CONSTANTS
  MaxReconnectAttempts = 1
  RateLimitPerTool = 1
  RateLimitWindow = 2
  MaxConnects = 2
  MaxSockets = 3
  MaxProposals = 2
  MaxTime = 2
INVARIANTS TypeOK InvocationRate
PROPERTIES ClosedStaysQuiet Recovers ProposalsAreAnswered
