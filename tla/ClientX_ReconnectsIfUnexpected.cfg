SPECIFICATION Spec
CONSTANTS
  MaxReconnectAttempts = 1
  RateLimitPerTool = 1
  RateLimitWindow = 2
  MaxConnects = 2
  MaxSockets = 4
  MaxProposals = 0
  MaxTime = 2
PROPERTY ReconnectsIfUnexpected
