SPECIFICATION Spec
CONSTANTS
  None = None
  Leeway = 1
  AuthConfigs <- MCAuthConfigs
  Requests <- MCRequests
  Durations = {0, 2}
  Callers = {c1, c2}
  MaxTime = 3
  MaxSessions = 2
  MaxRestarts = 1
INVARIANTS
  TypeOK
  SessionsAreGranted
  SocketsAreAuthentic
CHECK_DEADLOCK FALSE
