SPECIFICATION Spec
CONSTANTS
  s1 = s1
  c1 = c1
  c2 = c2
  satTool = satTool
  otherTool = otherTool
  NoSession = NoSession
  Tools <- MCTools
  SatelliteTools <- MCSatTools
  NullBytesRejected = TRUE
  Sessions <- MCSessions
  Conns <- MCConns
  Budgets <- MCBudgets
  Durations <- OneDuration
  MaxTime = 1
  MaxProposals = 5
INVARIANTS TypeOK VerdictsWithinBudget FewRejections TerminatedIsLast
PROPERTY ImplementsLedger
CHECK_DEADLOCK FALSE
