SPECIFICATION FairSpec
CONSTANTS
  s1 = s1
  c1 = c1
  c2 = c2
  satTool = satTool
  otherTool = otherTool
  NoSession = NoSession
  Tools <- MCTools
  SatelliteTools <- MCSatTools
  NullBytesRejected = TRUE
  Sessions <- MCSessions
  Conns <- MCConns
  Budgets <- TwoBudgets
  Durations <- OneDuration
  MaxTime = 0
  MaxProposals = 5
PROPERTY CondemnedSocketCloses
CHECK_DEADLOCK FALSE
