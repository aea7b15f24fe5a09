SPECIFICATION Spec
CONSTANTS
  None = None
  Configs <- MCConfigs
  Chains <- MCChains
  Words <- MCWords
  Inboxes <- MCInboxes
  Replies <- MCReplies
  Thresholds <- MCThresholds
INVARIANTS
  TypeOK
  InjectionsAreNoted
  EchoIsNoticed
  
  OverrunBounded
  BudgetsHold
PROPERTIES
  BreachesStand
  ImplementsChat
CHECK_DEADLOCK FALSE
