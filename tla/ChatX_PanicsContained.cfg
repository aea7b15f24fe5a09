SPECIFICATION Spec
CONSTANTS
  Inboxes <- MCInboxes
  Systems = {"clean", "null"}
  CallLists <- MCCallLists
  Registry <- MCRegistry
  Identity = NoIdentity
  NoIdentity = NoIdentity
  ConfiguredMax = 1
  Unset = Unset
  HardCap = 2
INVARIANT PanicsContained
CHECK_DEADLOCK FALSE
