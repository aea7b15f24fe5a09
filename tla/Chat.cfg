SPECIFICATION FairSpec
CONSTANTS
  Inboxes <- MCInboxes
  Systems = {"clean", "null"}
  CallLists <- MCCallLists
  Registry <- MCRegistry
  Identity = NoIdentity
  NoIdentity = NoIdentity
  ConfiguredMax = 3
  Unset = Unset
  HardCap = 2
INVARIANTS TypeOK AnsweredInOrder MessagesAreSanitized EffectsAreVetted CoreCallsBounded
PROPERTY RequestEnds
CHECK_DEADLOCK FALSE
