SPECIFICATION FairSpec
CONSTANTS
  Events = 5
  ChunkCap = 2
  Errors <- MCErrors
  None = None
INVARIANTS TypeOK NoGap OkIsWhole
PROPERTIES ImplementsDelivery ProducerEnds HandlerReturns
CHECK_DEADLOCK FALSE
