SPECIFICATION Spec
CONSTANTS
  Events = 2
  ChunkCap = 2
  Errors <- MCErrors
  None = None
INVARIANT FailureIsReported
CHECK_DEADLOCK FALSE
