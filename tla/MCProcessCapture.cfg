SPECIFICATION Spec
CONSTANTS
  OutputLimit = 1
  ChunkBytes = 2
  PipeBytes = 2
  TimeoutTicks = 1
  MaxWritten = 3
INVARIANTS ResultIsTrue GroupIsEnded
PROPERTY AlwaysReturns
CHECK_DEADLOCK FALSE
