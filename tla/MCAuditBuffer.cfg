SPECIFICATION FairBufferSpec
CONSTANTS
  Events = {e1, e2, e3, e4}
  bufSize = 2
  batchSize = 2
  MaxOutages = 1
CHECK_DEADLOCK FALSE
INVARIANTS InOrder CloseFlushes
PROPERTIES BufferMakesProgress
