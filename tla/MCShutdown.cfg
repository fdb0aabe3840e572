SPECIFICATION FairShutdownSpec
CONSTANTS
  Events = {e1, e2}
  RequestEvents = {e1}
  bufSize = 1
  batchSize = 2
  MaxOutages = 0
  Requests = {r1, r2, r3}
  ClientIds = {c}
  MaxConnections = 2
CHECK_DEADLOCK FALSE
INVARIANTS TracksStreaming RequestEventsFlushed
PROPERTY ShutdownEnds
