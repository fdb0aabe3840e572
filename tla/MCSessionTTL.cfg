CONSTANTS
  Keys = {k1}
  Replicas = {r1}
  Procs = {r1, p1}
  GeneratedNames = {}
  None = None
  Absent = Absent
  DefaultRetrySteps = 2
  NoopWritesBump = FALSE
  MaxCalls = 3
  MaxFaults = 1
  DisconnectTTL = 1
  ConfiguredRetention = 0
  MinRetentionTTL = 1
SPECIFICATION FairTTLSpec
INVARIANTS
  NoSessionForgotten
  TerminalCacheIsRight
PROPERTIES
  DeadlinesMet
