CONSTANTS
  Keys = {k1, k2}
  Replicas = {r1, r2}
  Procs = {p1, p2}
  GeneratedNames = {k1, k2}
  None = None
  Absent = Absent
  DefaultRetrySteps = 2
  NoopWritesBump = TRUE
  MaxCalls = 3
  MaxFaults = 1
SYMMETRY Symmetry
SPECIFICATION Spec
INVARIANTS
  CopiesUpToDate
  AuditReportsCommit
  TimestampsMatchPhase
  StatuslessHasCreator
PROPERTY
  ImplementsLifecycle
CHECK_DEADLOCK FALSE
