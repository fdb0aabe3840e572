CONSTANTS
  Workers = {"w1", "w2", "w3"}
  Burst = 1
  MaxAge = 1
  MaxSlots = 2
  Calls = {"c1", "c2"}
  Identities <- MCIdentities
  NoIdentity = NoIdentity
  Key = "ann"
  Tools = {"get", "present"}
  RBACRoles <- MCRoles
  Backend <- MCBackend
  DSConfigured = TRUE
  MaxConcurrentTools = 0
  defaultMaxConcurrentTool = 1
  AgentCalls = {"c1"}
  SweepAge = 1
SPECIFICATION AgentSpec
INVARIANTS
  NoExtraGrants
  SlotsCounted
  SlotsConserved
  EverythingReported
PROPERTIES
  CallsEnd
  SweepIsExact
