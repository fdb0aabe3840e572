CONSTANTS
  Reqs = {"r1", "r2"}
  Tokens = {"a", "b", "c"}
  Claims <- MCClaims
  Keys = {"k1", "k2"}
  FirstKey = "k1"
  Life = 1
  refreshInterval = 1
  maxStaleness = 1
  FetchTimeout = 1
  ReplayTTL = 1
  ReplayProtection = TRUE
  K8sEnabled = TRUE
  MaxRequests = 1
  FailureThreshold = 2
SPECIFICATION FairAuthSpec
INVARIANTS
  WithdrawnKeysExpire
  AcceptedOnce
PROPERTIES
  KeysRefreshed
