CONSTANTS
  Calls = {"t1", "t2"}
  Deps = {"ka", "ds", "k8s"}
  RetryMax = 1
  RetryableStatuses = {"unavailable"}
  MaxRequests = 2
  FailureThreshold = 2
  maxPolls = 2
  Serves <- MCServes
SPECIFICATION FairInvestigationSpec
INVARIANTS
  TrialsAccounted
  PostsToldTruly
  PollTellsTheTruth
PROPERTIES
  OnlyFailuresOpen
  BreakerHalfOpens
