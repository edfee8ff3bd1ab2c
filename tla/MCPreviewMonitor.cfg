CONSTANTS
  r1 = r1
  r2 = r2
  Replicas <- TwoReplicas
  MaxCalls = 2
  MaxFaults = 1
SPECIFICATION FairSpec
CHECK_DEADLOCK FALSE
INVARIANTS FencedReports ObservationKept
PROPERTIES FailureReported PollingStops
