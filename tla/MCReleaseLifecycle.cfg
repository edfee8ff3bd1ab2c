CONSTANTS
  q1 = q1
  q2 = q2
  k1 = k1
  k2 = k2
  Requests <- TwoRequests
  Keys <- TwoKeys
  MaxFaults = 1
SPECIFICATION FairSpec
INVARIANTS DeployedWasCleared
PROPERTIES RecordImplemented  CreatedIsTagged
