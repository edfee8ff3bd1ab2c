SPECIFICATION FairSpec
CHECK_DEADLOCK FALSE
CONSTANTS
    k1 = k1
    k2 = k2
    k3 = k3
    v0 = v0
    v1 = v1
    v2 = v2
    NoKey = NoKey
    Keys = {k1, k2, k3}
    Versions = {v0, v1, v2}
    First = v2
    TargetOf <- Targets
    Reversibility <- Evidence
    Approved = {k2}
    MaxFaults = 3
INVARIANTS HealthyIsTarget RestoredIsCurrent
PROPERTY RollbackSettles
