SPECIFICATION FairSpec
CHECK_DEADLOCK FALSE
CONSTANTS
    r1 = r1
    r2 = r2
    NoRow = NoRow
    Replicas <- TwoReplicas
    CpuRequested = 1
    MemRequested = 1
    Rss = 2
    Burst = 2
    MaxTime = 1
    MaxFaults = 1
INVARIANTS
    NoGap
    
    LedgerAgrees
    EndedIsCharged
PROPERTY
    FinalizedIsCharged
