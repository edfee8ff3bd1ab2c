SPECIFICATION FairSpec
CONSTANTS
    p1 = p1
    p2 = p2
    k1 = k1
    k2 = k2
    Rows = {1}
    Publishers = {p1, p2}
    Consumers = {k1, k2}
    NoOne = NoOne
    NoMessage = NoMessage
    BatchSize = 1
    MaxFaults = 2
INVARIANT PublishedNotLost
INVARIANT IngestedCountedOnce
CHECK_DEADLOCK FALSE
 
