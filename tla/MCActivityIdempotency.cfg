SPECIFICATION ActivityFairSpec
CONSTANTS
    a1 = a1
    a2 = a2
    a3 = a3
    b1 = b1
    in1 = in1
    in2 = in2
    Inputs = {in1, in2}
    None = None
    Ended = Ended
    LeaseLen = 2
    ActivityAttempts = {a1, a2, a3, b1}
    InputOf <- MCInputOf
    MaxActivityFaults = 3
INVARIANT AnswersAgree
INVARIANT ResultOfLastClaim
CHECK_DEADLOCK FALSE
 
