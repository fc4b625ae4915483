SPECIFICATION FairSpec
CONSTANTS
    r1 = r1
    r2 = r2
    r3 = r3
    r4 = r4
    k1 = k1
    k2 = k2
    None = None
    Keys <- TwoKeys
    Requests <- FourRequests
    KeyOf <- KeyOf4
    Backends = 2
    Swallowing <- OnlyFirst
    MaxConcurrent = 1
CHECK_DEADLOCK FALSE
INVARIANTS
    Consistent
    
PROPERTY FollowersAreAnswered
