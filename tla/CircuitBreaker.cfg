SPECIFICATION FairSpec
CONSTANTS
    Callers = {c1, c2, c3}
    FailureThreshold = 2
    RecoveryTimeout = 2
    WindowSize = 3
INVARIANT Consistent
PROPERTIES
    
    Recovers
