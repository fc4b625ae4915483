SPECIFICATION BusySpec
CONSTANTS
    Callers = {c1, c2, c3}
    FailureThreshold = 2
    RecoveryTimeout = 2
    WindowSize = 2
    MaxConcurrent = 2
    Timeout = 2
    Strategies = 2
INVARIANT Consistent
PROPERTIES
    ImplementsBreaker
    ImplementsBulkhead
    EveryCallEnds
    HealthyBackendRecovers
