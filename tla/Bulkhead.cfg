SPECIFICATION FairSpec
CONSTANTS
    Tasks = {t1, t2, t3, t4}
    MaxConcurrent = 2
    MaxQueue = 1
INVARIANT Consistent
PROPERTIES
    NoOvertaking
    EveryWaiterServed
