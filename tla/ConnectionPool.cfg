SPECIFICATION FairSpec
CONSTANTS
    Tasks = {t1, t2, t3}
    MaxConnections = 3
INVARIANT Consistent
PROPERTY CallsEnd
