SPECIFICATION Spec
SYMMETRY Symmetry
CONSTANTS
    t1 = t1
    t2 = t2
    t3 = t3
    k = k
    x = x
    y = y
    v1 = v1
    v2 = v2
    None = None
    Tasks <- TwoTasks
    Keys <- OneKey
    Others <- TwoOthers
    Values <- TwoValues
    MaxSize = 2
    DefaultTTL = 1
    TTLs <- AlsoLonger
INVARIANTS
    Consistent
    StaleForABoundedTime
