SPECIFICATION FairSpec
CONSTANTS
    Loop = Loop
    Stopper = Stopper
    Requests = {r1, r2, r3, r4}
    Urgent = {r1}
    BatchSize = 2
    MaxQueueSize = 2
    EnablePriority = FALSE
CHECK_DEADLOCK FALSE
INVARIANTS
    Consistent
    
 
