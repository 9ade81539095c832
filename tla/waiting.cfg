SPECIFICATION MCSpec
CONSTANTS
    b0 = b0
    b1 = b1
    Bytes = {b0, b1}
    Capacity = 3
    MaxRefs = 2
    MaxRequest = 4
    Sleepers = {t1}
    Lockers = {l1, l2}
INVARIANTS
    ReadsRight
    SleepLongEnough
PROPERTIES
    ImplementsQueue
    ReadersReturn
    SleepEnds
    
    LockObtained
CHECK_DEADLOCK FALSE
