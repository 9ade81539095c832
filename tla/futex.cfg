SPECIFICATION MCSpec
CONSTANTS
    m1 = m1
    m2 = m2
    Third = 3
    Threads = {1, 2, 3}
    Locks = {m1, m2}
    NSlots = 1
    ROBUST_LIST_LIMIT = 2
    MaxTicks = 1
    MaxKills = 1
    MaxUnmaps = 1
INVARIANTS
    
    HasEntry
    EntryHasWaiter

    
CHECK_DEADLOCK FALSE
