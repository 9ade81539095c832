SPECIFICATION MCSpec
CONSTANTS
    Threads = {1, 2}
    Sigs = {1, 2, 3}
    SIGKILL = 1
    SIGCHLD = 3
    Actions <- AllActions
    MaxSends = 1
INVARIANTS
    
    AltStackReport
    TakenOnce

    
CHECK_DEADLOCK FALSE
