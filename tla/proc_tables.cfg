SPECIFICATION MCSpec
CONSTANTS
    MaxTasks = 5
    MaxPid = 4
    Codes = {1}
    Ops <- OpsThreads
    None = None
INVARIANTS
    RecordsAgree
PROPERTIES
    WaitpidReapsItsChild
    NoResurrection
    ExitStatusStable
CHECK_DEADLOCK FALSE
