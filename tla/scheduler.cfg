SPECIFICATION FairSpec
CONSTANTS
    MaxTasks = 4
    SwitchInterval = 2
    ShellStarted = TRUE
    Ops <- OpsAll
INVARIANTS
    SyscallFlagIsTruthful
PROPERTIES
    NoPreemptionInHandler
    DeadIsFinal
    
    EndedTaskLeaves
CHECK_DEADLOCK FALSE
