SPECIFICATION MCSpec
CONSTANTS
    MaxTasks = 5
    MaxPid = 3
    Codes = {1}
    Ops <- OpsFork
    None = None
PROPERTIES
    ZombieWaitsForReap
CHECK_DEADLOCK FALSE
