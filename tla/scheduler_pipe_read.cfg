SPECIFICATION FairSpec
CONSTANTS
    MaxTasks = 4
    SwitchInterval = 1
    ShellStarted = TRUE
    Ops <- OpsPipe
PROPERTY ReadyTaskRuns
