SPECIFICATION MCSpec
CONSTANTS
    Spaces = {1, 2}
    First = 1
    NPages = 3
    MmapBase = 1
    Span = 2
    Frames = {1, 2, 3, 4, 5, 6}
    MAX_VMAS = 2
    Prots = {"rw", "ro"}
    Breaks <- SomeBreaks
    Lens = {0, 1, 2}
    Fixed <- Pages
    MaxCalls = 4
INVARIANTS
    
    
    VmasDisjoint
    
CHECK_DEADLOCK FALSE
