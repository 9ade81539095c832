SPECIFICATION Spec
CONSTANTS
    d = d
    f = f
    g = g
    h = h
INVARIANTS
    HeapSound
    RefersToOpened
    ProgramAsBuilt
    TextShown
PROPERTIES
    WritesExact
    OnlyTargetChanges
CHECK_DEADLOCK FALSE
