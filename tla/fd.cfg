SPECIFICATION Spec
CONSTANTS
    s1 = s1
    s2 = s2
    noSlot = noSlot
    Slots = {s1, s2}
    BootSlot = s1
    MaxFds = 2
    StdFds = 0
    MaxOpenFiles = 1
    MaxPipes = 1
    OpenFlags <- NoStatus
    SetFlags <- NoStatus
    PipeFlags <- NoStatus
    CloexecArgs = {FALSE, TRUE}
    Devices = {"Null"}
    MaxLost = 1
INVARIANTS
    RefsAccounted
    EmptyHasNoFlags
