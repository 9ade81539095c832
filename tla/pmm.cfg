SPECIFICATION Spec
CONSTANTS
    MaxFrames = 9
    MaxCount = 3
    MemoryMap <- SmallMap
    KernelStart = 1
    KernelEnd = 2
INVARIANTS
    CountExact
    FramesConserved
PROPERTIES
    ImplementsFrameAllocator
