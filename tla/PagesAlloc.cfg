SPECIFICATION FairAlloc
CONSTANTS
    NULL = NULL
    MaxOrder = 4
    LastPpn = 27
    MBPages = 4
    BootStart = 6
    KernelEnd = 9
    DescrPages = 4
    SlabSizes = {}
    MaxRefs = 2
INVARIANTS
    NoOverlap
    KernelMemoryKept
    FreeListsAreRings
    NoPageLost
    FailsOnlyWhenExhausted
    PagesInv
PROPERTIES
    ImplementsGrants
    CallsEnd
