SPECIFICATION SpecAlloc
CONSTANTS
    NULL = NULL
    MaxOrder = 3
    LastPpn = 7
    MBPages = 2
    BootStart = 2
    KernelEnd = 3
    DescrPages = 1
    SlabSizes = {}
    MaxRefs = 1
INVARIANT UsedListsAreRings
