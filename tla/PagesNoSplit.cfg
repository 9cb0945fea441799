SPECIFICATION SpecNoSplit
CONSTANTS
    NULL = NULL
    MaxOrder = 4
    LastPpn = 14
    MBPages = 4
    BootStart = 4
    KernelEnd = 5
    DescrPages = 2
    SlabSizes = {1}
    MaxRefs = 2
INVARIANTS
    UsedListsAreRings
    DescriptorsAgree
PROPERTIES
    ImplementsReturns
