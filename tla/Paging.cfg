SPECIFICATION Spec
CONSTANTS
    N = 8
    KernelPde = 5
    MBPages = 1
    BootStart = 1
    KernelEnd = 5
    BootPgd = 1
    BootPgt = 2
    Kpgd = 3
    FirstKpgt = 4
    SpareTables = {7}
    MapFrames = {5, 6}
    UserVpns <- Users
    MaxPages = 2
    Watched <- Kept
    MaxTlb = 2
    NoFrame = NoFrame
INVARIANTS PagingInv KernelStaysMapped TlbCoherent VirtToPhysAgrees
PROPERTIES ImplementsAddressSpace
