SPECIFICATION FairSpec
CONSTANTS
    ObjsObjsCache = 4
    ObjsSlab = 6
    ObjsVregion = 6
    Kinds <- TwoKinds
    MaxCaches = 4
    FirstVpn = 4
    LastVpn = 14
INVARIANTS MemoryInv ReservesHold ObjectsAccounted NoReentry CountsAgree RegionsPartition SlabsBacked
PROPERTIES ImplementsGrants CallEnds
