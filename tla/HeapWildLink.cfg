\* vregion_init leaves next unset.
SPECIFICATION Spec
CONSTANTS
    ObjsObjsCache = 4
    ObjsSlab = 6
    ObjsVregion = 6
    Kinds <- TwoKinds
    MaxCaches = 5
    FirstVpn = 4
    LastVpn = 11
INVARIANTS NoWildLink
