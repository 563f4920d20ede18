CONSTANTS
    t1 = t1
    t2 = t2
    o1 = o1
    o2 = o2
    Threads = {t1, t2}
    Objects = {o1, o2}
    ObjSlots <- MCObjSlots
    ApertureSlots = 3
    Fences = 1
    Tiled = {o2}
    ReadOnly = {o2}
    Incoherent = {}
    MaxFaults = 2
    OtherSlots = 1
    NULL = NULL

SPECIFICATION FairSpec

INVARIANTS
    TypeOK
    UserfaultAccounting
    NoStalePte
    FaultResultJustified

PROPERTIES
    FaultReturns
