CONSTANTS
    t1 = t1
    t2 = t2
    o1 = o1
    o2 = o2
    a1 = a1
    a2 = a2
    v1 = v1
    v2 = v2
    v3 = v3
    NULL = NULL
    Threads = {t1}
    Objects = {o2}
    Types = {"WB"}
    ReadOnly = {}
    Unsupported = {}
    PatEnabled = TRUE
    HasAperture = FALSE
    HasBarrier = TRUE
    AnonFiles = {a1}
    VmaSlots = {v1}
    MaxCalls = 1

SPECIFICATION Spec

INVARIANTS
    LegacyMmapHonoursOffset
