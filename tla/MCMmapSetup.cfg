CONSTANTS
    t1 = t1
    t2 = t2
    o1 = o1
    o2 = o2
    a1 = a1
    a2 = a2
    v1 = v1
    v2 = v2
    v3 = v3
    NULL = NULL
    Threads = {t1, t2}
    Objects = {o1}
    Types = {"WB"}
    ReadOnly = {o1}
    Unsupported = {}
    PatEnabled = TRUE
    HasAperture = FALSE
    HasBarrier = TRUE
    AnonFiles = {a1, a2}
    VmaSlots = {v1, v2}
    MaxCalls = 2

SPECIFICATION Spec

INVARIANTS
    TypeOK
    ObjectsOutliveMappings
    SingletonValid
    SealedMappings
    ReferencesBalanced
