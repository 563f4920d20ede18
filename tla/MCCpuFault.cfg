CONSTANTS
    t1 = t1
    t2 = t2
    o1 = o1
    o2 = o2
    s1 = s1
    s2 = s2
    Threads = {t1, t2}
    Objects = {o1}
    Swaps = {s1}
    ReadOnly = {}
    MaxFaults <- MCMaxFaultsOne
    NULL = NULL

SPECIFICATION FairSpec

INVARIANTS
    TypeOK
    NoPteWhileInvalidated
    ObjectPtesBacked

PROPERTIES
    InvalidationCompletes
    CpuFaultReturns
