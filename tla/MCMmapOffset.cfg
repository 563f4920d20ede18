CONSTANTS
    f1 = f1
    f2 = f2
    o1 = o1
    o2 = o2
    WB = WB
    WC = WC
    Files = {f1, f2}
    Objects = {o1, o2}
    Types = {WB, WC}
    ObjPages <- MCObjPages
    AddrSpace = 3
    Unsupported <- MCUnsupported
    NULL = NULL

SPECIFICATION Spec

INVARIANTS
    TypeOK
    UniqueMmo
    NodesAccounted
    AgreedOffset

PROPERTIES
    ImplementsAbstract
