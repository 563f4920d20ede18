CONSTANTS
    MmapTypes = {0, 1, 2, 3}
    GTT = 0
    NULL = NULL

SPECIFICATION Spec

INVARIANTS
    LookupFindsInserted
    ReleaseUnmapsAll
