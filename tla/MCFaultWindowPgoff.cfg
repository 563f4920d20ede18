CONSTANTS
    MaxPages = 5
    Chunk = 2
    TileRowPages = {0, 1, 2, 3}
    AreaOK <- OffsetArea

SPECIFICATION Spec

INVARIANT
    GttRemapPageMatches
