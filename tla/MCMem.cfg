SPECIFICATION MemSpec
SYMMETRY MemSymmetry
CONSTANTS
    h1 = h1
    h2 = h2
    h3 = h3
    a = a
    b = b
    NULL = NULL
    Handles = {h1, h2, h3}
    MemTasks = {a, b}
    Sizes = {1, 6, 8}
    Boundaries = {4}
    PoolWords = 22
    HEAD = 2
    MIN_LEFT = 4
    MIN_ALLOC = 2
    LargeStart = 3
    SLI = 1
    Region <- TheRegion
    ReallocAligned = FALSE
INVARIANTS
    PoolSound
    BlocksSound
    SearchComplete
    UsedAccounted
    ContentsKept
