\* Five frames for FIFO and 2Q, of which two are the cold share, three for the
\* others; two ghosts in 2Q, three in ARC; seven pages.
CONSTANTS
    Few = 3
    Many = 5
    MaxCount = 7
    MaxMoves = 3
    Stores = {"RecencyPool", "NullRecencyStore"}
    INVALID_ID = INVALID_ID
    SENTINEL = INVALID_ID
    Pages = {p1, p2, p3, p4, p5, p6, p7}
    p1 = p1
    p2 = p2
    p3 = p3
    p4 = p4
    p5 = p5
    p6 = p6
    p7 = p7
SYMMETRY PageSymmetry
SPECIFICATION Spec
INVARIANTS
    Consistent
    EveryRequestServed
    ColdShareKept
    DirectoryBounds
PROPERTIES
    KeepsContract
    IsFifo
    IsLRU
    IsTwoQueues
    IsAdaptiveCache
