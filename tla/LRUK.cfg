\* Four frames, LRU-2, up to two remembered histories, six pages, seven counted
\* references.  The program ends when seqnum_ is exhausted.
CONSTANTS
    Capacity = 4
    K = 2
    Stores = {"RecencyPool", "NullValuedRecencyStore"}
    Graces = {0, 2}
    RecentSizes = {1, 2}
    SeqRange = 8
    MaxSize = 6
    INVALID_ID = INVALID_ID
    SENTINEL = INVALID_ID
    Pages = {p1, p2, p3, p4, p5, p6}
    p1 = p1
    p2 = p2
    p3 = p3
    p4 = p4
    p5 = p5
    p6 = p6
SYMMETRY PageSymmetry
SPECIFICATION Spec
INVARIANTS
    Consistent
    EveryRequestServed
PROPERTIES
    KeepsContract
    EvictsKthReference
CHECK_DEADLOCK FALSE
