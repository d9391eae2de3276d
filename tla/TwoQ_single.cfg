\* A single frame.
CONSTANTS
    Capacity = 1
    MaxSize = 4
    Stores = {"RecencyPool"}
    INVALID_ID = INVALID_ID
    SENTINEL = INVALID_ID
    Pages = {p1, p2, p3}
    p1 = p1
    p2 = p2
    p3 = p3
SPECIFICATION Spec
INVARIANTS
    EveryRequestServed
