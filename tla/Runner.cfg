\* Two frames; files of up to five entries of two bytes, read two entries
\* at a time; one of the four pages has the number INVALID_ID.
CONSTANTS
    Capacity = 2
    INVALID_ID = p4
    EntrySize = 2
    BatchSize = 4
    MaxFileSize = 10
    Pages = {p1, p2, p3, p4}
    p1 = p1
    p2 = p2
    p3 = p3
    p4 = p4
SPECIFICATION RunSpec
INVARIANTS
    LookupCorrect
    CapacityRespected
    EntriesInOrder
    Consistent
PROPERTIES
    PagesKept
    PredictionsComeTrue
    RunEnds
