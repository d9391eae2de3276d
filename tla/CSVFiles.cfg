\* A chunk holds the longest row; the head, which is shorter, may not.
CONSTANTS
    HeadSize = 9
    CSV_CHUNK_SIZE_DEFAULT = 14
    ChunkSizes = {14}
    batch_flush_threshold_ = 8
    single_buffer_capacity = 2
    DECIMAL_PLACES = 2
    BOM <- MCBom
    Candidates <- MCCandidates
    CSV_INT_MAX <- MCIntMax
    Setups <- MCSetups
SPECIFICATION Spec
INVARIANTS
    RowsAsWritten
    NothingFlushedIsLost
    NumbersReadBack
PROPERTY
    ReadEnds
