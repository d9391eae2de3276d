\* A format asks for chunks that are smaller than the default; the longest row fits in one.
CONSTANTS
    HeadSize = 9
    CSV_CHUNK_SIZE_DEFAULT = 14
    ChunkSizes = {12}
    batch_flush_threshold_ = 8
    single_buffer_capacity = 2
    DECIMAL_PLACES = 2
    BOM <- MCBom
    Candidates <- MCCandidates
    CSV_INT_MAX <- MCIntMax
    Setups <- MCSetups
SPECIFICATION Spec
INVARIANTS
    NothingFlushedIsLost
