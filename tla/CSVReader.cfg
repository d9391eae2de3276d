\* Files of up to three rows, the header among them; the waiter is told of two
\* rows; read_row and batches of two; one call after an error.
CONSTANTS
    NotifySize = 2
    Header = 1
    Files <- SmallFiles
    Policies = {"THROW", "IGNORE_ROW", "KEEP", "KEEP_NON_EMPTY"}
    BatchSizes = {0, 2}
    MaxRetries = 1
SPECIFICATION Spec
INVARIANTS
    Consistent
PROPERTIES
    IsRowStream
    ReaderFinishes
    ErrorsReachCaller
