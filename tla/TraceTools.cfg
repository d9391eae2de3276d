\* Words of 32 values, pages of four bytes, four disks of
\* eight page numbers, batches of two entries.
CONSTANTS
    WORD = 32
    PAGE = 4
    DISK = 8
    BATCH = 2
    PageSizes = {0, 4}
    WindowSizes <- SmallWindows
    Traces <- SmallTraces
SPECIFICATION Spec
INVARIANTS
    ConvertsInOrder
    TotalsAgree
    TablesAddUp
    LocalityExact
PROPERTIES
    ToolsEnd
