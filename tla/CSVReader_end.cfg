\* A file of two rows in two chunks, no header.
CONSTANTS
    NotifySize = 2
    Header = 0
    Files <- SoundFiles
    Policies = {"IGNORE_ROW"}
    BatchSizes = {0}
    MaxRetries = 0
SPECIFICATION Spec
INVARIANTS
    EndsAtTheEnd
