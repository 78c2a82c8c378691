SPECIFICATION FairSpec
CONSTANTS
    MaxId = 3
    Limit = 1
    DebounceTime = 2
    Bodies = {"image"}
    Faults = {"lost"}
PROPERTY PendingFileOperationsEnd
