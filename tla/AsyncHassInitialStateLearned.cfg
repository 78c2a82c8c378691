SPECIFICATION Spec
CONSTANTS
    Handlers = {h1}
    Reports = {motion, clear}
    NotFound = NotFound
    Missing = Missing
    NoReport = NoReport
    DebounceTime = 30
    MaxContextId = 3
INVARIANTS
    InitialStateLearned
