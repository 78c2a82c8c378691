SPECIFICATION Spec
CONSTANTS
    Handlers = {h1, h2}
    Reports = {motion, clear}
    NotFound = NotFound
    Missing = Missing
    NoReport = NoReport
    DebounceTime = 30
    MaxContextId = 4
SYMMETRY Symmetry
INVARIANTS
    TypeOK
    DebounceWindows
    NeverTwoCancelled
    NoDanglingHandle
    ErasedByPredecessor
PROPERTY RateLimited
