\* The process ends: nothing need happen after that.
SPECIFICATION FairSpec
CHECK_DEADLOCK FALSE
CONSTANT FeedCount = 2
INVARIANTS
    TypeOK
    SuccessMeansUnknown
PROPERTIES
    LastWord
    SignalEndsApp
