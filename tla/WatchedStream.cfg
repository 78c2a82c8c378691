SPECIFICATION FairSpec
CONSTANTS
    Sessions <- MCSessions
    WaitForFrame = 3
    Horizon = 8
    FrameBound = 2
    CrashPhases <- MCAnyPhase
    TroubleBound = 3
    MinInterval = 1
    DebounceTime = 2
    MaxInterval = 4
    FrameLimits <- MCFrameLimits
INVARIANTS TypeOK WatchdogHasClient StallBounded OutageBounded StateIsRecent
PROPERTIES RecoversOrHangs Supervised
