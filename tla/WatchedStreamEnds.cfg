SPECIFICATION Spec
CONSTANTS
    Sessions <- MCSessions
    WaitForFrame = 3
    Horizon = 8
    FrameBound = 2
    CrashPhases <- MCAnyPhase
    TroubleBound = 3
    MinInterval = 1
    DebounceTime = 1
    MaxInterval = 4
    FrameLimits <- MCFrameLimits
INVARIANT EndedStreamIsShutDown
