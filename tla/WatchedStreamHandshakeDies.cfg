SPECIFICATION FairSpec
CONSTANTS
    Sessions <- MCFewSessions
    WaitForFrame = 2
    Horizon = 5
    FrameBound = 0
    CrashPhases <- MCAnyPhase
    TroubleBound = 2
    MinInterval = 1
    DebounceTime = 1
    MaxInterval = 3
    FrameLimits <- MCUnlimited
PROPERTY Recovers
