SPECIFICATION FairSpec
CONSTANTS
    Reports = {on, off, unknown}
    Unknown = unknown
    NoFrame = NoFrame
    DebounceTime = 3
    DefaultDebounce = 4
    PollTime = 2
    FaultBound = 3
INVARIANTS TypeOK AcknowledgedIsCurrent ShownIsCurrent
PROPERTIES Converges FramesGoOn StopEnds
