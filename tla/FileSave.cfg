SPECIFICATION FairSpec
CONSTANTS
    MaxId = 3
    Limit = 2
    DebounceTime = 2
    Bodies = {"none", "image", "cut"}
    Faults <- AllFaults
INVARIANTS TypeOK PointersLive NoForgottenFile
PROPERTIES OneImagePerEpisode ContextsEnd RateLimited Archived
