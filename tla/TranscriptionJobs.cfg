CONSTANTS
    MaxCreated = 4
    MaxParallel = 1
    MaxQueued = 2
    MaxJobs = 3
    MaxRetained = 1
SPECIFICATION FairSpec
INVARIANTS
    SlotsAreWork
    AnnouncedOnce
    CompleteIsHonest
    MemoryIsBounded
PROPERTIES
    EveryJobEnds
    KeepsLifecycle
CHECK_DEADLOCK FALSE
