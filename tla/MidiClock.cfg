CONSTANTS
    Slaves = {d1}
    MaxDelay = 2
    Positions = {0, 1}
    MaxSong = 2
    MaxPending = 2
SPECIFICATION Spec
INVARIANTS
    TicksFollowPlayer
    SlavesRunWithTheClock
    SlavesShareThePosition
PROPERTIES
    StopReachesSlaves
CHECK_DEADLOCK FALSE
