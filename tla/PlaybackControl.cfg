CONSTANTS
    song = song
    blank = blank
    Files = {song, blank}
    Empty = {blank}
    NoFile = NoFile
    Playlists <- MCPlaylists
    MaxCalls = 2
    MaxLostGaps = 1
SPECIFICATION FairSpec
INVARIANTS
    NoResurrection
    OneCurrentAdvance
    AdvancePlaysItsFile
    ClockFollowsPlayer
    SchedulerFollowsPlayer
    StatusIsCurrent
PROPERTIES
    MicrotasksDrain
CHECK_DEADLOCK FALSE
