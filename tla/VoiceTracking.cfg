CONSTANTS
    Notes = {1, 2, 3}
    Polyphony = 2
    MinInterval = 1
    MinDuration = 1
    EmitAhead = 0
    MaxHeld = 3
SPECIFICATION Spec
INVARIANTS
    NoStuckNote
    SoundingIsAccounted
    PolyphonyHolds
PROPERTIES
    StrikeLasts
CHECK_DEADLOCK FALSE
