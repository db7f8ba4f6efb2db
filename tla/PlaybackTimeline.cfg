CONSTANTS
    Times <- MCTimes
    Comp <- MCComp
    Grain = 2
    Rates = {1, 2}
    Targets = {17}
    Lookaheads = {6, 7}
    TickPeriod = 1
    EmitAhead = 1
    Lag = 1
    PausePolicy = TRUE
SPECIFICATION Spec
INVARIANTS
    NothingSkipped
    NothingCutAtEnd
    SentOnce
    InOrder
PROPERTY
    OnTime
CHECK_DEADLOCK FALSE
