CONSTANTS
    Notes = {n1, n2}
    Outputs = {low, high, solo}
    Default = solo
    Routings <- MCRoutings
    Share = 1
    Cycle = 2
    MaxHeld = 2
    Lookahead = 2
    MaxKept = 2
    low = low
    high = high
    solo = solo
SPECIFICATION RoutingSpec
SYMMETRY Symmetry
INVARIANTS
    NothingLeftBehind
    ShareHolds
CHECK_DEADLOCK FALSE
