CONSTANTS
    Callers = {c1, c2}
    Sessions = {s1, s2, s3}
    EarlyEnd = FALSE
    NoSession = NoSession
SPECIFICATION Spec
SYMMETRY Symmetry
INVARIANTS
    NoSessionIsLost
CHECK_DEADLOCK FALSE
