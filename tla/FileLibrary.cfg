CONSTANTS
    Contents = {x, y, z, broken}
    Unparsable = {broken}
    Bare = {z}
    Workers = {w1, w2}
    Attempts = 2
    MaxFiles = 3
    None = None
SPECIFICATION Spec
INVARIANTS
    RowsAreWhole
    OrphansAreExplained
    AnsweredIsStored
CONSTRAINT Isolated
SYMMETRY AnyWorker
