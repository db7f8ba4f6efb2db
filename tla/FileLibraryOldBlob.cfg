CONSTANTS
    Contents = {x, y, z, broken}
    Unparsable = {broken}
    Bare = {z}
    Workers = {w1, w2}
    Attempts = 2
    MaxFiles = 2
    None = None
SPECIFICATION Spec
INVARIANTS
    OldBlobIsOrphan
