CONSTANTS
    Applies = {a1, a2, a3}
    Plans <- MCPlans
    Edits = {e1}
    Columns <- MCColumns
SPECIFICATION Spec
SYMMETRY Symmetry
INVARIANTS
    SectionIsExclusive
    NoBlindOverwrite
CHECK_DEADLOCK FALSE
