SPECIFICATION Spec
CONSTANTS
    Texts = {x, y}
    MaxHistory = 3
    MaxReplays = 2
    MaxLost = 1
SYMMETRY TextSymmetry
INVARIANTS NoDuplicates NothingMissing
CHECK_DEADLOCK FALSE
