\* Three cells of three bodies each, in every arrangement on three sides.
SPECIFICATION MergeSpec
CONSTANTS
    CellIds = {a, b, c}
    a = a
    b = b
    c = c
    Bodies = {1, 2, 3}
    BaseBodies = {1}
    Texts = {"t", "u"}
    Ends = {"line end"}
SYMMETRY IdSymmetry
INVARIANTS  DeletionHonoured EveryIdOnce SameBothWays OrderKept
CHECK_DEADLOCK FALSE
