SPECIFICATION Spec
CONSTANTS
    Requests = {q1, q2, q3}
    MaxPatches = 2
INVARIANTS
    NoVersionConflict
CHECK_DEADLOCK FALSE
