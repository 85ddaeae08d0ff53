SPECIFICATION Spec
CONSTANTS
    a = a
    b = b
    Signals <- MCSignals
    Values = {0, 1, 2, 3}
    Trees <- MCTrees
    MaxAge = 0
INVARIANTS
    TreesMeanWhatTheySay
    LatchesAreIndependent
PROPERTIES
    FlipsCrossTheBand
