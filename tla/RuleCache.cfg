SPECIFICATION FairSpec
CONSTANTS
    MaxEdits = 3
    MaxFaults = 1
INVARIANTS
    StaleIsSignalled
PROPERTIES
    EditsArriveUnlessMissed
CHECK_DEADLOCK FALSE
