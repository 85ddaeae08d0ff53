SPECIFICATION FairSpec
CONSTANTS
    BatchSize = 2
    MaxEntries = 5
    MaxExits = 2
INVARIANTS
    WriterSafe
PROPERTIES
    StoredUnlessOrphaned
CHECK_DEADLOCK FALSE
