SPECIFICATION MCSpec
CONSTANTS
    ThePolicy <- LatchPolicy
    Requests = {"manual", "reset"}
    Faults = {"resolve", "publish", "redis", "reconnect"}
    MaxTime = 3
    MaxQueue = 2
    MaxFaults = 1
    RelayRule <- RelayPolicy
    Rules = {"latch", "relay"}
PROPERTIES
    CheckpointKeepsCooldown
    LatchKeepsCooldown
    RelayTimersSettle
CHECK_DEADLOCK FALSE
