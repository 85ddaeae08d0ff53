SPECIFICATION MCSpec
CONSTANTS
    ThePolicy <- LatchPolicy
    Requests = {"manual", "reset"}
    Faults = {"resolve", "publish", "redis", "reconnect"}
    MaxTime = 3
    MaxQueue = 2
    MaxFaults = 0
    RelayRule <- OrderPolicy
    Rules = {"relay"}
INVARIANTS
    RelayIsNotLeftOn
CHECK_DEADLOCK FALSE
