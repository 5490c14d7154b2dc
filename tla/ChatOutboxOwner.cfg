SPECIFICATION Spec
CONSTANTS
    Owners = {ann, bob}
    PerOwner = 1
    Capacity = 2
    MaxAttempts = 2
    MaxCrashes = 0
    MaxSessions = 2
    Rare = {"switch"}
INVARIANTS
    DeliveredAsOwner
CHECK_DEADLOCK FALSE
