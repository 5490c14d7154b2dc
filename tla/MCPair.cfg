SPECIFICATION PairSpec
CONSTANTS
    Users = {ann, bob}
    Events = {e1, e2}
    Sessions = {s1, s2}
    PerOwner = 1
    Capacity = 1
    MaxAttempts = 1
    MaxCrashes = 1
    MaxSessions = 3
    Rare = {"switch"}
SYMMETRY Symmetry
INVARIANTS
    MutualMeansMatched
    OneActiveMatch
    WithdrawnUnmatched
    SendsIntoActive
    KeptIsReadable
PROPERTIES
    PurgedNotReplayed
CHECK_DEADLOCK FALSE
