SPECIFICATION BoundedSpec
CONSTANTS
    Users = {ann, bob}
    Tokens = {t1, t2}
    Calls = {c1, c2}
    None = none
    MaxAuth = 3
    MaxEvents = 1
    MaxKills = 1
    RetryLimit = 1
    Emails = {"ann", "bob"}
    Old = {"bob"}
    Reviews = {"review1", "review2"}
    MaxSets = 1
    MaxCreates = 2
    Taps = {"tap1", "tap2"}
    MaxPhases = 4
    Slots = {"s1", "s2"}
    MaxTaps = 2
    MaxLoads = 2
SYMMETRY SessionSymmetry
INVARIANTS
    ClientTypeOK
    SignedInIsAuth
    SignedOutClean
    AwaitedRuns
    RegistrationKept
    OpensOnce
    ShownIsStored
PROPERTIES
    RecoveryHolds
CHECK_DEADLOCK FALSE
