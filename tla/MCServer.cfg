SPECIFICATION ServerSpec
CONSTANTS
    Events = {"e1"}
    Tokens = {"t1", "t2"}
    Dispatchers = {"d1", "d2"}
    ReplayIds = {"q1"}
    ChunkSize = 1
    BatchSize = 1
    HttpTries = 2
    MaxAttempts = 2
    MaxSends = 2
    Overlap = FALSE
    Checkers = {"w1", "w2"}
    MaxChecks = 2
    CheckBatch = 2
    Ids = {"e1", "e2", "e3"}
    Incomplete = {"e3"}
    Runs = {"r1", "r2"}
    PageSize = 1
    MaxEvents = 3
    MaxClock = 4
    Odd = {"e2"}
    Bad = {"e3"}
    Isolates = {"i1"}
    PageTake = 1
    TTL = 1
    Limit = 2
    MaxBytes = 3
    Attempts = 2
    OnePhone = "t1"
    OneDispatcher = "d1"
INVARIANTS
    ServerTypeOK
    OneTaskPerEvent
    SentHasTicket
    FeedWhole
    BodyRead
PROPERTIES
    TicketedNotResent
    KeepsLedger
    RunCommits
CHECK_DEADLOCK FALSE
