SPECIFICATION DrainsSpec
CONSTANTS
    Events = {e1}
    Tokens = {t1}
    Dispatchers = {d1}
    ReplayIds = {q1}
    ChunkSize = 1
    BatchSize = 1
    HttpTries = 1
    MaxAttempts = 2
    MaxSends = 2
    Overlap = TRUE
    Checkers = {w1}
    MaxChecks = 2
    CheckBatch = 2
PROPERTIES
    ReceiptSettles
    EventSettles
    MessageSettles
CHECK_DEADLOCK FALSE
