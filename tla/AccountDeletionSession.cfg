SPECIFICATION FairSpec
CONSTANTS
    Requests = {r1}
    Handlers = {h1}
    Workers = {w1}
    MaxPhoto = 1
    PageSize = 1
    HandlerBudget = 2
    WorkerBudget = 1
    BatchSize = 2
    MaxAttempts = 2
PROPERTIES
    DeletionOutlivesTheSession
