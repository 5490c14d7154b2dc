SPECIFICATION FairSpec
CONSTANTS
    Requests = {r1}
    Handlers = {h1}
    Workers = {w1, w2}
    MaxPhoto = 2
    PageSize = 1
    HandlerBudget = 2
    WorkerBudget = 1
    BatchSize = 2
    MaxAttempts = 2
INVARIANTS
    CompletedMeansErased
    NeverStranded
PROPERTIES
    TerminalIsFinal
    ImplementsErasure
    ContinuationSettles
