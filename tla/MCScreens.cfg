SPECIFICATION BoundedSpec
CONSTANTS
    None = none
    Consumers = {h1, h2, h3}
    Accounts = {"ann", "bob"}
    MaxControllers = 3
    Users = {"ann"}
    Calls = {"c1", "c2"}
    MaxStarts = 4
    MaxAuth = 2
    Candidates = {1, 2, 3}
    DeckPage = 1
    Ahead = 0
    Likes = 1
    Admirers = {2}
    Liked = {1}
    Lists = {"outgoing"}
    MaxTries = 3
    MaxRefresh = 1
    ChatKinds = {"direct", "room"}
    Mine = {"m1"}
    Theirs = {"t1"}
    ThreadPage = 1
    MaxVisits = 2
    MaxRows = 3
    MaxOpens = 3
    MaxPaths = 3
    MaxOps = 2
    MaxWaiting = 1
    MaxKills = 1
    Loads = {"d1", "d2"}
    Formats = {"concert"}
    Categories = {"jazz", "rock"}
    LoadKinds = {"concert", "index"}
    Items = {1, 2}
    Limit = 1
    Concurrency = 2
    Attempts = 2
    MaxTroubles = 1
INVARIANTS
    ScreensTypeOK
    SettledJoined
    OneChannel
    NoCardSkipped
    ThreadCatchesUp
    BadgeSettles
    PhotosKept
    FeedsFetched
CHECK_DEADLOCK FALSE
