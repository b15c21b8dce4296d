CONSTANTS
    Users = {"u1", "u2", "u3"}
    Plans <- Mix
    MaxPings = 2
    LoginDcs = {1, 2, 3}
    MaxVisited = 2
    MaxLoginFaults = 1
    MaxLogins = 3
    Writers = {"a1", "a2"}
    Facts = {"hash", "community"}
    Unreadable = {"community"}
    MaxWrites = 3
    MaxKills = 1
    CachedPeers = {1, 2}
    Versions = {1, 2}
    Volatile = {2}
    Batches = {{1}, {2}}
    CacheCalls = {"k1", "k2"}
    MinSlots = 1
    MaxSlots = 2
    Lifetime = 1
    MaxCacheFaults = 1
    Sizes = {4, 5}
    Chunk = 2
    Workers = 2
    LastDc = 3
    MaxRecoveries = 2
    MaxDownloadFaults = 1
    Uploaders = {"up1", "up2"}
    Announced = {0, 4, 5}
    Available = {3, 4, 5, 6}
    PartSize = 2
    MaxUploadFaults = 1
    MaxInputs = 4
    MaxSendFaults = 1
SPECIFICATION FairSpec
INVARIANTS
    ListedOnce
    SessionKeeps
    SentIsReturned
PROPERTIES
    EndsAgree
    TransfersIntact
    LoginRecorded
    CallsReturn
    WorkEnds
CHECK_DEADLOCK FALSE
