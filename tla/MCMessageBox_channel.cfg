SPECIFICATION Spec
CONSTANTS
    Channels = {2}
    Events <- ChannelEvents
    Start = 1
    Saved = {{}, {2}}
    LogIn = FALSE
    MaxSeq = 0
    MaxBatch = 2
    MaxExtra = 0
    Timeouts = {1}
    GapTimeout = 1
    NoUpdatesTimeout = 2
    RetryDelayLimit = 2
    DeferDelay = 1
    MaxHeld = 2
    MaxDeferrals = 1
    MaxFailures = 2
INVARIANTS
    TypeOK
    Consistent
    WakesInTime
    ExactlyOnce
    RetryPaced
