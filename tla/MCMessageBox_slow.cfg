SPECIFICATION Spec
CONSTANTS
    Channels = {2, 3}
    Events <- TwoChannelEvents
    Start = 1
    Saved = {{2}}
    LogIn = FALSE
    MaxSeq = 0
    MaxBatch = 1
    MaxExtra = 0
    Timeouts = {2}
    GapTimeout = 1
    NoUpdatesTimeout = 1
    RetryDelayLimit = 1
    DeferDelay = 1
    MaxHeld = 1
    MaxDeferrals = 0
    MaxFailures = 1
INVARIANTS
    WakesInTime
