SPECIFICATION Spec
CONSTANTS
    Channels = {}
    Events <- AccountEvents
    Start = 1
    Saved = {{}, {0}, {1}, {0, 1}}
    LogIn = TRUE
    MaxSeq = 1
    MaxBatch = 2
    MaxExtra = 0
    Timeouts = {1}
    GapTimeout = 1
    NoUpdatesTimeout = 2
    RetryDelayLimit = 2
    DeferDelay = 1
    MaxHeld = 2
    MaxDeferrals = 1
    MaxFailures = 2
INVARIANTS
    Sound
    ExactlyOnce
