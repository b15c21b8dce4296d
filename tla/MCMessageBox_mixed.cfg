SPECIFICATION Spec
CONSTANTS
    Channels = {2}
    Events <- MixedEvents
    Start = 1
    Saved = {{}, {0, 2}}
    LogIn = TRUE
    MaxSeq = 0
    MaxBatch = 1
    MaxExtra = 1
    Timeouts = {1}
    GapTimeout = 1
    NoUpdatesTimeout = 1
    RetryDelayLimit = 1
    DeferDelay = 1
    MaxHeld = 1
    MaxDeferrals = 0
    MaxFailures = 1
INVARIANTS
    ExactlyOnce
PROPERTIES
    PositionsHold
