SPECIFICATION FairSpec
CONSTANTS
    r1 = r1
    Requests = {r1}
    PerSecond = 16
    Step = 16
    MaxMessages = 2
    MaxSize = 6
    MaxAcks = 2
    AckLimit = 4
    Jitter = 1
    UseDelay = 0
    SaltPeriod = 1
    NumSalts = 2
    Early = 2
    Late = 2
    Skews <- Clocked
    Start = 64
    Capacity = 2
    MaxAge = 20
    OffsetLimit = 30
    Budgets <- Scenarios
INVARIANTS
    DeliveredOnce
    WellFramed
    AcksKept
    Corrected
PROPERTIES
    SessionServed
CHECK_DEADLOCK FALSE
