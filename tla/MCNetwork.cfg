CONSTANTS
    Waiters = {"w1", "w2"}
    Tries = 3
    Threshold = 2
    IoDelay = 1
    MaxSleep = 3
    FloodWaits = {0, 1, 2, 3}
    WidthMax = 4
    Attempts = {"h1", "h2"}
    DhJobs = 1
    MaxOddAnswers = 1
    MaxAbandoned = 1
    Dcs = {"home", "far"}
    HomeDc = "home"
    TargetDc = "far"
    Configs <- Answers
    Stored0 <- HomeStored
    MaxFaults = 1
    Starts <- Begins
    Capacity = 1
    MaxUnreadable = 2
    MaxDeferrals = 1
    Hosts = {"none", "old", "a", "b", "c", "d", "bad"}
SPECIFICATION FairSpec
INVARIANTS
    CallsAccounted
    SetupsAgree
    KeysAgree
    BytesIntact
PROPERTIES
    UpdatesKept
    CallersServed
    CaughtUp
CHECK_DEADLOCK FALSE
