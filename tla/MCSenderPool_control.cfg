SPECIFICATION Spec
CONSTANTS
    c1 = c1
    c2 = c2
    Calls = {c1, c2}
    Dcs = {2}
    Dc <- OneDc
    Sizes = {1, 2, 3}
    SlotLimit = 2
    ByteLimit = 2
    Parking = {FALSE, TRUE}
    Stable = 1
    DelayLimit = 1
    MaxSetups = 2
    Before = {1}
    MaxControls = 1
    MaxPanics = 1
SYMMETRY EqualCalls
INVARIANTS
    PermitsKept
    OneConnection
    StaleSetupIgnored
    FreshAfterDisconnect
    Paced
CHECK_DEADLOCK FALSE
