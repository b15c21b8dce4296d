SPECIFICATION Spec
CONSTANTS
    MaxInputs = 4
    MaxSendFaults = 1
INVARIANTS
    NotForwardedIsNone
CHECK_DEADLOCK FALSE
