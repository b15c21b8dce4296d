SPECIFICATION Spec
CONSTANTS
    Histories = {{1, 2, 3, 4, 5, 6}}
    Limits = {3, 9}
    MaxListed = 9
    MaxPage = 3
    MaxPageFaults = 1
INVARIANTS
    NoneWhenNothingIsLeft
CHECK_DEADLOCK FALSE
