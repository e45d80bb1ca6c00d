SPECIFICATION WFairSpec
CONSTANTS
    NAccounts = 2
    NSlots = 2
    Rank <- MCGroup
    Grouped = TRUE
    Modes = {FALSE}
    MaxRes = 2
    Actors = {"booker", "clock"}
    Faults = {"login", "cancel", "throttle"}
    MaxMishaps = 1
PROPERTIES NotLast GroupCollapses
