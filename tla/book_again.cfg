SPECIFICATION BFairSpec
CONSTANTS
    NCourses = 1
    NSlots = 2
    Blind = {1}
    Cached = {1}
    OnePerDay = {}
    Runs = {r1, r2}
    Race = {r1}
    Dry = {r1}
    MaxBlind = 2
    MaxPolls = 1
    Faults = {"lost", "died", "soft", "raise", "crash", "cancel"}
    Free = Free
    NoResult = NoResult
    r1 = r1
    r2 = r2
INVARIANT NeverDoubleBooks
PROPERTY Terminates
CHECK_DEADLOCK FALSE
