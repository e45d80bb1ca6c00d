SPECIFICATION MCSpec
CONSTANTS
    NCourses = 2
    NSlots = 2
    Blind = {1}
    Cached = {1}
    OnePerDay = {2}
    Runs = {r1}
    Race = {r1}
    Dry = {}
    MaxBlind = 2
    MaxPolls = 1
    Faults = {"lost", "died", "captcha", "cancel", "notify", "throttle", "opaque"}
    Free = Free
    NoResult = NoResult
    r1 = r1
    t1 = t1
    t2 = t2
    NGroupCourses = 2
    MaxGroups = 2
    MaxAsked = 3
    Tabs = {t1, t2}
INVARIANTS KeptIsLive NothingLost PutAwayEverywhere SavedOrTold
CHECK_DEADLOCK FALSE
CONSTRAINT MCFocus
