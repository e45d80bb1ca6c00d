SPECIFICATION WSpec
CONSTANTS
    NAccounts = 1
    NSlots = 2
    Rank <- MCTwoTimes
    Grouped = FALSE
    Modes = {TRUE, FALSE}
    MaxRes = 3
    Actors = {"booker", "owner", "web"}
    Faults = {"login", "badlist", "throttle", "cancel", "lost", "captcha", "write", "crash", "die"}
    MaxMishaps = 1
INVARIANTS HandKept NotBlamedOnUser Tracked
PROPERTIES UpgradeImproves CancelIsFinal
CONSTRAINT MCFocus
