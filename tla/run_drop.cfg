SPECIFICATION RFairSpec
CONSTANTS
    NAccounts = 2
    NPosts = 2
    Grouped = TRUE
    T0 = 1
    Starts = {0}
    ReplicaTimeout = 3
    SelfDeadlineMargin = 1
    WriterGrace = 1
    PostBurstQuiet = 1
    Actors = {"watcher", "owner"}
    Faults = {"config", "store", "group", "prepare", "decrypt", "lost", "captcha", "cancel", "engine", "throttle", "write", "again", "mail", "crash"}
    MaxMishaps = 1
INVARIANTS NothingUntold ExitHonest LeasedWhilePosting
PROPERTIES Ends
CHECK_DEADLOCK FALSE
