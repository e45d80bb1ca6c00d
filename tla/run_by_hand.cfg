SPECIFICATION RSpec
CONSTANTS
    NAccounts = 1
    NPosts = 1
    Grouped = FALSE
    T0 = 1
    Starts = {2, 4}
    ReplicaTimeout = 3
    SelfDeadlineMargin = 1
    WriterGrace = 1
    PostBurstQuiet = 1
    Actors = {"watcher"}
    Faults = {}
    MaxMishaps = 0
INVARIANTS HeldFromTheClaim
CHECK_DEADLOCK FALSE
