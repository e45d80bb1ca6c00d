SPECIFICATION MSpec
CONSTANTS
    r1 = r1
    r2 = r2
    runner = runner
    watcher = watcher
    web = web
    Rules = {r1}
    OneOffs = {o1}
    Dates = {0}
    DaysPerWeek = 2
    TicksPerDay = 2
    MaxNow = 0
    Cutoffs <- MCCutoffs
    SiteCutoff <- Open
    Wants = {w1, w2}
    Owners = {}
    Raws = {}
    Ticks = {tick}
    Requests = {request}
    Mortal = {tick, request}
    Horizon = 2
    MaxVersion = 2
    ActorOf <- MCActorOf
    NoRow = NoRow
    NoRule = NoRule
    NoOwner = NoOwner
    NoRaw = NoRaw
    NoCutoff = NoCutoff
CONSTRAINT MCFocus
INVARIANTS WalkRepairs DeactivationWithdraws EditReachesRows
CHECK_DEADLOCK FALSE
