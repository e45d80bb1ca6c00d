SPECIFICATION MSpec
CONSTANTS
    r1 = r1
    r2 = r2
    runner = runner
    watcher = watcher
    web = web
    Rules = {r1, r2}
    OneOffs = {}
    Dates = {1}
    DaysPerWeek = 2
    TicksPerDay = 1
    MaxNow = 0
    Cutoffs = {}
    SiteCutoff = 0
    Wants = {w1}
    Owners = {runner}
    Raws = {}
    Ticks = {tick}
    Requests = {request}
    Mortal = {}
    Horizon = 2
    MaxVersion = 2
    ActorOf <- MCActorOf
    NoRow = NoRow
    NoRule = NoRule
    NoOwner = NoOwner
    NoRaw = NoRaw
    NoCutoff = NoCutoff
INVARIANTS SupersededIsHeld
CHECK_DEADLOCK FALSE
SYMMETRY MCSymmetry
