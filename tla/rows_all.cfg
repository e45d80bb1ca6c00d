SPECIFICATION Spec
CONSTANTS
    r1 = r1
    r2 = r2
    o1 = o1
    runner = runner
    watcher = watcher
    web = web
    Rules = {r1, r2}
    OneOffs = {o1}
    Dates = {1}
    DaysPerWeek = 2
    TicksPerDay = 1
    MaxNow = 1
    Cutoffs = {}
    SiteCutoff = 0
    Wants = {w}
    Owners = {watcher, runner}
    ActorOf <- MCActorOf
    Raws = {b1}
    NoRow = NoRow
    NoRule = NoRule
    NoOwner = NoOwner
    NoRaw = NoRaw
    NoCutoff = NoCutoff
INVARIANTS TypeOK UserCancelIsFinal OneActiveRowPerDate SkipHonoured
PROPERTIES ImplementsDateOwnership LeaseDiscipline NoSilentBooking
CONSTRAINT MCFocus
SYMMETRY MCSymmetry
CHECK_DEADLOCK FALSE
