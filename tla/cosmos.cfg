SPECIFICATION MCSpec
CONSTANTS
    r1 = r1
    r2 = r2
    o1 = o1
    w1 = w1
    w2 = w2
    b1 = b1
    booker = booker
    watcher = watcher
    site = site
    tab = tab
    tick = tick
    Rules = {r1, r2}
    OneOffs = {o1}
    Dates = {1}
    DaysPerWeek = 2
    TicksPerDay = 1
    MaxNow = 1
    Clocks = {0, 1}
    Cutoffs = {}
    SiteCutoff = 0
    Wants = {w1, w2}
    Owners = {booker, watcher}
    Callers = {site, tab, tick}
    ActorOf <- MCActorOf
    Does <- MCDoes
    Edits <- MCEdits
    Reports <- MCReports
    MaxCalls = 4
    MaxLost = 1
    Raws = {b1}
    NoRow = NoRow
    NoRule = NoRule
    NoOwner = NoOwner
    NoRaw = NoRaw
    NoCutoff = NoCutoff
    Users = {u1, u2}
    Accounts = {a1, a2}
    Identities = {i1}
    Logins = {l1, l2}
    Clients = {p1, p2}
    MaxAccounts = 1
    Joins = {"connect", "operator", "join", "uninvite"}
    MaxTurns = 3
    NoKey = NoKey
    Nobody = Nobody
INVARIANTS OneActiveRowPerDate LeaseSticks AnsweredKeepsKey UninvitedStays
PROPERTIES ImplementsTheStore CoveredWhenOpened
CHECK_DEADLOCK FALSE
SYMMETRY MCSymmetry
