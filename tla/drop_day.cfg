SPECIFICATION MCSpec
CONSTANTS
    Hours = {3, 4, 22}
    Minutes = {0, 30}
    Leads = {0, 10, 45, 60}
    Advances = {3, 7}
    West = 5
    Spring = 4
    Fall = 12
    LastDay = 18
    Wanted = {2, 5, 6}
    Skips = {13}
    Cutoffs <- MCCutoffs
    Delays = {0, 9}
    Punctual = TRUE
    NAccounts = 3
    Rankings <- MCRankings
    Weeks = {1}
    Burst = 2
    C = 5
    Reserve = 1
    NFallback = 1
    Faults = {"fail", "hang", "die", "stale"}
    MaxMishaps = 1
INVARIANTS OnePerDrop NoMissedDrop TokensOnce FairShare DraftSound
PROPERTIES PrefetchEnds
CHECK_DEADLOCK FALSE
