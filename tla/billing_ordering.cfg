SPECIFICATION Spec
CONSTANTS
    s1 = s1
    s2 = s2
    h1 = h1
    h2 = h2
    NoSub = NoSub
    Subs = {s1, s2}
    Existing = {s1}
    TierOf <- Upgrade
    Handlers = {h1, h2}
    Sweeps = {}
    Grace = FALSE
    GraceDays = 2
    DaySeven = 1
    LastTime = 3
    MaxEvents = 5
    MaxFaults = 1
SYMMETRY Alike
INVARIANTS
    AppliedOnce
    SettledIsTrue
PROPERTIES
    FollowsLedger
CHECK_DEADLOCK FALSE
