SPECIFICATION Spec
CONSTANTS
    s1 = s1
    s2 = s2
    h1 = h1
    h2 = h2
    NoSub = NoSub
    Subs = {s1, s2}
    Existing = {}
    TierOf <- Upgrade
    Handlers = {h1}
    Sweeps = {}
    Grace = FALSE
    GraceDays = 2
    DaySeven = 1
    LastTime = 4
    MaxEvents = 5
    MaxFaults = 0
INVARIANTS
    UpgradeKeepsAccess
CHECK_DEADLOCK FALSE
