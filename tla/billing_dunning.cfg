SPECIFICATION Spec
CONSTANTS
    s1 = s1
    s2 = s2
    h1 = h1
    h2 = h2
    NoSub = NoSub
    Subs = {s1}
    Existing = {s1}
    TierOf <- Platform
    Handlers = {h1}
    Sweeps = {w1}
    Grace = TRUE
    GraceDays = 3
    DaySeven = 1
    LastTime = 5
    MaxEvents = 4
    MaxFaults = 1
INVARIANTS
    NoticesOnce
PROPERTIES
    CyclesClose
CHECK_DEADLOCK FALSE
