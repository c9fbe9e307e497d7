SPECIFICATION Spec
CONSTANTS
    e1 = e1  r1 = r1  w1 = w1  w2 = w2  s1 = s1
    Exports = {e1}
    Reaps = {r1}
    Workers = {w1, w2}
    Sweeps = {s1}
    JobAttempts = 2
    MaxFaults = 2
    MaxOverruns = 0
    NoJob = NoJob
INVARIANTS LinksLeadToBundles NoBundleIsForgotten ErasureIsWhole
CHECK_DEADLOCK FALSE
PROPERTIES BundlesExpire ErasureHappens
