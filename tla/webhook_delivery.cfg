SPECIFICATION Spec
CONSTANTS
    NoRow = NoRow
    Deliveries = {d1}
    Sweeps = {w1, w2}
    MaxAttempts = 3
    FailureLimit = 1
    BatchSize = 1
    MaxFaults = 2
    MaxOverruns = 1
    d1 = d1
    w1 = w1
    w2 = w2
INVARIANTS
    OneAttemptAtATime
    PostsAreBounded
PROPERTIES
    FinalStatusStays
    EveryDeliverySettles
