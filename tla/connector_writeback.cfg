SPECIFICATION Spec
CONSTANTS
    i1 = i1
    i2 = i2
    v1 = v1
    v2 = v2
    w1 = w1
    w2 = w2
    r1 = r1
    Intents = {i1, i2}
    Writable = {i1}
    RecordOf <- OneRecord
    Values = {v1}
    Absent = absent
    Workers = {w1, w2}
    Operators = {o1}
    MaxAttempts = 3
    MaxEnqueues = 1
    MaxEdits = 1
    MaxRedrives = 1
    MaxCrashes = 1
INVARIANTS
    FailureHasItsLetter
PROPERTIES
    OthersValuesStay
    IntentSettles
CHECK_DEADLOCK FALSE
