SPECIFICATION Spec
CONSTANTS
    NoJob = NoJob
    Jobs = {j1, j2}
    Workers = {w1, w2}
    JobAttempts = 2
    VerdictAttempts = 2
    MaxFaults = 1
    MaxOverruns = 1
    j1 = j1
    j2 = j2
    w1 = w1
    w2 = w2
CHECK_DEADLOCK FALSE
INVARIANTS OneCallAtATime CallsAreBounded
PROPERTIES AnswerIsKept EveryJobSettles
