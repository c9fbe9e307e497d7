SPECIFICATION TxSpec
CONSTANTS
    Actions = {a1}
    AutoActions = {a1}
    Acceptances = {r1}
    Users = {u1, u2}
    Admins = {}
    NoOne = NoOne
    LegacyWrites = {"closed"}
    EvidenceCallers = {u1, u2, NoOne}
    Policies <- GateMayChange
    ClosureGate = TRUE
    AcceptanceWorkflow = TRUE
    DecisionWorkspace = TRUE
    IndependentReview = FALSE
    Txns = {t1, t2}
    Requests <- ShortRequests
    MidnightPasses = TRUE
    a1 = a1
    r1 = r1
    r2 = r2
    u1 = u1
    u2 = u2
    t1 = t1
    t2 = t2
INVARIANT CommittedStatusIsDerived
PROPERTY EveryTransactionEnds
