SPECIFICATION TxSpec
CONSTANTS
    Actions = {a1}
    AutoActions = {}
    Acceptances = {r1, r2}
    Users = {u1, u2}
    Admins = {}
    NoOne = NoOne
    LegacyWrites = {"open", "closed"}
    EvidenceCallers = {u1, u2, NoOne}
    Policies <- LenientOnly
    ClosureGate = TRUE
    AcceptanceWorkflow = TRUE
    DecisionWorkspace = TRUE
    IndependentReview = FALSE
    Txns = {t1, t2}
    Requests <- CloseAndWork
    MidnightPasses = FALSE
    a1 = a1
    r1 = r1
    r2 = r2
    u1 = u1
    u2 = u2
    t1 = t1
    t2 = t2
INVARIANT TxTypeOK
PROPERTY Serializable
SYMMETRY Symmetry
