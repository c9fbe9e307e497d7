SPECIFICATION Spec
CONSTANTS
    Actions = {a1}
    AutoActions = {}
    Acceptances = {r1, r2}
    Users = {u1, u2}
    Admins = {u1, u2}
    NoOne = NoOne
    LegacyWrites = {"closed"}
    EvidenceCallers = {}
    Policies <- SeparatedOnly
    ClosureGate = TRUE
    AcceptanceWorkflow = TRUE
    DecisionWorkspace = TRUE
    IndependentReview = TRUE
INVARIANTS
    ClosureAxesAgree
    AcceptedRiskHasRecord
PROPERTIES
    ExceptionNeverCloses
    EndedAcceptanceReopens
    ReopenOpens
    LapsedAcceptanceEnds
