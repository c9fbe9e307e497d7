SPECIFICATION Spec
CONSTANTS
    Actions = {a1, a2, auto}
    AutoActions = {auto}
    Acceptances = {r1}
    Users = {u1, u2}
    Admins = {u1, u2}
    NoOne = NoOne
    LegacyWrites = {"open", "in_progress", "closed", "accepted"}
    EvidenceCallers = {u1, NoOne}
    Policies <- PolicyMayChange
    ClosureGate = TRUE
    AcceptanceWorkflow = FALSE
    DecisionWorkspace = TRUE
    IndependentReview = TRUE
INVARIANTS
    LifecycleStreamKeepsUp
    OperationalStatusIsDerived
PROPERTIES
    ClosureNeedsCompletion
    RemediationIsRouted
