SPECIFICATION Spec
CONSTANTS
    Users = {a1, a2, m}
    Admins = {a1, a2}
    NoOne = NoOne
    Approvals = {p1, p2}
    Treatments = {t1}
    Requests = {r1, r2}
    ThresholdSet = TRUE
SYMMETRY Symmetry
INVARIANTS
    TypeOK
    PendingIsDecidable
PROPERTIES
    EventsChain
    MitigationNeedsApproval
    DecisionIsFinal
