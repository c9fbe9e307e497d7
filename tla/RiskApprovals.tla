--------------------------- MODULE RiskApprovals ---------------------------
(***************************************************************************)
(* The lifecycle of one risk and the approvals of its treatment plans.     *)
(*                                                                         *)
(* Transitions, requests for approval, decisions and updates of treatments *)
(* are transactions that lock rows one after the other and write last, so  *)
(* each is taken apart where another may come between: the row it locks    *)
(* first, the row it waits for, and the write with its commit.  Handlers   *)
(* that lock one row and write it are one action each.  A handler that is  *)
(* refused changes nothing and is no step.                                 *)
(***************************************************************************)
CONSTANTS
    Users,          \* the members of the organization
    Admins,         \* those with the role that may decide
    NoOne,          \* the caller of a request made with an API key; no row
    Approvals,      \* ids of approval rows
    Treatments,     \* ids of treatment rows
    Requests,       \* connections: each runs one transaction at a time
    ThresholdSet    \* whether the organization has an approval threshold

ASSUME UsersAssumption == Admins \subseteq Users /\ NoOne \notin Users \cup Approvals \cup Treatments
ASSUME ThresholdAssumption == ThresholdSet \in BOOLEAN

States == {"draft", "scoping", "treatment_selection", "pending_approval", "mitigation",
           "validation", "residual_review", "closed", "archived"}

Decisions == {"none", "pending", "approved", "rejected"}

TreatmentStatuses == {"none", "not_started", "in_progress", "terminal"}

Edge(transition, from, to, gates) ==
    [transition |-> transition, from |-> from, to |-> to, gates |-> gates]

Edges ==
    {Edge("begin_assessment", "draft", "scoping", {}),
     Edge("advance_to_treatment", "scoping", "treatment_selection",
          {"owner_required", "score_required", "evidence_required"}),
     Edge("submit_for_approval", "treatment_selection", "pending_approval", {"treatment_required"}),
     Edge("start_mitigation_direct", "treatment_selection", "mitigation",
          {"treatment_required", "approval_not_required"}),
     Edge("approve", "pending_approval", "mitigation",
          {"actor_identity_required", "separation_of_duties", "approval_required"}),
     Edge("reject", "pending_approval", "treatment_selection",
          {"actor_identity_required", "separation_of_duties"}),
     Edge("complete_mitigation", "mitigation", "validation", {}),
     Edge("pass_validation", "validation", "residual_review", {}),
     Edge("fail_validation", "validation", "mitigation", {}),
     Edge("close", "residual_review", "closed", {"score_required"}),
     Edge("reopen", "closed", "residual_review", {}),
     Edge("unarchive", "archived", "closed", {})}
        \cup {Edge("archive", s, "archived", {}) : s \in {"closed", "residual_review"}}
        \cup {Edge("rescore", s, "scoping", {}) :
                 s \in {"treatment_selection", "pending_approval", "mitigation", "validation", "residual_review"}}

Gates == UNION {e.gates : e \in Edges}

\* Variants: one of the approval transitions is left to the generic endpoint.
SubmitUnmanaged  == {"approve", "reject"}
ApproveUnmanaged == {"submit_for_approval", "reject"}

ApprovalManaged == {"submit_for_approval", "approve", "reject"}

Callers == Users \cup {NoOne}

RiskRows == [state : States, owner : BOOLEAN, rated : BOOLEAN, score : {"none", "low", "high"}]

ApprovalRows == [decision : Decisions, requester : Callers, approver : Callers]

Events == [from : States, to : States, approval : Approvals \cup {NoOne}]

Stages == {"idle", "moving", "requesting", "deciding", "decided", "treating"}

TxnRecords ==
    [at : Stages, user : Callers, approval : Approvals \cup {NoOne}, plan : Treatments \cup {NoOne},
     verdict : {"none", "approved", "rejected"}, from : States, to : States]

Idle == [at |-> "idle", user |-> NoOne, approval |-> NoOne, plan |-> NoOne,
         verdict |-> "none", from |-> "draft", to |-> "draft"]

NoApproval == [decision |-> "none", requester |-> NoOne, approver |-> NoOne]

VARIABLES
    risk,       \* the row of risks
    approval,   \* risk_approvals
    treatment,  \* the status of each row of risk_treatments
    evidence,   \* whether live evidence is attached to the risk
    gated,      \* risk_settings.require_evidence_gate
    last,       \* the newest row of risk_lifecycle_events
    txn         \* the transaction of each connection

vars == <<risk, approval, treatment, evidence, gated, last, txn>>

Open == {a \in Approvals : approval[a].decision = "pending"}

\* The types, the separation of duties that a CHECK of risk_approvals repeats,
\* and the partial unique index on its pending rows.
TypeOK ==
    /\ risk \in RiskRows
    /\ approval \in [Approvals -> ApprovalRows]
    /\ \A a \in Approvals : approval[a].approver # NoOne => approval[a].approver # approval[a].requester
    /\ \A a, b \in Open : a = b
    /\ treatment \in [Treatments -> TreatmentStatuses]
    /\ evidence \in BOOLEAN
    /\ gated \in BOOLEAN
    /\ last \in Events
    /\ txn \in [Requests -> TxnRecords]

\* A risk that was created is rated and scored; one that is older than the
\* two columns is neither.
Init ==
    /\ risk \in {r \in RiskRows : r.state = "draft" /\ r.rated = (r.score # "none")}
    /\ approval = [a \in Approvals |-> NoApproval]
    /\ treatment = [t \in Treatments |-> "none"]
    /\ evidence = FALSE
    /\ gated \in BOOLEAN
    /\ last = [from |-> "draft", to |-> "draft", approval |-> NoOne]
    /\ txn = [r \in Requests |-> Idle]

-----------------------------------------------------------------------------
\* Rows that transactions hold.

RiskFree == \A s \in Requests : txn[s].at \notin {"moving", "requesting", "decided"}

\* Variant: the approval is read without FOR UPDATE.
ApprovalNeverHeld(a) == a \in Approvals

ApprovalFree(a) == \A s \in Requests : txn[s].at \in {"deciding", "decided"} => txn[s].approval # a

TreatmentFree(t) == \A s \in Requests : txn[s].at = "treating" => txn[s].plan # t

Begin(r, record) ==
    /\ txn[r].at = "idle"
    /\ txn' = [txn EXCEPT ![r] = record]
    /\ UNCHANGED <<risk, approval, treatment, evidence, gated, last>>

-----------------------------------------------------------------------------
\* The state machine and what feeds it.

Granted == \E a \in Approvals : approval[a].decision = "approved"

Proposers == IF Open = {} THEN {NoOne} ELSE {approval[a].requester : a \in Open}

Plans == {t \in Treatments : treatment[t] # "none"}

ApprovalRequired == ~ThresholdSet \/ risk.score # "low"

\* The gates that the generic endpoint and the request find satisfied.
GatesMet(user, proposer) ==
    {g \in Gates :
        CASE g = "owner_required"          -> risk.owner
          [] g = "score_required"          -> risk.rated
          [] g = "evidence_required"       -> gated => evidence
          [] g = "treatment_required"      -> Plans # {}
          [] g = "approval_required"       -> Granted
          [] g = "approval_not_required"   -> ~ApprovalRequired
          [] g = "separation_of_duties"    -> user \notin {NoOne, proposer}
          [] g = "actor_identity_required" -> user # NoOne}

\* Those a decision satisfies: it asks about the actor and the verdict alone.
DecisionGatesMet(user, proposer, verdict) ==
    {g \in Gates :
        \/ g = "approval_required" /\ verdict = "approved"
        \/ g = "separation_of_duties" /\ user \notin {NoOne, proposer}
        \/ g = "actor_identity_required" /\ user # NoOne}

Allowed(transition, gatesMet) ==
    {e \in Edges : e.transition = transition /\ e.from = risk.state /\ e.gates \subseteq gatesMet}

-----------------------------------------------------------------------------
\* POST /risks/:id/lifecycle/transitions.

LockForTransition(r) ==
    /\ RiskFree
    /\ \E user \in Callers, proposer \in Proposers, e \in Edges :
          /\ e.transition \notin ApprovalManaged
          /\ e \in Allowed(e.transition, GatesMet(user, proposer))
          /\ Begin(r, [Idle EXCEPT !.at = "moving", !.user = user, !.from = risk.state, !.to = e.to])

Move(r, approvalId) ==
    /\ risk' = [risk EXCEPT !.state = txn[r].to]
    /\ last' = [from |-> txn[r].from, to |-> txn[r].to, approval |-> approvalId]
    /\ txn' = [txn EXCEPT ![r] = Idle]
    /\ UNCHANGED <<treatment, evidence, gated>>

ExecuteRiskTransition(r) ==
    /\ txn[r].at = "moving"
    /\ Move(r, NoOne)
    /\ UNCHANGED approval

-----------------------------------------------------------------------------
\* POST /risks/:id/approvals.  The row that is inserted refers to a treatment,
\* so the insert waits for whoever has locked that.

\* Variant: the query for an open approval is left to the index.
OpenNotAsked == TRUE

NoneOpen == Open = {}

LockForRequest(r) ==
    /\ RiskFree
    /\ NoneOpen
    /\ \E user \in Users, plan \in Plans \cup {NoOne}, proposer \in Proposers :
          \E e \in Allowed("submit_for_approval", GatesMet(user, proposer)) :
             Begin(r, [Idle EXCEPT !.at = "requesting", !.user = user, !.plan = plan,
                                   !.from = risk.state, !.to = e.to])

RequestRiskApproval(r) ==
    /\ txn[r].at = "requesting"
    /\ txn[r].plan # NoOne => TreatmentFree(txn[r].plan)
    /\ \E a \in Approvals :
          /\ approval[a].decision = "none"
          /\ approval' = [approval EXCEPT ![a] = [decision |-> "pending", requester |-> txn[r].user, approver |-> NoOne]]
          /\ Move(r, a)

-----------------------------------------------------------------------------
\* POST /risks/:id/approvals/:approvalId/decision.

LockForDecision(r) ==
    \E user \in Admins, a \in Open, verdict \in {"approved", "rejected"} :
        /\ ApprovalFree(a)
        /\ approval[a].requester # user
        /\ Begin(r, [Idle EXCEPT !.at = "deciding", !.user = user, !.approval = a, !.verdict = verdict])

DecisionEdges(r) ==
    Allowed(IF txn[r].verdict = "approved" THEN "approve" ELSE "reject",
            DecisionGatesMet(txn[r].user, approval[txn[r].approval].requester, txn[r].verdict))

\* Variant: the risk is read without FOR UPDATE.
RiskNeverHeld == TRUE

RiskFreeForDecision == RiskFree

EvaluateDecision(r) ==
    /\ txn[r].at = "deciding"
    /\ RiskFreeForDecision
    /\ \E e \in DecisionEdges(r) :
          txn' = [txn EXCEPT ![r].at = "decided", ![r].from = risk.state, ![r].to = e.to]
    /\ UNCHANGED <<risk, approval, treatment, evidence, gated, last>>

DecideRiskApproval(r) ==
    /\ txn[r].at = "decided"
    /\ approval' = [approval EXCEPT ![txn[r].approval].decision = txn[r].verdict,
                                    ![txn[r].approval].approver = txn[r].user]
    /\ Move(r, txn[r].approval)

-----------------------------------------------------------------------------
\* PATCH /risk-treatments/:id.  A terminal status is also written to the
\* risk, whose row is locked after that of the treatment.

StartTreatment(t) ==
    /\ treatment[t] = "not_started"
    /\ TreatmentFree(t)
    /\ treatment' = [treatment EXCEPT ![t] = "in_progress"]
    /\ UNCHANGED <<risk, approval, evidence, gated, last, txn>>

LockForTreatment(r) ==
    \E t \in Treatments :
        /\ treatment[t] = "in_progress"
        /\ TreatmentFree(t)
        /\ Begin(r, [Idle EXCEPT !.at = "treating", !.plan = t])

FinishTreatment(r) ==
    /\ txn[r].at = "treating"
    /\ RiskFree
    /\ treatment' = [treatment EXCEPT ![txn[r].plan] = "terminal"]
    /\ txn' = [txn EXCEPT ![r] = Idle]
    /\ UNCHANGED <<risk, approval, evidence, gated, last>>

\* A transaction ends without effect: it is refused after it took a row, its
\* connection breaks, or PostgreSQL chooses it to break a deadlock.
Rollback(r) ==
    /\ txn[r].at # "idle"
    /\ txn' = [txn EXCEPT ![r] = Idle]
    /\ UNCHANGED <<risk, approval, treatment, evidence, gated, last>>

-----------------------------------------------------------------------------
\* What moves the gates.

\* POST /risk-treatments.
CreateTreatment(t) ==
    /\ treatment[t] = "none"
    /\ RiskFree
    /\ \E status \in TreatmentStatuses \ {"none"} : treatment' = [treatment EXCEPT ![t] = status]
    /\ UNCHANGED <<risk, approval, evidence, gated, last, txn>>

\* PATCH /risks/:id: the owner may be set and cleared, the rating and the
\* axes of the score only set.
PatchRisk ==
    /\ RiskFree
    /\ \E owner \in BOOLEAN, rated \in {risk.rated, TRUE}, score \in {risk.score, "low", "high"} :
          risk' = [risk EXCEPT !.owner = owner, !.rated = rated, !.score = score]
    /\ UNCHANGED <<approval, treatment, evidence, gated, last, txn>>

\* POST and DELETE /risks/:id/evidence, PUT /orgs/me/risk-settings.
ChangeEvidence ==
    /\ \E live \in BOOLEAN, enforced \in BOOLEAN : evidence' = live /\ gated' = enforced
    /\ UNCHANGED <<risk, approval, treatment, last, txn>>

Next ==
    \/ \E r \in Requests :
          \/ LockForTransition(r) \/ ExecuteRiskTransition(r)
          \/ LockForRequest(r) \/ RequestRiskApproval(r)
          \/ LockForDecision(r) \/ EvaluateDecision(r) \/ DecideRiskApproval(r)
          \/ LockForTreatment(r) \/ FinishTreatment(r)
          \/ Rollback(r)
    \/ \E t \in Treatments : StartTreatment(t) \/ CreateTreatment(t)
    \/ PatchRisk
    \/ ChangeEvidence

Spec == Init /\ [][Next]_vars

-----------------------------------------------------------------------------
\* Properties.

\* The event stream is the audit record of the risk: every move of the state
\* is an event, and each event starts where the one before it ended.  A
\* handler that decides from a state another one has left since breaks it.
EventsChain ==
    [][risk'.state # risk.state \/ last' # last
          => /\ last.to = risk.state
             /\ last'.from = last.to
             /\ last'.to = risk'.state]_vars

\* A risk that waits for approval has an open approval (the only one, by
\* TypeOK), so that somebody can decide it.
PendingIsDecidable == risk.state = "pending_approval" => Open # {}

\* Mitigation that needs an approval begins with one: the open approval of
\* this plan, approved in the same transaction by an administrator who did
\* not request it.  An approval of an earlier plan does not count.
MitigationNeedsApproval ==
    [][risk.state = "pending_approval" /\ risk'.state = "mitigation"
          => \E a \in Open :
                /\ approval'[a].decision = "approved"
                /\ approval'[a].approver \in Admins \ {approval[a].requester}]_vars

\* An approval is decided once, however many administrators decide at the
\* same time.
DecisionIsFinal ==
    [][\A a \in Approvals :
          approval[a].decision \in {"approved", "rejected"} => approval'[a] = approval[a]]_vars

=============================================================================
