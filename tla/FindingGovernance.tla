------------------------- MODULE FindingGovernance -------------------------
(***************************************************************************)
(* One finding of one organization: its two axes, its actions and          *)
(* evidence, its risk acceptances and exceptions, and the handlers and the *)
(* worker that write them.  Every handler runs in one transaction          *)
(* (asTenant, withTenant), so every handler is one action here;            *)
(* FindingTransactions takes the transactions apart.                       *)
(*                                                                         *)
(* The append-only stream finding_lifecycle_events is kept only by what    *)
(* the code and the properties read of it: the last state it shows on each *)
(* axis and the actor of its last `remediated` event.                      *)
(***************************************************************************)
EXTENDS FindingLifecycleMachine

CONSTANTS
    Actions,            \* ids of the remediation actions that may be linked
    AutoActions,        \* those a matcher or the dispatcher generates, one per marker
    Acceptances,        \* ids of finding_risk_acceptances rows
    Users, Admins,      \* session users of the organization, its active admins
    NoOne,              \* no user: an API-key caller, the system, an unset column
    LegacyWrites,       \* legacy statuses that callers PATCH
    EvidenceCallers,    \* callers that attach evidence
    Policies,           \* risk_settings an administrator may put in force
    ClosureGate, AcceptanceWorkflow, DecisionWorkspace, IndependentReview   \* feature flags

ASSUME ActionsAssumption == AutoActions \subseteq Actions
ASSUME UsersAssumption  == Admins \subseteq Users /\ NoOne \notin Users
ASSUME WritesAssumption == LegacyWrites \subseteq LegacyStatuses /\ EvidenceCallers \subseteq Users \cup {NoOne}
ASSUME PolicyAssumption == Policies \subseteq [evidenceGate : BOOLEAN, closureSod : BOOLEAN]
ASSUME FlagAssumption   == {ClosureGate, AcceptanceWorkflow, DecisionWorkspace, IndependentReview} \subseteq BOOLEAN

VARIABLES
    finding,        \* the row of `findings` and the tail of its event stream
    action,         \* status of each action, "none" before it is created
    hasEvidence,    \* an evidence row with source_type = 'finding' exists
    acceptance,     \* the rows of finding_risk_acceptances
    policy          \* the organization's risk_settings

vars == <<finding, action, hasEvidence, acceptance, policy>>

Callers == Users \cup {NoOne}
Unset   == "unset"

FindingRows ==
    [status : LegacyStatuses, operational : OperationalStatuses, decision : DecisionStates,
     reviewer : Admins \cup {NoOne}, logged : OperationalStatuses, loggedDecision : DecisionStates,
     remediator : Callers]

AcceptanceStates == {"none", "proposed", "approved", "rejected", "withdrawn", "expired", "legacy_unverified"}
LiveStates       == {"proposed", "approved", "legacy_unverified"}

\* lapsed: expires_at lies before CURRENT_DATE.
AcceptanceRows ==
    [state : AcceptanceStates, kind : {"acceptance", "exception"}, requester : Callers, lapsed : BOOLEAN]

NoAcceptance == [state |-> "none", kind |-> "acceptance", requester |-> NoOne, lapsed |-> FALSE]

TypeOK ==
    /\ finding \in FindingRows
    /\ action \in [Actions -> ActionStatuses \cup {"none"}]
    /\ hasEvidence \in BOOLEAN
    /\ acceptance \in [Acceptances -> AcceptanceRows]
    /\ policy \in [evidenceGate : BOOLEAN, closureSod : BOOLEAN]

-----------------------------------------------------------------------------
\* Reads inside the transaction.

Linked(acts)  == {acts[a] : a \in Actions} \ {"none"}
OpenActions   == {a \in Actions : action[a] \notin ActionTerminal \cup {"none"}}

\* Variant: the predicate before the kind column was consulted.
BindingOfEitherKind(accs) ==
    AcceptanceWorkflow /\ \E a \in Acceptances : accs[a].state = "approved" /\ ~accs[a].lapsed

\* SQL_ACCEPTANCE_BINDING, read only while the workflow's flag is on.
Binding(accs) ==
    /\ AcceptanceWorkflow
    /\ \E a \in Acceptances :
          accs[a].kind = "acceptance" /\ accs[a].state = "approved" /\ ~accs[a].lapsed

Derived(f, acts, evidence, accs) ==
    DeriveOperationalStatus(Linked(acts), policy.evidenceGate /\ ~evidence, f.decision, f.status, Binding(accs))

-----------------------------------------------------------------------------
\* Writes inside the transaction: each maps the finding to the finding.

SetDecision(f, to) == [f EXCEPT !.decision = to, !.loggedDecision = to]

\* One lifecycle event on the operational axis.
LogOperational(f, to, caller) ==
    [f EXCEPT !.logged = to, !.remediator = IF to = "remediated" THEN caller ELSE @]

\* Variant: only the operational axis is cleared.
ClearOperationalOnly(f) == [f EXCEPT !.operational = IF @ = "closed" THEN "open" ELSE @]

ClearClosure(f) ==
    [f EXCEPT !.status = IF @ \in LegacyTerminal THEN "open" ELSE @,
              !.operational = IF @ = "closed" THEN "open" ELSE @]

ChooseReviewer(remediator) ==
    IF Admins \ {remediator} = {} THEN NoOne ELSE CHOOSE u \in Admins \ {remediator} : TRUE

\* Variant: a reviewer, once assigned, is never replaced.
AssignReviewerOnce(f, remediator) ==
    IF policy.closureSod /\ f.reviewer = NoOne
    THEN [f EXCEPT !.reviewer = ChooseReviewer(remediator)]
    ELSE f

AssignIndependentReviewerIfNeeded(f, remediator) ==
    IF policy.closureSod /\ f.reviewer \in {NoOne, remediator} /\ ChooseReviewer(remediator) # NoOne
    THEN [f EXCEPT !.reviewer = ChooseReviewer(remediator)]
    ELSE f

RecomputeFindingOperationalStatus(f, acts, evidence, accs, caller, projectLegacy) ==
    LET to     == Derived(f, acts, evidence, accs)
        legacy == IF projectLegacy THEN LegacyStatusFor(to)
                  ELSE ProjectLegacyStatusOnClosureChange(to, f.status)
        moved  == LogOperational([f EXCEPT !.operational = to, !.status = legacy], to, caller)
    IN  IF to = f.operational THEN f
        ELSE IF to = "remediated" /\ IndependentReview
        THEN AssignIndependentReviewerIfNeeded(moved, caller)
        ELSE moved

\* Variant: the inline write the closure service replaced, which appended no event.
ApplyLegacyStatusSilently(f, new, accs, caller) ==
    [f EXCEPT !.status = new,
              !.operational = Derived([f EXCEPT !.status = new], action, hasEvidence, accs)]

ApplyLegacyStatus(f, new, accs, caller) ==
    LET to    == Derived([f EXCEPT !.status = new], action, hasEvidence, accs)
        moved == [f EXCEPT !.status = new, !.operational = to]
    IN  IF to = f.operational THEN moved ELSE LogOperational(moved, to, caller)

\* Variant: a reopen that clears the governance axis alone, as the bulk loop once did.
ApplyDecisionAxisOnly(f, transition, target) ==
    IF transition \in {"none", "noop"} THEN f ELSE SetDecision(f, target)

\* A decision_state write whose transition the machine allowed.
ApplyDecision(f, transition, target) ==
    CASE transition \in {"none", "noop"} -> f
      [] transition = "reopen"           -> ClearClosure(SetDecision(f, target))
      [] OTHER                           -> SetDecision(f, target)

\* The end of an acceptance clears both closure axes and the decision at once.
ReleaseClosure(f) ==
    IF f.decision = "accepted_risk" THEN SetDecision(ClearClosure(f), "needs_review") ELSE ClearClosure(f)

ReopenFindingAfterAcceptanceEnded(f, accs, caller) ==
    RecomputeFindingOperationalStatus(ReleaseClosure(f), action, hasEvidence, accs, caller, FALSE)

-----------------------------------------------------------------------------
\* POST /api/actions, PATCH /api/actions/:id, POST /api/actions/:id/unblock,
\* POST /api/evidence.

Cascade(caller) ==
    finding' = RecomputeFindingOperationalStatus(finding, action', hasEvidence', acceptance, caller, FALSE)

\* Variant: a new action is linked and the parent is not recomputed.
CreateActionWithoutCascade(a, caller) ==
    /\ action[a] = "none" /\ a \notin AutoActions
    /\ action' = [action EXCEPT ![a] = "open"]
    /\ UNCHANGED <<finding, hasEvidence, acceptance, policy>>

CreateAction(a, caller) ==
    /\ action[a] = "none" /\ a \notin AutoActions
    /\ action' = [action EXCEPT ![a] = "open"]
    /\ UNCHANGED <<hasEvidence, acceptance, policy>>
    /\ Cascade(caller)

UpdateAction(a, status, caller) ==
    /\ action[a] # "none"
    /\ action' = [action EXCEPT ![a] = status]
    /\ UNCHANGED <<hasEvidence, acceptance, policy>>
    /\ Cascade(caller)

UnblockAction(a, caller) ==
    /\ action[a] = "blocked"
    /\ action' = [action EXCEPT ![a] = "in_progress"]
    /\ UNCHANGED <<hasEvidence, acceptance, policy>>
    /\ Cascade(caller)

AttachEvidence(caller) ==
    /\ hasEvidence' = TRUE
    /\ UNCHANGED <<action, acceptance, policy>>
    /\ Cascade(caller)

\* The signal matcher and the applicability dispatcher, on a finding they find
\* already there, link an action of their own and recompute nothing.  A unique
\* index keeps one action per finding and marker.
GenerateAction(a) ==
    /\ a \in AutoActions /\ action[a] = "none"
    /\ action' = [action EXCEPT ![a] = "open"]
    /\ UNCHANGED <<finding, hasEvidence, acceptance, policy>>

\* PUT /api/orgs/me/risk-settings.  No finding is recomputed.
PutRiskSettings(p) ==
    /\ policy' = p
    /\ UNCHANGED <<finding, action, hasEvidence, acceptance>>

-----------------------------------------------------------------------------
\* PATCH /api/findings/:id and POST /api/findings/bulk (op = decide).

SodRefuses(caller) ==
    policy.closureSod /\ (caller = NoOne \/ caller = finding.remediator)

Transition(target, caller) ==
    IF target = Unset THEN "none"
    ELSE EvaluateFindingDecisionTransition(finding.decision, target, finding.operational,
                                           Linked(action) # {}, SodRefuses(caller))

\* Variant: the guard as it was before it covered the governance axis.
DirectLegacyAcceptanceBlocked(legacy, target) == AcceptanceWorkflow /\ legacy = "accepted"

DirectRiskAcceptanceBlocked(legacy, target) ==
    AcceptanceWorkflow /\ (legacy = "accepted" \/ target = "accepted_risk")

\* Variant: 'accepted' is not seen to be a closing status.
OnlyClosedIsGated(legacy, accs) ==
    legacy = "closed" /\ ClosureGate /\ ~EvaluateFindingClosure(OpenActions, Binding(accs))

LegacyCloseRefused(legacy, accs) ==
    legacy \in LegacyTerminal /\ ClosureGate /\ ~EvaluateFindingClosure(OpenActions, Binding(accs))

\* legacy and target are the body's status and decision_state, Unset when the
\* body carries neither and only edits other columns.
PatchFinding(caller, legacy, target) ==
    LET transition == Transition(target, caller)
        written    == IF legacy = Unset THEN finding ELSE ApplyLegacyStatus(finding, legacy, acceptance, caller)
        decided    == ApplyDecision(written, transition, target)
    IN  /\ ~DirectRiskAcceptanceBlocked(legacy, target)
        /\ transition # "refused"
        /\ ~LegacyCloseRefused(legacy, acceptance)
        /\ AxesAgree(written.operational, written.status)
        /\ finding' = RecomputeFindingOperationalStatus(decided, action, hasEvidence, acceptance,
                                                        caller, transition = "reopen")
        /\ UNCHANGED <<action, hasEvidence, acceptance, policy>>

BulkDecide(caller, target) ==
    LET transition == Transition(target, caller)
    IN  /\ DecisionWorkspace
        /\ ~DirectRiskAcceptanceBlocked(Unset, target)
        /\ transition \notin {"refused", "noop"}
        /\ finding' = RecomputeFindingOperationalStatus(ApplyDecision(finding, transition, target), action,
                                                        hasEvidence, acceptance, caller, transition = "reopen")
        /\ UNCHANGED <<action, hasEvidence, acceptance, policy>>

-----------------------------------------------------------------------------
\* The risk-acceptance workflow.

\* POST /api/findings/:id/risk-acceptance.  Nothing compares expires_at with
\* today, and a partial unique index allows one live row per kind.
Propose(a, kind, requester, lapsed) ==
    /\ AcceptanceWorkflow
    /\ acceptance[a].state = "none"
    /\ \A b \in Acceptances : acceptance[b].kind = kind => acceptance[b].state \notin LiveStates
    /\ acceptance' = [acceptance EXCEPT ![a] =
                         [state |-> "proposed", kind |-> kind, requester |-> requester, lapsed |-> lapsed]]
    /\ UNCHANGED <<finding, action, hasEvidence, policy>>

\* An exception writes no decision.
AcceptRisk(f, kind) ==
    IF kind = "acceptance" /\ f.decision # "accepted_risk" THEN SetDecision(f, "accepted_risk") ELSE f

Approve(a, approver) ==
    /\ AcceptanceWorkflow
    /\ acceptance[a].state = "proposed" /\ acceptance[a].requester # approver
    /\ acceptance' = [acceptance EXCEPT ![a].state = "approved"]
    /\ finding' = RecomputeFindingOperationalStatus(AcceptRisk(finding, acceptance[a].kind),
                                                     action, hasEvidence, acceptance', approver, FALSE)
    /\ UNCHANGED <<action, hasEvidence, policy>>

Reject(a, approver) ==
    /\ AcceptanceWorkflow
    /\ acceptance[a].state = "proposed" /\ acceptance[a].requester # approver
    /\ acceptance' = [acceptance EXCEPT ![a].state = "rejected"]
    /\ finding' = ReopenFindingAfterAcceptanceEnded(finding, acceptance', approver)
    /\ UNCHANGED <<action, hasEvidence, policy>>

Withdraw(a, caller) ==
    /\ AcceptanceWorkflow
    /\ acceptance[a].state \in LiveStates
    /\ acceptance' = [acceptance EXCEPT ![a].state = "withdrawn"]
    /\ finding' = ReopenFindingAfterAcceptanceEnded(finding, acceptance', caller)
    /\ UNCHANGED <<action, hasEvidence, policy>>

\* CURRENT_DATE passes the row's expires_at.
Lapse(a) ==
    /\ acceptance[a].state \in {"proposed", "approved"} /\ ~acceptance[a].lapsed
    /\ acceptance' = [acceptance EXCEPT ![a].lapsed = TRUE]
    /\ UNCHANGED <<finding, action, hasEvidence, policy>>

\* Variant: the sweep reads the acceptances only, as before exceptions existed.
DueAcceptances ==
    {a \in Acceptances :
        acceptance[a].state = "approved" /\ acceptance[a].lapsed /\ acceptance[a].kind = "acceptance"}

Due == {a \in Acceptances : acceptance[a].state = "approved" /\ acceptance[a].lapsed}

\* The rows the worker's SELECT returned expire together.
ExpireRows(rows) ==
    /\ AcceptanceWorkflow /\ rows # {}
    /\ acceptance' = [a \in Acceptances |->
                         IF a \in rows THEN [acceptance[a] EXCEPT !.state = "expired"] ELSE acceptance[a]]
    /\ finding' = IF \E a \in rows : acceptance[a].kind = "acceptance"
                  THEN ReopenFindingAfterAcceptanceEnded(finding, acceptance', NoOne)
                  ELSE finding
    /\ UNCHANGED <<action, hasEvidence, policy>>

\* riskAcceptanceExpiryWorker: one transaction per organization.
SweepExpiredAcceptances == ExpireRows(Due)

-----------------------------------------------------------------------------
NewFinding ==
    [status |-> "open", operational |-> "open", decision |-> "needs_review", reviewer |-> NoOne,
     logged |-> "open", loggedDecision |-> "needs_review", remediator |-> NoOne]

\* What the backfill of 20260906/20260907 left: a finding accepted before the
\* workflow existed, held by an unverified acceptance.
LegacyAcceptedFinding ==
    [NewFinding EXCEPT !.status = "accepted", !.operational = "closed", !.decision = "accepted_risk",
                       !.logged = "closed", !.loggedDecision = "accepted_risk"]

Init ==
    /\ action = [a \in Actions |-> "none"]
    /\ hasEvidence = FALSE
    /\ policy \in Policies
    /\ \/ /\ finding = NewFinding
          /\ acceptance = [a \in Acceptances |-> NoAcceptance]
       \/ /\ finding = LegacyAcceptedFinding
          /\ \E l \in Acceptances :
                acceptance = [a \in Acceptances |->
                                 IF a = l THEN [NoAcceptance EXCEPT !.state = "legacy_unverified"] ELSE NoAcceptance]

DecisionWrites == IF DecisionWorkspace THEN DecisionStates \cup {Unset} ELSE {Unset}

Next ==
    \/ \E a \in Actions, c \in Callers :
          \/ CreateAction(a, c)
          \/ \E s \in ActionStatuses : UpdateAction(a, s, c)
          \/ UnblockAction(a, c)
    \/ \E c \in EvidenceCallers : AttachEvidence(c)
    \/ \E a \in AutoActions : GenerateAction(a)
    \/ \E p \in Policies : PutRiskSettings(p)
    \/ \E c \in Callers, target \in DecisionWrites :
          \/ \E legacy \in LegacyWrites \cup {Unset} : PatchFinding(c, legacy, target)
          \/ target # Unset /\ BulkDecide(c, target)
    \/ \E a \in Acceptances :
          \/ \E k \in {"acceptance", "exception"}, u \in Users, l \in BOOLEAN : Propose(a, k, u, l)
          \/ \E u \in Users : Approve(a, u) \/ Reject(a, u)
          \/ \E c \in Callers : Withdraw(a, c)
          \/ Lapse(a)
    \/ SweepExpiredAcceptances

\* The expiry worker runs on an interval, for as long as the engine runs;
\* nobody is obliged to send a request.
Spec == Init /\ [][Next]_vars /\ WF_vars(SweepExpiredAcceptances)

-----------------------------------------------------------------------------
(***************************************************************************)
(* Properties.                                                             *)
(***************************************************************************)

\* No handler leaves the two closure axes apart: the statements that write them
\* never meet the findings_closure_axes_agree CHECK, save the legacy write that
\* PatchFinding refuses.
ClosureAxesAgree == AxesAgree(finding.operational, finding.status)

\* The stored operational status is what the derivation gives for the stored
\* inputs, whatever handler wrote last, up to the two inputs that change
\* without a recompute: the evidence gate's policy and the action the matcher
\* links to an existing finding.
OperationalStatusIsDerived ==
    \E gated \in IF hasEvidence THEN {FALSE} ELSE BOOLEAN,
       unseen \in SUBSET {a \in AutoActions : action[a] = "open"} :
          finding.operational =
              DeriveOperationalStatus({action[a] : a \in Actions \ unseen} \ {"none"}, gated,
                                      finding.decision, finding.status, Binding(acceptance))

\* Replaying finding_lifecycle_events gives the row's decision, and its
\* operational status too, but for a reopen that comes to rest on `open`: the
\* statement that clears the closure is not a recompute and writes no event.
LifecycleStreamKeepsUp ==
    /\ finding.loggedDecision = finding.decision
    /\ finding.logged # finding.operational =>
          finding.logged = "closed" /\ finding.operational = "open"

\* With the workflow on, a finding reads accepted_risk only while a row of the
\* acceptance workflow (or of its backfill) stands behind the decision.
AcceptedRiskHasRecord ==
    AcceptanceWorkflow /\ finding.decision = "accepted_risk" =>
        \E a \in Acceptances :
            acceptance[a].kind = "acceptance" /\ acceptance[a].state \in {"approved", "legacy_unverified"}

\* If the finding is remediated and the organization separates the duties, its
\* reviewer is an administrator whom the close gate will not refuse, when there
\* is one.
ReviewerMayClose ==
    (IndependentReview /\ policy.closureSod /\ finding.operational = "remediated") =>
        \/ finding.reviewer \in Admins \ {finding.remediator}
        \/ Admins \subseteq {finding.remediator}

\* A step that ends in a finding routed to nobody who may close it either found
\* the finding remediated and left its reviewer and its remediator alone (the
\* policy was turned on over it, or it was so before), or is a legacy write over
\* finished actions, the one path that makes a finding remediated and assigns
\* nobody.  Whoever else remediates routes, a reviewer who remediates included.
RemediationIsRouted ==
    [][~ReviewerMayClose' =>
          \/ /\ finding.operational = "remediated"
             /\ finding'.reviewer = finding.reviewer /\ finding'.remediator = finding.remediator
          \/ /\ finding.operational # "remediated"
             /\ \E c \in Callers, target \in DecisionWrites, legacy \in LegacyWrites \ LegacyTerminal :
                   PatchFinding(c, legacy, target)]_vars

\* Approving an exception never closes its finding.
ExceptionNeverCloses ==
    [][\A a \in Acceptances :
          /\ acceptance[a].kind = "exception" /\ acceptance[a].state = "proposed"
          /\ acceptance'[a].state = "approved" /\ finding.operational # "closed"
          => finding'.operational # "closed"]_vars

\* The end of an approved acceptance, by withdrawal or expiry, takes its finding
\* out of closure in the same step unless a person has resolved it.
EndedAcceptanceReopens ==
    [][\A a \in Acceptances :
          /\ acceptance[a].kind = "acceptance" /\ acceptance[a].state = "approved"
          /\ acceptance'[a].state \in {"withdrawn", "expired"}
          => (finding'.operational = "closed" <=> finding'.decision = "resolved")]_vars

\* A governance reopen does not spring shut: only a binding acceptance can hold
\* the finding closed through it.
ReopenOpens ==
    [][finding.decision = "resolved" /\ finding'.decision = "needs_review"
          => finding'.operational # "closed" \/ Binding(acceptance)]_vars

\* With the closure gate on, a finding closes over unfinished remediation only
\* under a binding acceptance or out of accepted_risk; an action the matcher
\* linked and nobody started is not seen by the governance axis.
ClosureNeedsCompletion ==
    [][ClosureGate /\ finding.operational # "closed" /\ finding'.operational = "closed"
          => \/ \A a \in OpenActions : a \in AutoActions /\ action[a] = "open"
             \/ Binding(acceptance')
             \/ finding.decision = "accepted_risk"]_vars

\* A lapsed acceptance or exception does not stay approved: the sweep ends it
\* even when nobody touches the finding again.
LapsedAcceptanceEnds ==
    \A a \in Acceptances :
        acceptance[a].state = "approved" /\ acceptance[a].lapsed
            ~> acceptance[a].state \in {"expired", "withdrawn"}

=============================================================================
