---------------------- MODULE FindingGovernanceProofs -----------------------
(***************************************************************************)
(* What holds of FindingGovernance for every value of its constants.       *)
(*                                                                         *)
(* The argument: a GoodRow is a finding whose axes agree and whose event   *)
(* stream keeps up with it.  Every write of a handler maps a GoodRow to a  *)
(* GoodRow, and the recompute, the last write of each of them, leaves the  *)
(* derived status behind.                                                  *)
(***************************************************************************)
EXTENDS FindingGovernance, TLAPS

GoodRow(f) ==
    /\ f \in FindingRows
    /\ AxesAgree(f.operational, f.status)
    /\ f.loggedDecision = f.decision
    /\ f.logged # f.operational => f.logged = "closed" /\ f.operational = "open"

PolicyRows == [evidenceGate : BOOLEAN, closureSod : BOOLEAN]

-----------------------------------------------------------------------------
\* The machine.

LEMMA DeriveType ==
    ASSUME NEW linked, NEW gated, NEW decision, NEW legacy, NEW binding
    PROVE  DeriveOperationalStatus(linked, gated, decision, legacy, binding) \in OperationalStatuses
BY DEF DeriveOperationalStatus, WorkflowStatus, OperationalStatuses

\* The derivation says `closed` exactly when something holds the finding closed.
LEMMA DeriveClosed ==
    ASSUME NEW linked, NEW gated, NEW decision, NEW legacy, NEW binding
    PROVE  DeriveOperationalStatus(linked, gated, decision, legacy, binding) = "closed"
               <=> ClosureHolds(decision, legacy, binding)
BY DEF DeriveOperationalStatus, WorkflowStatus

LEMMA ProjectionAgrees ==
    ASSUME NEW operational \in OperationalStatuses, NEW legacy \in LegacyStatuses
    PROVE  /\ ProjectLegacyStatusOnClosureChange(operational, legacy) \in LegacyStatuses
           /\ AxesAgree(operational, ProjectLegacyStatusOnClosureChange(operational, legacy))
           /\ LegacyStatusFor(operational) \in LegacyStatuses
           /\ AxesAgree(operational, LegacyStatusFor(operational))
BY DEF OperationalStatuses, LegacyStatuses, LegacyTerminal, AxesAgree,
       ProjectLegacyStatusOnClosureChange, LegacyStatusFor

-----------------------------------------------------------------------------
\* The writes.

LEMMA SetDecisionGood ==
    ASSUME NEW f, GoodRow(f), NEW to \in DecisionStates
    PROVE  GoodRow(SetDecision(f, to)) /\ SetDecision(f, to).decision = to
BY DEF GoodRow, SetDecision, FindingRows

LEMMA ClearClosureGood ==
    ASSUME NEW f, GoodRow(f)
    PROVE  /\ GoodRow(ClearClosure(f))
           /\ ClearClosure(f).decision = f.decision
           /\ ClearClosure(f).status \notin LegacyTerminal
BY DEF GoodRow, ClearClosure, FindingRows, AxesAgree, LegacyTerminal, LegacyStatuses, OperationalStatuses

LEMMA LogOperationalGood ==
    ASSUME NEW f \in FindingRows, AxesAgree(f.operational, f.status), f.loggedDecision = f.decision,
           NEW caller \in Callers
    PROVE  /\ GoodRow(LogOperational(f, f.operational, caller))
           /\ LogOperational(f, f.operational, caller).operational = f.operational
           /\ LogOperational(f, f.operational, caller).status = f.status
           /\ LogOperational(f, f.operational, caller).decision = f.decision
BY DEF GoodRow, LogOperational, FindingRows

LEMMA AssignReviewerGood ==
    ASSUME NEW f, GoodRow(f), NEW remediator
    PROVE  LET r == AssignIndependentReviewerIfNeeded(f, remediator)
           IN  GoodRow(r) /\ r.operational = f.operational /\ r.status = f.status /\ r.decision = f.decision
<1> DEFINE reviewer == ChooseReviewer(remediator)
<1>1. reviewer \in Admins \cup {NoOne}
  BY DEF ChooseReviewer
<1>2. CASE AssignIndependentReviewerIfNeeded(f, remediator) = f
  BY <1>2
<1>3. CASE AssignIndependentReviewerIfNeeded(f, remediator) = [f EXCEPT !.reviewer = reviewer]
  <2> HIDE DEF reviewer
  <2> QED BY <1>1, <1>3 DEF GoodRow, FindingRows
<1> QED
  BY <1>2, <1>3 DEF AssignIndependentReviewerIfNeeded

\* The recompute leaves a good row whose status is the derived one, whose
\* decision is untouched, and over which deriving again changes nothing.
LEMMA RecomputeGood ==
    ASSUME NEW f, GoodRow(f), NEW acts, NEW evidence, NEW accs,
           NEW caller \in Callers, NEW projectLegacy \in BOOLEAN
    PROVE  LET r == RecomputeFindingOperationalStatus(f, acts, evidence, accs, caller, projectLegacy)
           IN  /\ GoodRow(r)
               /\ r.decision = f.decision
               /\ r.operational = Derived(f, acts, evidence, accs)
               /\ r.operational = Derived(r, acts, evidence, accs)
<1> DEFINE to     == Derived(f, acts, evidence, accs)
           legacy == IF projectLegacy THEN LegacyStatusFor(to)
                     ELSE ProjectLegacyStatusOnClosureChange(to, f.status)
           g      == [f EXCEPT !.operational = to, !.status = legacy]
           moved  == LogOperational(g, to, caller)
           r      == RecomputeFindingOperationalStatus(f, acts, evidence, accs, caller, projectLegacy)
<1>1. to \in OperationalStatuses
  BY DeriveType DEF Derived
<1>2. f.status \in LegacyStatuses
  BY DEF GoodRow, FindingRows
<1>3. legacy \in LegacyStatuses /\ AxesAgree(to, legacy)
  BY <1>1, <1>2, ProjectionAgrees
<1>4. g \in FindingRows /\ g.operational = to /\ g.status = legacy
      /\ g.decision = f.decision /\ g.loggedDecision = f.loggedDecision
  <2> HIDE DEF to, legacy
  <2> QED BY <1>1, <1>3 DEF GoodRow, FindingRows
<1>5. GoodRow(moved) /\ moved.operational = to /\ moved.status = legacy /\ moved.decision = f.decision
  <2> HIDE DEF to, legacy, g
  <2> QED BY <1>3, <1>4, LogOperationalGood DEF GoodRow
<1>6. Derived(moved, acts, evidence, accs) = to
  <2>1. CASE to = "closed"
    <3>1. legacy \in LegacyTerminal
      BY <1>3, <2>1 DEF AxesAgree
    <3> QED BY <1>5, <2>1, <3>1, DeriveClosed DEF Derived, ClosureHolds
  <2>2. CASE to # "closed"
    <3>1. legacy \notin LegacyTerminal
      BY <1>3, <2>2 DEF AxesAgree
    <3>2. ~ClosureHolds(f.decision, f.status, Binding(accs))
      BY <2>2, DeriveClosed DEF Derived
    <3>3. ~ClosureHolds(moved.decision, moved.status, Binding(accs))
      <4> HIDE DEF moved, legacy
      <4> QED BY <1>5, <3>1, <3>2 DEF ClosureHolds
    <3> HIDE DEF moved
    <3> QED BY <3>2, <3>3 DEF Derived, DeriveOperationalStatus
  <2> QED BY <2>1, <2>2
<1>7. CASE to = f.operational
  <2>1. r = f
    BY <1>7 DEF RecomputeFindingOperationalStatus
  <2> QED BY <1>7, <2>1
<1>8. CASE to # f.operational
  <2> HIDE DEF to, legacy, g
  <2>1. r \in {moved, AssignIndependentReviewerIfNeeded(moved, caller)}
    BY <1>8 DEF RecomputeFindingOperationalStatus, to, legacy, g
  <2> HIDE DEF r, moved
  <2>2. /\ GoodRow(r) /\ r.operational = moved.operational
        /\ r.status = moved.status /\ r.decision = moved.decision
    BY <1>5, <2>1, AssignReviewerGood
  <2>3. Derived(r, acts, evidence, accs) = Derived(moved, acts, evidence, accs)
    BY <2>2 DEF Derived
  <2>4. r.operational = Derived(f, acts, evidence, accs)
    BY <1>5, <2>2 DEF to
  <2> QED BY <1>5, <1>6, <2>2, <2>3, <2>4 DEF r, to
<1> QED
  BY <1>7, <1>8

LEMMA ApplyLegacyGood ==
    ASSUME NEW f, GoodRow(f), NEW new \in LegacyStatuses, NEW accs, NEW caller \in Callers,
           AxesAgree(ApplyLegacyStatus(f, new, accs, caller).operational, ApplyLegacyStatus(f, new, accs, caller).status)
    PROVE  /\ GoodRow(ApplyLegacyStatus(f, new, accs, caller))
           /\ ApplyLegacyStatus(f, new, accs, caller).decision = f.decision
<1> DEFINE to    == Derived([f EXCEPT !.status = new], action, hasEvidence, accs)
           moved == [f EXCEPT !.status = new, !.operational = to]
           r     == ApplyLegacyStatus(f, new, accs, caller)
<1>1. to \in OperationalStatuses
  BY DeriveType DEF Derived
<1>2. /\ moved \in FindingRows /\ moved.operational = to /\ moved.status = new
      /\ moved.decision = f.decision /\ moved.loggedDecision = f.loggedDecision /\ moved.logged = f.logged
  <2> HIDE DEF to
  <2> QED BY <1>1 DEF GoodRow, FindingRows
<1>3. CASE to = f.operational
  <2>1. r = moved
    BY <1>3 DEF ApplyLegacyStatus
  <2> HIDE DEF to, moved, r
  <2> QED BY <1>2, <1>3, <2>1 DEF GoodRow, r
<1>4. CASE to # f.operational
  <2>1. r = LogOperational(moved, to, caller)
    BY <1>4 DEF ApplyLegacyStatus
  <2>2. r.operational = to /\ r.status = new
    <3> HIDE DEF to, moved
    <3> QED BY <1>2, <2>1 DEF LogOperational, FindingRows
  <2>3. AxesAgree(moved.operational, moved.status)
    <3> HIDE DEF to, moved
    <3> QED BY <1>2, <2>2 DEF r
  <2> HIDE DEF to, moved, r
  <2> QED BY <1>2, <2>1, <2>3, LogOperationalGood DEF GoodRow, r
<1> QED BY <1>3, <1>4

LEMMA ApplyDecisionGood ==
    ASSUME NEW f, GoodRow(f), NEW transition, NEW target,
           transition \notin {"none", "noop"} => target \in DecisionStates
    PROVE  LET r == ApplyDecision(f, transition, target)
           IN  /\ GoodRow(r)
               /\ r.decision = IF transition \in {"none", "noop"} THEN f.decision ELSE target
               /\ transition = "reopen" => r.status \notin LegacyTerminal
<1>1. CASE transition \in {"none", "noop"}
  BY <1>1 DEF ApplyDecision
<1>2. CASE transition = "reopen"
  <2>1. GoodRow(SetDecision(f, target)) /\ SetDecision(f, target).decision = target
    BY <1>2, SetDecisionGood
  <2> QED BY <1>2, <2>1, ClearClosureGood DEF ApplyDecision
<1>3. CASE transition \notin {"none", "noop", "reopen"}
  BY <1>3, SetDecisionGood DEF ApplyDecision
<1> QED BY <1>1, <1>2, <1>3

-----------------------------------------------------------------------------
\* The steps.

\* A partial unique index, and with it the approval: one live row per kind.
OneLivePerKind ==
    \A a, b \in Acceptances :
        /\ acceptance[a].state \in LiveStates /\ acceptance[b].state \in LiveStates
        /\ acceptance[a].kind = acceptance[b].kind
        => a = b

FindingGood == GoodRow(finding)

IInv ==
    /\ TypeOK
    /\ FindingGood
    /\ OperationalStatusIsDerived
    /\ OneLivePerKind
    /\ AcceptedRiskHasRecord

\* A step whose last write is the recompute re-establishes what the invariant
\* says of the finding.
LEMMA RecomputeStep ==
    ASSUME NEW f, GoodRow(f), NEW caller \in Callers, NEW projectLegacy \in BOOLEAN,
           policy \in PolicyRows, hasEvidence' \in BOOLEAN,
           finding' = RecomputeFindingOperationalStatus(f, action', hasEvidence', acceptance', caller, projectLegacy)
    PROVE  /\ FindingGood'
           /\ OperationalStatusIsDerived'
           /\ finding'.decision = f.decision
           /\ finding'.operational = "closed" <=> ClosureHolds(f.decision, f.status, Binding(acceptance'))
<1>1. /\ GoodRow(finding') /\ finding'.decision = f.decision
      /\ finding'.operational = Derived(f, action', hasEvidence', acceptance')
      /\ finding'.operational = Derived(finding', action', hasEvidence', acceptance')
  BY RecomputeGood
<1>2. OperationalStatusIsDerived'
  <2> DEFINE gated == policy.evidenceGate /\ ~hasEvidence'
  <2>1. gated \in IF hasEvidence' THEN {FALSE} ELSE BOOLEAN
    BY DEF PolicyRows
  <2>2. {action'[a] : a \in Actions \ {}} \ {"none"} = Linked(action')
    BY DEF Linked
  <2>3. finding'.operational =
            DeriveOperationalStatus({action'[a] : a \in Actions \ {}} \ {"none"}, gated,
                                    finding'.decision, finding'.status, Binding(acceptance'))
    BY <1>1, <2>2 DEF Derived
  <2>4. {} \in SUBSET {a \in AutoActions : action'[a] = "open"}
    OBVIOUS
  <2> HIDE DEF gated
  <2>5. \E g \in IF hasEvidence' THEN {FALSE} ELSE BOOLEAN,
           unseen \in SUBSET {a \in AutoActions : action'[a] = "open"} :
              finding'.operational =
                  DeriveOperationalStatus({action'[a] : a \in Actions \ unseen} \ {"none"}, g,
                                          finding'.decision, finding'.status, Binding(acceptance'))
    BY <2>1, <2>3, <2>4
  <2> QED BY <2>5 DEF OperationalStatusIsDerived, Binding
<1>3. finding'.operational = "closed" <=> ClosureHolds(f.decision, f.status, Binding(acceptance'))
  BY <1>1, DeriveClosed DEF Derived
<1> QED BY <1>1, <1>2, <1>3 DEF FindingGood

\* So does a step that ends an acceptance; it leaves no accepted_risk behind,
\* and only governance or a binding acceptance keeps the finding closed.
LEMMA ReopenStep ==
    ASSUME FindingGood, NEW caller \in Callers, policy \in PolicyRows, hasEvidence \in BOOLEAN,
           UNCHANGED <<action, hasEvidence, policy>>,
           finding' = ReopenFindingAfterAcceptanceEnded(finding, acceptance', caller)
    PROVE  /\ FindingGood'
           /\ OperationalStatusIsDerived'
           /\ finding'.decision = IF finding.decision = "accepted_risk" THEN "needs_review" ELSE finding.decision
           /\ finding'.operational = "closed" <=> finding'.decision = "resolved" \/ Binding(acceptance')
<1> DEFINE cleared == ClearClosure(finding)
           reset   == ReleaseClosure(finding)
<1>1. GoodRow(cleared) /\ cleared.decision = finding.decision /\ cleared.status \notin LegacyTerminal
  BY ClearClosureGood DEF FindingGood
<1>2. /\ GoodRow(reset) /\ reset.status = cleared.status
      /\ reset.decision = IF finding.decision = "accepted_risk" THEN "needs_review" ELSE finding.decision
  <2> HIDE DEF cleared
  <2>1. "needs_review" \in DecisionStates
    BY DEF DecisionStates
  <2>2. SetDecision(cleared, "needs_review").status = cleared.status
    BY <1>1 DEF SetDecision, GoodRow, FindingRows
  <2>3. reset = IF finding.decision = "accepted_risk" THEN SetDecision(cleared, "needs_review") ELSE cleared
    BY DEF ReleaseClosure, cleared
  <2> HIDE DEF reset
  <2> QED BY <1>1, <2>1, <2>2, <2>3, SetDecisionGood
<1>3. finding' = RecomputeFindingOperationalStatus(reset, action', hasEvidence', acceptance', caller, FALSE)
  BY DEF ReopenFindingAfterAcceptanceEnded
<1> HIDE DEF cleared, reset
<1>4. /\ FindingGood' /\ OperationalStatusIsDerived' /\ finding'.decision = reset.decision
      /\ finding'.operational = "closed" <=> ClosureHolds(reset.decision, reset.status, Binding(acceptance'))
  BY <1>2, <1>3, RecomputeStep
<1> QED BY <1>1, <1>2, <1>4 DEF ClosureHolds

LEMMA CascadeStep ==
    ASSUME IInv, NEW caller \in Callers, action' \in [Actions -> ActionStatuses \cup {"none"}],
           hasEvidence' \in BOOLEAN, UNCHANGED <<acceptance, policy>>, Cascade(caller)
    PROVE  IInv' /\ finding'.decision = finding.decision
<1>1. /\ FindingGood' /\ OperationalStatusIsDerived' /\ finding'.decision = finding.decision
  <2>1. finding' = RecomputeFindingOperationalStatus(finding, action', hasEvidence', acceptance', caller, FALSE)
    BY DEF Cascade
  <2> QED BY <2>1, RecomputeStep DEF IInv, FindingGood, TypeOK, PolicyRows
<1>2. TypeOK'
  BY <1>1 DEF IInv, TypeOK, FindingGood, GoodRow
<1>3. OneLivePerKind'
  BY DEF IInv, OneLivePerKind
<1>4. AcceptedRiskHasRecord'
  BY <1>1 DEF IInv, AcceptedRiskHasRecord
<1> QED BY <1>1, <1>2, <1>3, <1>4 DEF IInv

\* The matcher's action only adds to what the stored status does not see.
LEMMA GenerateActionStep ==
    ASSUME IInv, NEW a \in AutoActions, GenerateAction(a)
    PROVE  IInv'
<1>1. a \in Actions /\ action[a] = "none" /\ action' = [action EXCEPT ![a] = "open"]
      /\ UNCHANGED <<finding, hasEvidence, acceptance, policy>>
  BY ActionsAssumption DEF GenerateAction
<1>2. TypeOK'
  BY <1>1 DEF IInv, TypeOK, ActionStatuses
<1>3. OperationalStatusIsDerived'
  <2>1. PICK gated \in IF hasEvidence THEN {FALSE} ELSE BOOLEAN,
             unseen \in SUBSET {b \in AutoActions : action[b] = "open"} :
                finding.operational =
                    DeriveOperationalStatus({action[b] : b \in Actions \ unseen} \ {"none"}, gated,
                                            finding.decision, finding.status, Binding(acceptance))
    BY DEF IInv, OperationalStatusIsDerived
  <2> DEFINE unseen2 == unseen \cup {a}
  <2>2. unseen2 \in SUBSET {b \in AutoActions : action'[b] = "open"}
    BY <1>1, ActionsAssumption DEF IInv, TypeOK
  <2>3. {action'[b] : b \in Actions \ unseen2} \ {"none"} = {action[b] : b \in Actions \ unseen} \ {"none"}
    <3>1. \A b \in Actions \ unseen2 : action'[b] = action[b]
      BY <1>1 DEF IInv, TypeOK
    <3> QED BY <1>1, <3>1
  <2> HIDE DEF unseen2
  <2> QED BY <1>1, <2>1, <2>2, <2>3 DEF OperationalStatusIsDerived, Binding
<1> QED
  BY <1>1, <1>2, <1>3 DEF IInv, FindingGood, OneLivePerKind, AcceptedRiskHasRecord

\* The stored status stays derived under a step that writes neither the finding
\* nor its inputs, and leaves what holds the finding closed as it was.
LEMMA StatusStaysDerived ==
    ASSUME OperationalStatusIsDerived, UNCHANGED <<finding, action, hasEvidence>>,
           ClosureHolds(finding.decision, finding.status, Binding(acceptance'))
               <=> ClosureHolds(finding.decision, finding.status, Binding(acceptance))
    PROVE  OperationalStatusIsDerived'
<1>1. PICK gated \in IF hasEvidence THEN {FALSE} ELSE BOOLEAN,
           unseen \in SUBSET {b \in AutoActions : action[b] = "open"} :
              finding.operational =
                  DeriveOperationalStatus({action[b] : b \in Actions \ unseen} \ {"none"}, gated,
                                          finding.decision, finding.status, Binding(acceptance))
  BY DEF OperationalStatusIsDerived
<1> DEFINE linked == {action[b] : b \in Actions \ unseen} \ {"none"}
           held   == Binding(acceptance)
           holds  == Binding(acceptance')
<1>2. DeriveOperationalStatus(linked, gated, finding.decision, finding.status, held)
          = DeriveOperationalStatus(linked, gated, finding.decision, finding.status, holds)
  <2> HIDE DEF linked
  <2> QED BY DEF DeriveOperationalStatus
<1>3. /\ gated \in IF hasEvidence' THEN {FALSE} ELSE BOOLEAN
      /\ unseen \in SUBSET {b \in AutoActions : action'[b] = "open"}
  OBVIOUS
<1>4. {action'[b] : b \in Actions \ unseen} \ {"none"} = linked
  OBVIOUS
<1>5. finding'.operational =
          DeriveOperationalStatus({action'[b] : b \in Actions \ unseen} \ {"none"}, gated,
                                  finding'.decision, finding'.status, Binding(acceptance'))
  <2>1. finding'.operational = DeriveOperationalStatus(linked, gated, finding.decision, finding.status, holds)
    <3> HIDE DEF linked, holds
    <3> QED BY <1>1, <1>2 DEF linked
  <2> HIDE DEF linked
  <2> QED BY <1>4, <2>1
<1>6. \E g \in IF hasEvidence' THEN {FALSE} ELSE BOOLEAN,
         unseen2 \in SUBSET {b \in AutoActions : action'[b] = "open"} :
            finding'.operational =
                DeriveOperationalStatus({action'[b] : b \in Actions \ unseen2} \ {"none"}, g,
                                        finding'.decision, finding'.status, Binding(acceptance'))
  BY <1>3, <1>5
<1> QED BY <1>6 DEF OperationalStatusIsDerived, Binding

LEMMA PutRiskSettingsStep ==
    ASSUME IInv, NEW p \in Policies, PutRiskSettings(p)
    PROVE  IInv'
<1>1. policy' \in [evidenceGate : BOOLEAN, closureSod : BOOLEAN]
      /\ UNCHANGED <<finding, action, hasEvidence, acceptance>>
  BY PolicyAssumption DEF PutRiskSettings
<1>2. TypeOK'
  BY <1>1 DEF IInv, TypeOK
<1>3. OperationalStatusIsDerived'
  BY <1>1, StatusStaysDerived DEF IInv
<1> QED
  BY <1>1, <1>2, <1>3 DEF IInv, FindingGood, OneLivePerKind, AcceptedRiskHasRecord

\* The action of ReopenOpens.
ReopenedIsOpen ==
    finding.decision = "resolved" /\ finding'.decision = "needs_review"
        => finding'.operational # "closed" \/ Binding(acceptance)

\* A decision a handler applies is the body's, and never accepted_risk while
\* the workflow is on.
LEMMA DecideStep ==
    ASSUME IInv, NEW f, GoodRow(f), f.decision = finding.decision, NEW caller \in Callers,
           NEW target \in DecisionWrites, NEW legacy, ~DirectRiskAcceptanceBlocked(legacy, target),
           UNCHANGED <<action, hasEvidence, acceptance, policy>>,
           finding' = RecomputeFindingOperationalStatus(
                          ApplyDecision(f, Transition(target, caller), target),
                          action, hasEvidence, acceptance, caller, Transition(target, caller) = "reopen")
    PROVE  IInv' /\ ReopenedIsOpen
<1> DEFINE transition == Transition(target, caller)
           decided    == ApplyDecision(f, transition, target)
<1>1. transition \notin {"none", "noop"} => target \in DecisionStates
  BY DEF Transition, DecisionWrites
<1>2. /\ GoodRow(decided)
      /\ decided.decision = IF transition \in {"none", "noop"} THEN f.decision ELSE target
      /\ transition = "reopen" => decided.status \notin LegacyTerminal
  BY <1>1, ApplyDecisionGood
<1>3. /\ FindingGood' /\ OperationalStatusIsDerived' /\ finding'.decision = decided.decision
      /\ finding'.operational = "closed" <=> ClosureHolds(decided.decision, decided.status, Binding(acceptance'))
  <2>1. finding' = RecomputeFindingOperationalStatus(decided, action', hasEvidence', acceptance', caller,
                                                     transition = "reopen")
    OBVIOUS
  <2> HIDE DEF decided, transition
  <2>2. policy \in PolicyRows /\ hasEvidence' \in BOOLEAN /\ (transition = "reopen") \in BOOLEAN
    BY DEF IInv, TypeOK, PolicyRows
  <2> QED BY <1>2, <2>1, <2>2, RecomputeStep
<1>4. AcceptedRiskHasRecord'
  <2>1. AcceptanceWorkflow /\ finding'.decision = "accepted_risk" => finding.decision = "accepted_risk"
    BY <1>2, <1>3 DEF DirectRiskAcceptanceBlocked
  <2> QED BY <2>1 DEF IInv, AcceptedRiskHasRecord
<1>5. TypeOK'
  BY <1>3 DEF IInv, TypeOK, FindingGood, GoodRow
<1>6. OneLivePerKind'
  BY DEF IInv, OneLivePerKind
<1>7. ReopenedIsOpen
  <2> SUFFICES ASSUME finding.decision = "resolved", finding'.decision = "needs_review"
               PROVE  finding'.operational # "closed" \/ Binding(acceptance)
    BY DEF ReopenedIsOpen
  <2>1. target = "needs_review" /\ transition \notin {"none", "noop"}
    BY <1>2, <1>3
  <2>2. transition = "reopen"
    <3>1. transition = EvaluateFindingDecisionTransition(finding.decision, target, finding.operational,
                                                         Linked(action) # {}, SodRefuses(caller))
      BY <2>1 DEF Transition, Unset
    <3> HIDE DEF transition
    <3> QED BY <2>1, <3>1 DEF EvaluateFindingDecisionTransition
  <2> HIDE DEF decided, transition
  <2>3. decided.decision = "needs_review" /\ decided.status \notin LegacyTerminal
    BY <1>2, <2>1, <2>2
  <2> QED BY <1>3, <2>3 DEF ClosureHolds, Binding
<1> QED BY <1>3, <1>4, <1>5, <1>6, <1>7 DEF IInv

LEMMA PatchFindingStep ==
    ASSUME IInv, NEW caller \in Callers, NEW legacy \in LegacyWrites \cup {Unset},
           NEW target \in DecisionWrites, PatchFinding(caller, legacy, target)
    PROVE  IInv' /\ ReopenedIsOpen
<1> DEFINE written == IF legacy = Unset THEN finding ELSE ApplyLegacyStatus(finding, legacy, acceptance, caller)
<1>1. GoodRow(written) /\ written.decision = finding.decision
  <2>1. CASE legacy = Unset
    BY <2>1 DEF IInv, FindingGood
  <2>2. CASE legacy # Unset
    <3>1. legacy \in LegacyStatuses
      BY <2>2, WritesAssumption
    <3>2. AxesAgree(ApplyLegacyStatus(finding, legacy, acceptance, caller).operational,
                    ApplyLegacyStatus(finding, legacy, acceptance, caller).status)
      BY <2>2 DEF PatchFinding
    <3> QED BY <2>2, <3>1, <3>2, ApplyLegacyGood DEF IInv, FindingGood
  <2> QED BY <2>1, <2>2
<1>2. /\ ~DirectRiskAcceptanceBlocked(legacy, target)
      /\ UNCHANGED <<action, hasEvidence, acceptance, policy>>
      /\ finding' = RecomputeFindingOperationalStatus(
                        ApplyDecision(written, Transition(target, caller), target),
                        action, hasEvidence, acceptance, caller, Transition(target, caller) = "reopen")
  BY DEF PatchFinding
<1> HIDE DEF written
<1> QED BY <1>1, <1>2, DecideStep

LEMMA BulkDecideStep ==
    ASSUME IInv, NEW caller \in Callers, NEW target \in DecisionWrites, BulkDecide(caller, target)
    PROVE  IInv' /\ ReopenedIsOpen
<1>1. /\ ~DirectRiskAcceptanceBlocked(Unset, target)
      /\ UNCHANGED <<action, hasEvidence, acceptance, policy>>
      /\ finding' = RecomputeFindingOperationalStatus(
                        ApplyDecision(finding, Transition(target, caller), target),
                        action, hasEvidence, acceptance, caller, Transition(target, caller) = "reopen")
  BY DEF BulkDecide
<1> QED BY <1>1, DecideStep DEF IInv, FindingGood

-----------------------------------------------------------------------------
\* The acceptance workflow.

LEMMA ProposeStep ==
    ASSUME IInv, NEW a \in Acceptances, NEW kind \in {"acceptance", "exception"},
           NEW requester \in Users, NEW lapsed \in BOOLEAN, Propose(a, kind, requester, lapsed)
    PROVE  IInv'
<1> DEFINE row == [state |-> "proposed", kind |-> kind, requester |-> requester, lapsed |-> lapsed]
<1>1. /\ acceptance[a].state = "none"
      /\ \A b \in Acceptances : acceptance[b].kind = kind => acceptance[b].state \notin LiveStates
      /\ acceptance' = [acceptance EXCEPT ![a] = row]
      /\ UNCHANGED <<finding, action, hasEvidence, policy>>
  BY DEF Propose
<1>2. row \in AcceptanceRows /\ row.state = "proposed" /\ row.kind = kind
  BY DEF AcceptanceRows, AcceptanceStates, Callers
<1> HIDE DEF row
<1>3. acceptance \in [Acceptances -> AcceptanceRows]
  BY DEF IInv, TypeOK
<1>4. acceptance'[a] = row /\ \A b \in Acceptances \ {a} : acceptance'[b] = acceptance[b]
  BY <1>1, <1>3
<1>5. TypeOK'
  BY <1>1, <1>2 DEF IInv, TypeOK
<1>6. Binding(acceptance') <=> Binding(acceptance)
  BY <1>1, <1>2, <1>4 DEF Binding
<1>7. OperationalStatusIsDerived'
  BY <1>1, <1>6, StatusStaysDerived DEF IInv, ClosureHolds
<1>8. OneLivePerKind'
  BY <1>1, <1>2, <1>4 DEF IInv, OneLivePerKind
<1>9. AcceptedRiskHasRecord'
  BY <1>1, <1>4 DEF IInv, AcceptedRiskHasRecord
<1> QED BY <1>1, <1>5, <1>7, <1>8, <1>9 DEF IInv, FindingGood

LEMMA LiveShrinks ==
    ASSUME OneLivePerKind,
           \A a \in Acceptances :
               /\ acceptance'[a].kind = acceptance[a].kind
               /\ acceptance'[a].state \in LiveStates => acceptance[a].state \in LiveStates
    PROVE  OneLivePerKind'
BY DEF OneLivePerKind

\* A step of the workflow that moves one row along and ends with the finding
\* good and derived.
LEMMA RowMoves ==
    ASSUME IInv, NEW a \in Acceptances, acceptance[a].state \in LiveStates,
           NEW state \in AcceptanceStates, acceptance' = [acceptance EXCEPT ![a].state = state],
           UNCHANGED <<action, hasEvidence, policy>>, FindingGood'
    PROVE  TypeOK' /\ OneLivePerKind'
<1> DEFINE row == [acceptance[a] EXCEPT !.state = state]
<1>1. acceptance \in [Acceptances -> AcceptanceRows]
  BY DEF IInv, TypeOK
<1>2. row \in AcceptanceRows /\ row.kind = acceptance[a].kind
  BY <1>1 DEF AcceptanceRows
<1>3. acceptance' = [acceptance EXCEPT ![a] = row]
  BY <1>1
<1> HIDE DEF row
<1>4. TypeOK'
  BY <1>1, <1>2, <1>3 DEF IInv, TypeOK, FindingGood, GoodRow
<1>5. OneLivePerKind'
  <2>1. \A b \in Acceptances : /\ acceptance'[b].kind = acceptance[b].kind
                               /\ acceptance'[b].state \in LiveStates => acceptance[b].state \in LiveStates
    BY <1>1, <1>2, <1>3
  <2> QED BY <2>1, LiveShrinks DEF IInv
<1> QED BY <1>4, <1>5

LEMMA ApproveStep ==
    ASSUME IInv, NEW a \in Acceptances, NEW approver \in Users, Approve(a, approver)
    PROVE  /\ IInv' /\ ReopenedIsOpen
           /\ acceptance[a].kind = "exception" /\ finding.operational # "closed"
                  => finding'.operational # "closed"
<1> DEFINE decided == AcceptRisk(finding, acceptance[a].kind)
<1>1. /\ acceptance[a].state = "proposed"
      /\ acceptance' = [acceptance EXCEPT ![a].state = "approved"]
      /\ UNCHANGED <<action, hasEvidence, policy>>
      /\ finding' = RecomputeFindingOperationalStatus(decided, action', hasEvidence', acceptance', approver, FALSE)
  BY DEF Approve
<1>2. /\ GoodRow(decided)
      /\ acceptance[a].kind # "acceptance" => decided = finding
      /\ decided.decision \in {finding.decision, "accepted_risk"}
  <2>1. "accepted_risk" \in DecisionStates
    BY DEF DecisionStates
  <2> QED BY <2>1, SetDecisionGood DEF IInv, FindingGood, AcceptRisk
<1> HIDE DEF decided
<1>3. /\ FindingGood' /\ OperationalStatusIsDerived' /\ finding'.decision = decided.decision
      /\ finding'.operational = "closed" <=> ClosureHolds(decided.decision, decided.status, Binding(acceptance'))
  <2>1. approver \in Callers /\ policy \in PolicyRows /\ hasEvidence' \in BOOLEAN
    BY <1>1 DEF Callers, PolicyRows, IInv, TypeOK
  <2> QED BY <1>1, <1>2, <2>1, RecomputeStep
<1>4. TypeOK' /\ OneLivePerKind'
  BY <1>1, <1>3, RowMoves DEF LiveStates, AcceptanceStates
<1>5. acceptance \in [Acceptances -> AcceptanceRows]
  BY DEF IInv, TypeOK
<1>6. /\ acceptance'[a].state = "approved" /\ acceptance'[a].kind = acceptance[a].kind
      /\ \A b \in Acceptances \ {a} : acceptance'[b] = acceptance[b]
  BY <1>1, <1>5 DEF AcceptanceRows
<1>7. AcceptedRiskHasRecord'
  <2>1. CASE acceptance[a].kind = "acceptance"
    BY <1>6, <2>1 DEF AcceptedRiskHasRecord
  <2>2. CASE acceptance[a].kind # "acceptance"
    BY <1>1, <1>2, <1>3, <1>6, <2>2 DEF IInv, AcceptedRiskHasRecord
  <2> QED BY <2>1, <2>2
<1>8. ASSUME acceptance[a].kind = "exception", finding.operational # "closed"
      PROVE  finding'.operational # "closed"
  <2>1. Binding(acceptance') => Binding(acceptance)
    BY <1>6, <1>8 DEF Binding
  <2>2. ~ClosureHolds(finding.decision, finding.status, Binding(acceptance))
    BY <1>8, DeriveClosed DEF IInv, OperationalStatusIsDerived
  <2> QED BY <1>2, <1>3, <1>8, <2>1, <2>2 DEF ClosureHolds
<1>9. ReopenedIsOpen
  BY <1>2, <1>3 DEF ReopenedIsOpen
<1> QED BY <1>3, <1>4, <1>7, <1>8, <1>9 DEF IInv

\* What rejection, withdrawal and the sweep share: the reopen leaves no
\* accepted_risk that would need a record.
LEMMA EndStep ==
    ASSUME IInv, NEW a \in Acceptances, acceptance[a].state \in LiveStates,
           NEW state \in AcceptanceStates, acceptance' = [acceptance EXCEPT ![a].state = state],
           NEW caller \in Callers, UNCHANGED <<action, hasEvidence, policy>>,
           finding' = ReopenFindingAfterAcceptanceEnded(finding, acceptance', caller)
    PROVE  /\ IInv' /\ ReopenedIsOpen
           /\ finding'.operational = "closed" <=> finding'.decision = "resolved" \/ Binding(acceptance')
<1>1. /\ FindingGood' /\ OperationalStatusIsDerived'
      /\ finding'.decision # "accepted_risk" /\ ReopenedIsOpen
      /\ finding'.operational = "closed" <=> finding'.decision = "resolved" \/ Binding(acceptance')
  BY ReopenStep DEF IInv, TypeOK, PolicyRows, ReopenedIsOpen
<1>2. TypeOK' /\ OneLivePerKind'
  BY <1>1, RowMoves
<1>3. AcceptedRiskHasRecord'
  BY <1>1 DEF AcceptedRiskHasRecord
<1> QED BY <1>1, <1>2, <1>3 DEF IInv

LEMMA RejectStep ==
    ASSUME IInv, NEW a \in Acceptances, NEW approver \in Users, Reject(a, approver)
    PROVE  IInv' /\ ReopenedIsOpen
BY EndStep DEF Reject, LiveStates, AcceptanceStates, Callers

LEMMA WithdrawStep ==
    ASSUME IInv, NEW a \in Acceptances, NEW caller \in Callers, Withdraw(a, caller)
    PROVE  /\ IInv' /\ ReopenedIsOpen
           /\ finding'.operational = "closed" <=> finding'.decision = "resolved" \/ Binding(acceptance')
BY EndStep DEF Withdraw, LiveStates, AcceptanceStates

\* A binding acceptance that lapses leaves behind the legacy status it projected.
LEMMA LapseStep ==
    ASSUME IInv, NEW a \in Acceptances, Lapse(a)
    PROVE  IInv'
<1> DEFINE row == [acceptance[a] EXCEPT !.lapsed = TRUE]
<1>1. acceptance \in [Acceptances -> AcceptanceRows]
  BY DEF IInv, TypeOK
<1>2. acceptance' = [acceptance EXCEPT ![a] = row] /\ UNCHANGED <<finding, action, hasEvidence, policy>>
  BY <1>1 DEF Lapse
<1>3. row \in AcceptanceRows /\ row.kind = acceptance[a].kind /\ row.state = acceptance[a].state /\ row.lapsed
  BY <1>1 DEF AcceptanceRows
<1> HIDE DEF row
<1>4. acceptance'[a] = row /\ \A b \in Acceptances \ {a} : acceptance'[b] = acceptance[b]
  BY <1>1, <1>2
<1>5. TypeOK' /\ FindingGood'
  BY <1>1, <1>2, <1>3 DEF IInv, TypeOK, FindingGood
<1>6. OneLivePerKind'
  BY <1>3, <1>4, LiveShrinks DEF IInv
<1>7. AcceptedRiskHasRecord'
  BY <1>2, <1>3, <1>4 DEF IInv, AcceptedRiskHasRecord
<1>8. OperationalStatusIsDerived'
  <2>1. Binding(acceptance') => Binding(acceptance)
    BY <1>3, <1>4 DEF Binding
  <2>2. ClosureHolds(finding.decision, finding.status, Binding(acceptance)) => finding.operational = "closed"
    BY DeriveClosed DEF IInv, OperationalStatusIsDerived
  <2>3. finding.operational = "closed" => finding.status \in LegacyTerminal
    BY DEF IInv, FindingGood, GoodRow, AxesAgree
  <2>4. ClosureHolds(finding.decision, finding.status, Binding(acceptance'))
            <=> ClosureHolds(finding.decision, finding.status, Binding(acceptance))
    BY <2>1, <2>2, <2>3 DEF ClosureHolds
  <2> QED BY <1>2, <2>4, StatusStaysDerived DEF IInv
<1> QED BY <1>5, <1>6, <1>7, <1>8 DEF IInv

LEMMA SweepStep ==
    ASSUME IInv, SweepExpiredAcceptances
    PROVE  /\ IInv' /\ ReopenedIsOpen
           /\ (\E a \in Due : acceptance[a].kind = "acceptance")
                  => (finding'.operational = "closed" <=> finding'.decision = "resolved" \/ Binding(acceptance'))
<1>1. /\ acceptance' = [a \in Acceptances |->
                          IF a \in Due THEN [acceptance[a] EXCEPT !.state = "expired"] ELSE acceptance[a]]
      /\ UNCHANGED <<action, hasEvidence, policy>>
      /\ finding' = IF \E a \in Due : acceptance[a].kind = "acceptance"
                    THEN ReopenFindingAfterAcceptanceEnded(finding, acceptance', NoOne)
                    ELSE finding
  BY DEF SweepExpiredAcceptances, ExpireRows
<1>2. acceptance \in [Acceptances -> AcceptanceRows]
  BY DEF IInv, TypeOK
<1>3. \A a \in Acceptances :
          /\ acceptance'[a] \in AcceptanceRows
          /\ acceptance'[a].kind = acceptance[a].kind
          /\ acceptance'[a].state = IF a \in Due THEN "expired" ELSE acceptance[a].state
          /\ a \notin Due => acceptance'[a] = acceptance[a]
  <2> SUFFICES ASSUME NEW a \in Acceptances
               PROVE  /\ acceptance'[a] \in AcceptanceRows
                      /\ acceptance'[a].kind = acceptance[a].kind
                      /\ acceptance'[a].state = IF a \in Due THEN "expired" ELSE acceptance[a].state
                      /\ a \notin Due => acceptance'[a] = acceptance[a]
    OBVIOUS
  <2> DEFINE row == [acceptance[a] EXCEPT !.state = "expired"]
  <2>1. row \in AcceptanceRows /\ row.kind = acceptance[a].kind /\ row.state = "expired"
    BY <1>2 DEF AcceptanceRows, AcceptanceStates
  <2>2. acceptance'[a] = IF a \in Due THEN row ELSE acceptance[a]
    BY <1>1
  <2> HIDE DEF row
  <2> QED BY <1>2, <2>1, <2>2
<1>4. acceptance' \in [Acceptances -> AcceptanceRows]
  BY <1>1, <1>3
<1>5. OneLivePerKind'
  BY <1>3, LiveShrinks DEF IInv, LiveStates
<1>6. NoOne \in Callers /\ policy \in PolicyRows /\ hasEvidence \in BOOLEAN
  BY DEF Callers, IInv, TypeOK, PolicyRows
<1>7. CASE \E a \in Due : acceptance[a].kind = "acceptance"
  <2>1. finding' = ReopenFindingAfterAcceptanceEnded(finding, acceptance', NoOne)
    BY <1>1, <1>7
  <2>2. /\ FindingGood' /\ OperationalStatusIsDerived'
        /\ finding'.decision # "accepted_risk" /\ ReopenedIsOpen
        /\ finding'.operational = "closed" <=> finding'.decision = "resolved" \/ Binding(acceptance')
    BY <1>1, <1>6, <2>1, ReopenStep DEF IInv, ReopenedIsOpen
  <2>3. TypeOK' /\ AcceptedRiskHasRecord'
    BY <1>1, <1>4, <2>2 DEF IInv, TypeOK, FindingGood, GoodRow, AcceptedRiskHasRecord
  <2> QED BY <1>5, <2>2, <2>3 DEF IInv
<1>8. CASE ~\E a \in Due : acceptance[a].kind = "acceptance"
  <2>1. finding' = finding
    BY <1>1, <1>8
  <2>2. \A a \in Acceptances : acceptance[a].kind = "acceptance" => acceptance'[a] = acceptance[a]
    BY <1>3, <1>8
  <2>3. Binding(acceptance') <=> Binding(acceptance)
    BY <1>3, <2>2 DEF Binding
  <2>4. OperationalStatusIsDerived'
    BY <1>1, <2>1, <2>3, StatusStaysDerived DEF IInv, ClosureHolds
  <2>5. TypeOK' /\ FindingGood'
    BY <1>1, <1>4, <2>1 DEF IInv, TypeOK, FindingGood
  <2>6. AcceptedRiskHasRecord'
    BY <2>1, <2>2 DEF IInv, AcceptedRiskHasRecord
  <2> QED BY <1>5, <1>8, <2>1, <2>4, <2>5, <2>6 DEF IInv, ReopenedIsOpen
<1> QED BY <1>7, <1>8

-----------------------------------------------------------------------------
\* The invariant.

LEMMA NothingUnseen ==
    ASSUME finding.operational =
               DeriveOperationalStatus(Linked(action), FALSE, finding.decision, finding.status, Binding(acceptance))
    PROVE  OperationalStatusIsDerived
<1>1. FALSE \in IF hasEvidence THEN {FALSE} ELSE BOOLEAN
  OBVIOUS
<1>2. {} \in SUBSET {a \in AutoActions : action[a] = "open"}
  OBVIOUS
<1>3. {action[a] : a \in Actions \ {}} \ {"none"} = Linked(action)
  BY DEF Linked
<1> QED BY <1>1, <1>2, <1>3 DEF OperationalStatusIsDerived

LEMMA InitIInv == Init => IInv
<1> SUFFICES ASSUME Init PROVE IInv
  OBVIOUS
<1>1. /\ action = [a \in Actions |-> "none"] /\ hasEvidence = FALSE
      /\ policy \in [evidenceGate : BOOLEAN, closureSod : BOOLEAN]
  BY PolicyAssumption DEF Init
<1>2. NoAcceptance \in AcceptanceRows
      /\ [NoAcceptance EXCEPT !.state = "legacy_unverified"] \in AcceptanceRows
  BY DEF NoAcceptance, AcceptanceRows, AcceptanceStates, Callers
<1>3. action \in [Actions -> ActionStatuses \cup {"none"}]
  BY <1>1
<1>4. Linked(action) = {}
  BY <1>1 DEF Linked
<1>5. CASE finding = NewFinding /\ acceptance = [a \in Acceptances |-> NoAcceptance]
  <2>1. FindingGood /\ finding.operational = "open" /\ finding.decision = "needs_review" /\ finding.status = "open"
    BY <1>5 DEF FindingGood, GoodRow, NewFinding, FindingRows, AxesAgree, Callers,
                LegacyTerminal, LegacyStatuses, OperationalStatuses, DecisionStates
  <2>2. \A a \in Acceptances : acceptance[a].state = "none"
    BY <1>5 DEF NoAcceptance
  <2>3. TypeOK
    BY <1>1, <1>2, <1>3, <1>5, <2>1 DEF TypeOK, FindingGood, GoodRow
  <2>4. ~Binding(acceptance)
    BY <2>2 DEF Binding
  <2>5. DeriveOperationalStatus(Linked(action), FALSE, finding.decision, finding.status, Binding(acceptance)) = "open"
    BY <1>4, <2>1, <2>4 DEF DeriveOperationalStatus, ClosureHolds, WorkflowStatus, LegacyTerminal
  <2>6. OperationalStatusIsDerived
    BY <2>1, <2>5, NothingUnseen
  <2> QED BY <2>1, <2>2, <2>3, <2>6 DEF IInv, OneLivePerKind, LiveStates, AcceptedRiskHasRecord
<1>6. CASE /\ finding = LegacyAcceptedFinding
           /\ \E l \in Acceptances :
                acceptance = [a \in Acceptances |->
                                 IF a = l THEN [NoAcceptance EXCEPT !.state = "legacy_unverified"] ELSE NoAcceptance]
  <2>1. FindingGood /\ finding.operational = "closed" /\ finding.status = "accepted"
    BY <1>6 DEF FindingGood, GoodRow, LegacyAcceptedFinding, NewFinding, FindingRows, AxesAgree, Callers,
                LegacyTerminal, LegacyStatuses, OperationalStatuses, DecisionStates
  <2>2. PICK l \in Acceptances :
                acceptance = [a \in Acceptances |->
                                 IF a = l THEN [NoAcceptance EXCEPT !.state = "legacy_unverified"] ELSE NoAcceptance]
    BY <1>6
  <2>3. /\ acceptance[l].state = "legacy_unverified" /\ acceptance[l].kind = "acceptance"
        /\ \A a \in Acceptances \ {l} : acceptance[a].state = "none"
    BY <2>2 DEF NoAcceptance
  <2>4. TypeOK
    BY <1>1, <1>2, <1>3, <2>1, <2>2 DEF TypeOK, FindingGood, GoodRow
  <2>5. ClosureHolds(finding.decision, finding.status, Binding(acceptance))
    BY <2>1 DEF ClosureHolds, LegacyTerminal
  <2>6. DeriveOperationalStatus(Linked(action), FALSE, finding.decision, finding.status, Binding(acceptance)) = "closed"
    BY <2>5, DeriveClosed
  <2>7. OperationalStatusIsDerived
    BY <2>1, <2>6, NothingUnseen
  <2> QED BY <2>1, <2>3, <2>4, <2>7 DEF IInv, OneLivePerKind, LiveStates, AcceptedRiskHasRecord
<1> QED BY <1>5, <1>6 DEF Init

LEMMA NextIInv == IInv /\ [Next]_vars => IInv'
<1> SUFFICES ASSUME IInv, [Next]_vars PROVE IInv'
  OBVIOUS
<1>0. /\ action \in [Actions -> ActionStatuses \cup {"none"}] /\ hasEvidence \in BOOLEAN
      /\ {"open", "in_progress"} \subseteq ActionStatuses
  BY DEF IInv, TypeOK, ActionStatuses
<1>1. ASSUME NEW a \in Actions, NEW c \in Callers, CreateAction(a, c) PROVE IInv'
  BY <1>0, <1>1, CascadeStep DEF CreateAction
<1>2. ASSUME NEW a \in Actions, NEW c \in Callers, NEW s \in ActionStatuses, UpdateAction(a, s, c) PROVE IInv'
  BY <1>0, <1>2, CascadeStep DEF UpdateAction
<1>3. ASSUME NEW a \in Actions, NEW c \in Callers, UnblockAction(a, c) PROVE IInv'
  BY <1>0, <1>3, CascadeStep DEF UnblockAction
<1>4. ASSUME NEW c \in Callers, AttachEvidence(c) PROVE IInv'
  BY <1>0, <1>4, CascadeStep DEF AttachEvidence
<1>5. ASSUME NEW a \in AutoActions, GenerateAction(a) PROVE IInv'
  BY <1>5, GenerateActionStep
<1>6. ASSUME NEW p \in Policies, PutRiskSettings(p) PROVE IInv'
  BY <1>6, PutRiskSettingsStep
<1>7. ASSUME NEW c \in Callers, NEW target \in DecisionWrites, NEW legacy \in LegacyWrites \cup {Unset},
             PatchFinding(c, legacy, target)
      PROVE  IInv'
  BY <1>7, PatchFindingStep
<1>8. ASSUME NEW c \in Callers, NEW target \in DecisionWrites, BulkDecide(c, target) PROVE IInv'
  BY <1>8, BulkDecideStep
<1>9. ASSUME NEW a \in Acceptances, NEW k \in {"acceptance", "exception"}, NEW u \in Users, NEW l \in BOOLEAN,
             Propose(a, k, u, l)
      PROVE  IInv'
  BY <1>9, ProposeStep
<1>10. ASSUME NEW a \in Acceptances, NEW u \in Users, Approve(a, u) PROVE IInv'
  BY <1>10, ApproveStep
<1>11. ASSUME NEW a \in Acceptances, NEW u \in Users, Reject(a, u) PROVE IInv'
  BY <1>11, RejectStep
<1>12. ASSUME NEW a \in Acceptances, NEW c \in Callers, Withdraw(a, c) PROVE IInv'
  BY <1>12, WithdrawStep
<1>13. ASSUME NEW a \in Acceptances, Lapse(a) PROVE IInv'
  BY <1>13, LapseStep
<1>14. CASE SweepExpiredAcceptances
  BY <1>14, SweepStep
<1>15. CASE UNCHANGED vars
  <2>1. UNCHANGED <<finding, action, hasEvidence, acceptance, policy>>
    BY <1>15 DEF vars
  <2>2. OperationalStatusIsDerived'
    BY <2>1, StatusStaysDerived DEF IInv
  <2> QED BY <2>1, <2>2 DEF IInv, TypeOK, FindingGood, OneLivePerKind, AcceptedRiskHasRecord
<1> QED
  BY <1>1, <1>2, <1>3, <1>4, <1>5, <1>6, <1>7, <1>8, <1>9, <1>10, <1>11, <1>12, <1>13, <1>14, <1>15,
     WritesAssumption DEF Next, Callers

\* Every reachable state satisfies the inductive invariant, and with it that
\* each kind has at most one live row.
THEOREM InductiveInvariant == Spec => []IInv
  BY InitIInv, NextIInv, PTL DEF Spec

\* The two axes agree whatever handlers have run: no recompute, reopen or sweep
\* meets the findings_closure_axes_agree CHECK.
THEOREM AxesNeverDiverge == Spec => []ClosureAxesAgree
<1>1. IInv => ClosureAxesAgree
  BY DEF IInv, FindingGood, GoodRow, ClosureAxesAgree
<1> QED BY <1>1, InductiveInvariant, PTL

\* Every variable keeps its type.
THEOREM TypeCorrect == Spec => []TypeOK
<1>1. IInv => TypeOK
  BY DEF IInv
<1> QED BY <1>1, InductiveInvariant, PTL

\* The operational status is the derived one up to the two inputs that move
\* without a recompute.
THEOREM StatusIsDerived == Spec => []OperationalStatusIsDerived
<1>1. IInv => OperationalStatusIsDerived
  BY DEF IInv
<1> QED BY <1>1, InductiveInvariant, PTL

\* Replaying finding_lifecycle_events gives the row, a silent reopen excepted.
THEOREM StreamKeepsUp == Spec => []LifecycleStreamKeepsUp
<1>1. IInv => LifecycleStreamKeepsUp
  BY DEF IInv, FindingGood, GoodRow, LifecycleStreamKeepsUp
<1> QED BY <1>1, InductiveInvariant, PTL

\* No handler leaves an accepted_risk decision without an acceptance behind it.
THEOREM AcceptedRiskIsBacked == Spec => []AcceptedRiskHasRecord
<1>1. IInv => AcceptedRiskHasRecord
  BY DEF IInv
<1> QED BY <1>1, InductiveInvariant, PTL

-----------------------------------------------------------------------------
\* What no step does.

LEMMA StepReopens == IInv /\ [Next]_vars => ReopenedIsOpen
<1> SUFFICES ASSUME IInv, [Next]_vars PROVE ReopenedIsOpen
  OBVIOUS
<1>0. /\ action \in [Actions -> ActionStatuses \cup {"none"}] /\ hasEvidence \in BOOLEAN
      /\ {"open", "in_progress"} \subseteq ActionStatuses
  BY DEF IInv, TypeOK, ActionStatuses
<1>1. CASE finding'.decision = finding.decision
  BY <1>1 DEF ReopenedIsOpen
<1>2. ASSUME NEW a \in Actions, NEW c \in Callers,
             \/ CreateAction(a, c) \/ UnblockAction(a, c) \/ \E s \in ActionStatuses : UpdateAction(a, s, c)
      PROVE  finding'.decision = finding.decision
  <2>1. /\ action' \in [Actions -> ActionStatuses \cup {"none"}] /\ Cascade(c)
        /\ UNCHANGED <<hasEvidence, acceptance, policy>>
    BY <1>0, <1>2 DEF CreateAction, UnblockAction, UpdateAction
  <2> QED BY <1>0, <2>1, CascadeStep
<1>3. ASSUME NEW c \in Callers, AttachEvidence(c) PROVE finding'.decision = finding.decision
  BY <1>0, <1>3, CascadeStep DEF AttachEvidence
<1>4. ASSUME \/ \E a \in AutoActions : GenerateAction(a)
             \/ \E p \in Policies : PutRiskSettings(p)
             \/ \E a \in Acceptances : Lapse(a) \/ \E k, u, l : Propose(a, k, u, l)
             \/ UNCHANGED vars
      PROVE  finding'.decision = finding.decision
  BY <1>4 DEF GenerateAction, PutRiskSettings, Lapse, Propose, vars
<1>5. ASSUME NEW c \in Callers, NEW target \in DecisionWrites,
             \/ \E legacy \in LegacyWrites \cup {Unset} : PatchFinding(c, legacy, target)
             \/ BulkDecide(c, target)
      PROVE  ReopenedIsOpen
  BY <1>5, PatchFindingStep, BulkDecideStep
<1>6. ASSUME NEW a \in Acceptances,
             \/ \E u \in Users : Approve(a, u) \/ Reject(a, u)
             \/ \E c \in Callers : Withdraw(a, c)
      PROVE  ReopenedIsOpen
  BY <1>6, ApproveStep, RejectStep, WithdrawStep
<1>7. CASE SweepExpiredAcceptances
  BY <1>7, SweepStep
<1> QED
  BY <1>1, <1>2, <1>3, <1>4, <1>5, <1>6, <1>7, WritesAssumption DEF Next, Callers

\* A governance reopen never springs shut: after it the finding is open, or a
\* binding acceptance holds it.
THEOREM ReopenNeverSpringsShut == Spec => ReopenOpens
<1>1. IInv /\ [Next]_vars =>
        [finding.decision = "resolved" /\ finding'.decision = "needs_review"
            => finding'.operational # "closed" \/ Binding(acceptance)]_vars
  BY StepReopens DEF ReopenedIsOpen
<1> QED BY <1>1, InductiveInvariant, PTL DEF Spec, ReopenOpens

\* How a step may move one row of the workflow.
LEMMA RowSteps ==
    ASSUME IInv, [Next]_vars, NEW a \in Acceptances, acceptance'[a].state # acceptance[a].state
    PROVE  \/ acceptance'[a].state = "proposed"
           \/ \E u \in Users : Approve(a, u) \/ Reject(a, u)
           \/ \E c \in Callers : Withdraw(a, c)
           \/ SweepExpiredAcceptances
<1>1. acceptance \in [Acceptances -> AcceptanceRows]
  BY DEF IInv, TypeOK
<1>2. acceptance' # acceptance
  OBVIOUS
<1>3. ASSUME NEW b \in Acceptances, NEW u \in Users, Approve(b, u) \/ Reject(b, u) PROVE a = b
  BY <1>1, <1>3 DEF Approve, Reject
<1>4. ASSUME NEW b \in Acceptances, NEW c \in Callers, Withdraw(b, c) PROVE a = b
  BY <1>1, <1>4 DEF Withdraw
<1>5. ASSUME NEW b \in Acceptances, NEW k \in {"acceptance", "exception"}, NEW u \in Users, NEW l \in BOOLEAN,
             Propose(b, k, u, l)
      PROVE  acceptance'[a].state = "proposed"
  BY <1>1, <1>5 DEF Propose
<1>6. ASSUME NEW b \in Acceptances, Lapse(b) PROVE FALSE
  BY <1>1, <1>6 DEF Lapse, AcceptanceRows
<1>7. ASSUME NEW b \in Actions, NEW c \in Callers,
             \/ CreateAction(b, c) \/ UnblockAction(b, c) \/ \E s \in ActionStatuses : UpdateAction(b, s, c)
      PROVE  FALSE
  BY <1>2, <1>7 DEF CreateAction, UnblockAction, UpdateAction
<1>8. ASSUME NEW c \in Callers, NEW target \in DecisionWrites,
             \/ AttachEvidence(c) \/ BulkDecide(c, target)
             \/ \E legacy \in LegacyWrites \cup {Unset} : PatchFinding(c, legacy, target)
      PROVE  FALSE
  BY <1>2, <1>8 DEF AttachEvidence, BulkDecide, PatchFinding
<1>9. ASSUME \/ \E b \in AutoActions : GenerateAction(b)
             \/ \E p \in Policies : PutRiskSettings(p)
             \/ UNCHANGED vars
      PROVE  FALSE
  BY <1>2, <1>9 DEF GenerateAction, PutRiskSettings, vars
<1>10. ASSUME NEW c \in Callers, AttachEvidence(c) PROVE FALSE
  BY <1>2, <1>10 DEF AttachEvidence
<1> QED
  BY <1>3, <1>4, <1>5, <1>6, <1>7, <1>8, <1>9, <1>10, WritesAssumption DEF Next, Callers

\* Only the approval of that very row approves an exception, and it leaves the
\* finding as open as it was.
THEOREM ExceptionsNeverClose == Spec => ExceptionNeverCloses
<1> DEFINE A == \A a \in Acceptances :
                   /\ acceptance[a].kind = "exception" /\ acceptance[a].state = "proposed"
                   /\ acceptance'[a].state = "approved" /\ finding.operational # "closed"
                   => finding'.operational # "closed"
<1>1. ASSUME IInv, [Next]_vars PROVE A
  <2> SUFFICES ASSUME NEW a \in Acceptances, acceptance[a].kind = "exception", acceptance[a].state = "proposed",
                      acceptance'[a].state = "approved", finding.operational # "closed"
               PROVE  finding'.operational # "closed"
    OBVIOUS
  <2>1. acceptance \in [Acceptances -> AcceptanceRows]
    BY <1>1 DEF IInv, TypeOK
  <2>2. ASSUME NEW u \in Users, Reject(a, u) PROVE FALSE
    BY <2>1, <2>2 DEF Reject
  <2>3. ASSUME NEW c \in Callers, Withdraw(a, c) PROVE FALSE
    BY <2>1, <2>3 DEF Withdraw
  <2>4. ASSUME SweepExpiredAcceptances PROVE FALSE
    BY <2>1, <2>4 DEF SweepExpiredAcceptances, ExpireRows, Due
  <2>5. PICK u \in Users : Approve(a, u)
    BY <1>1, <2>2, <2>3, <2>4, RowSteps
  <2> QED BY <1>1, <2>5, ApproveStep
<1> QED BY <1>1, InductiveInvariant, PTL DEF Spec, ExceptionNeverCloses

\* When an approved acceptance ends no other can bind, so the finding is closed
\* afterwards exactly when a person has resolved it.
THEOREM EndedAcceptancesReopen == Spec => EndedAcceptanceReopens
<1> DEFINE A == \A a \in Acceptances :
                   /\ acceptance[a].kind = "acceptance" /\ acceptance[a].state = "approved"
                   /\ acceptance'[a].state \in {"withdrawn", "expired"}
                   => (finding'.operational = "closed" <=> finding'.decision = "resolved")
<1>1. ASSUME IInv, [Next]_vars PROVE A
  <2> SUFFICES ASSUME NEW a \in Acceptances, acceptance[a].kind = "acceptance", acceptance[a].state = "approved",
                      acceptance'[a].state \in {"withdrawn", "expired"}
               PROVE  finding'.operational = "closed" <=> finding'.decision = "resolved"
    OBVIOUS
  <2>1. acceptance \in [Acceptances -> AcceptanceRows]
    BY <1>1 DEF IInv, TypeOK
  <2>2. \A b \in Acceptances \ {a} : acceptance[b].kind = "acceptance" => acceptance[b].state \notin LiveStates
    BY <1>1 DEF IInv, OneLivePerKind, LiveStates
  <2>3. ASSUME NEW u \in Users, Approve(a, u) \/ Reject(a, u) PROVE FALSE
    BY <2>1, <2>3 DEF Approve, Reject
  <2>4. ASSUME NEW c \in Callers, Withdraw(a, c)
        PROVE  finding'.operational = "closed" <=> finding'.decision = "resolved"
    <3>1. \A b \in Acceptances \ {a} : acceptance'[b] = acceptance[b]
      BY <2>1, <2>4 DEF Withdraw
    <3>2. ~Binding(acceptance')
      BY <2>2, <3>1 DEF Binding, LiveStates
    <3> QED BY <1>1, <2>4, <3>2, WithdrawStep
  <2>5. ASSUME SweepExpiredAcceptances
        PROVE  finding'.operational = "closed" <=> finding'.decision = "resolved"
    <3>1. \A b \in Acceptances : acceptance'[b] =
              IF b \in Due THEN [acceptance[b] EXCEPT !.state = "expired"] ELSE acceptance[b]
      BY <2>5 DEF SweepExpiredAcceptances, ExpireRows
    <3>2. a \in Due
      BY <3>1
    <3>3. \A b \in Acceptances \ {a} : acceptance'[b].kind = "acceptance" => acceptance'[b].state # "approved"
      BY <2>1, <2>2, <3>1 DEF LiveStates, AcceptanceRows
    <3>4. ~Binding(acceptance')
      BY <3>3 DEF Binding
    <3> QED BY <1>1, <2>5, <3>2, <3>4, SweepStep
  <2> QED BY <1>1, <2>3, <2>4, <2>5, RowSteps
<1> QED BY <1>1, InductiveInvariant, PTL DEF Spec, EndedAcceptanceReopens

-----------------------------------------------------------------------------
\* Closure and completion.

\* The action of ClosureNeedsCompletion, for a finding that closes.
Completed == \A a \in OpenActions : a \in AutoActions /\ action[a] = "open"
Covered   == Completed \/ Binding(acceptance') \/ finding.decision = "accepted_risk"

\* Nothing holds a finding that is not closed.
LEMMA NothingHolds ==
    ASSUME IInv, finding.operational # "closed"
    PROVE  finding.decision # "resolved" /\ finding.status \notin LegacyTerminal /\ ~Binding(acceptance)
BY DeriveClosed DEF IInv, OperationalStatusIsDerived, ClosureHolds

\* The stored status overlooks only what the matcher linked and nobody started.
LEMMA RemediatedIsComplete ==
    ASSUME IInv, finding.operational = "remediated"
    PROVE  Completed
<1>1. PICK gated \in IF hasEvidence THEN {FALSE} ELSE BOOLEAN,
           unseen \in SUBSET {a \in AutoActions : action[a] = "open"} :
              finding.operational =
                  DeriveOperationalStatus({action[a] : a \in Actions \ unseen} \ {"none"}, gated,
                                          finding.decision, finding.status, Binding(acceptance))
    BY DEF IInv, OperationalStatusIsDerived
<1> DEFINE linked == {action[a] : a \in Actions \ unseen} \ {"none"}
<1>2. linked \subseteq ActionTerminal
    <2>1. DeriveOperationalStatus(linked, gated, finding.decision, finding.status, Binding(acceptance)) = "remediated"
        BY <1>1
    <2> HIDE DEF linked
    <2> QED BY <2>1 DEF DeriveOperationalStatus, WorkflowStatus
<1> QED BY <1>2 DEF Completed, OpenActions

\* A recompute closes an open finding for one of the three reasons.
LEMMA RecomputeCloses ==
    ASSUME IInv, NEW f, GoodRow(f), NEW caller \in Callers, NEW projectLegacy \in BOOLEAN,
           UNCHANGED <<hasEvidence, policy>>,
           finding' = RecomputeFindingOperationalStatus(f, action', hasEvidence', acceptance', caller, projectLegacy),
           finding'.operational = "closed"
    PROVE  f.decision = "resolved" \/ f.status \in LegacyTerminal \/ Binding(acceptance')
<1>1. policy \in PolicyRows /\ hasEvidence' \in BOOLEAN
    BY DEF IInv, TypeOK, PolicyRows
<1> QED BY <1>1, RecomputeStep DEF ClosureHolds

\* The governance gate and the closure policy let nothing else through.
LEMMA DecisionCloses ==
    ASSUME IInv, NEW f, GoodRow(f), f.decision = finding.decision,
           f.status \in LegacyTerminal => OpenActions = {} \/ Binding(acceptance),
           NEW caller \in Callers, NEW target \in DecisionWrites,
           Transition(target, caller) # "refused", UNCHANGED <<action, hasEvidence, acceptance, policy>>,
           finding' = RecomputeFindingOperationalStatus(
                          ApplyDecision(f, Transition(target, caller), target),
                          action, hasEvidence, acceptance, caller, Transition(target, caller) = "reopen"),
           finding.operational # "closed", finding'.operational = "closed"
    PROVE  Covered
<1> DEFINE transition == Transition(target, caller)
           decided    == ApplyDecision(f, transition, target)
<1>1. transition \notin {"none", "noop"} => target \in DecisionStates
    BY DEF Transition, DecisionWrites
<1>2. /\ GoodRow(decided)
      /\ decided.decision = IF transition \in {"none", "noop"} THEN f.decision ELSE target
      /\ transition = "reopen" => decided.status \notin LegacyTerminal
    BY <1>1, ApplyDecisionGood
<1>3. transition # "reopen" => decided.status = f.status
    BY DEF ApplyDecision, SetDecision, GoodRow, FindingRows
<1>4. decided.decision = "resolved" \/ decided.status \in LegacyTerminal \/ Binding(acceptance')
    <2> HIDE DEF decided, transition
    <2>1. finding' = RecomputeFindingOperationalStatus(decided, action', hasEvidence', acceptance', caller,
                                                       transition = "reopen")
        BY DEF decided, transition
    <2>2. (transition = "reopen") \in BOOLEAN
        OBVIOUS
    <2> QED BY <1>2, <2>1, <2>2, RecomputeCloses
<1>5. CASE decided.decision = "resolved"
    <2>1. transition \notin {"none", "noop"} /\ target = "resolved"
        BY <1>2, <1>5, NothingHolds
    <2>2. transition = EvaluateFindingDecisionTransition(finding.decision, target, finding.operational,
                                                         Linked(action) # {}, SodRefuses(caller))
        BY <2>1 DEF Transition, Unset
    <2>3. finding.operational = "remediated" \/ finding.decision = "accepted_risk" \/ Linked(action) = {}
        <3> HIDE DEF transition
        <3>1. transition # "refused"
            BY DEF transition
        <3> QED BY <2>1, <2>2, <3>1 DEF EvaluateFindingDecisionTransition
    <2>4. Linked(action) = {} => Completed
        BY DEF Linked, Completed, OpenActions
    <2> QED BY <2>3, <2>4, RemediatedIsComplete DEF Covered
<1>6. CASE decided.status \in LegacyTerminal
    BY <1>2, <1>3, <1>6 DEF Covered, Completed
<1> QED BY <1>4, <1>5, <1>6 DEF Covered

LEMMA PatchCloses ==
    ASSUME IInv, ClosureGate, NEW caller \in Callers, NEW legacy \in LegacyWrites \cup {Unset},
           NEW target \in DecisionWrites, PatchFinding(caller, legacy, target),
           finding.operational # "closed", finding'.operational = "closed"
    PROVE  Covered
<1> DEFINE written == IF legacy = Unset THEN finding ELSE ApplyLegacyStatus(finding, legacy, acceptance, caller)
<1>1. GoodRow(written) /\ written.decision = finding.decision
    <2>1. CASE legacy = Unset
        BY <2>1 DEF IInv, FindingGood
    <2>2. CASE legacy # Unset
        <3>1. legacy \in LegacyStatuses
            BY <2>2, WritesAssumption
        <3>2. AxesAgree(ApplyLegacyStatus(finding, legacy, acceptance, caller).operational,
                        ApplyLegacyStatus(finding, legacy, acceptance, caller).status)
            BY <2>2 DEF PatchFinding
        <3> QED BY <2>2, <3>1, <3>2, ApplyLegacyGood DEF IInv, FindingGood
    <2> QED BY <2>1, <2>2
<1>2. written.status \in LegacyTerminal => OpenActions = {} \/ Binding(acceptance)
    <2>1. CASE legacy = Unset
        BY <2>1, NothingHolds
    <2>2. CASE legacy # Unset
        <3>1. written.status = legacy
            BY <2>2 DEF ApplyLegacyStatus, LogOperational, IInv, FindingGood, GoodRow, FindingRows
        <3>2. ~LegacyCloseRefused(legacy, acceptance)
            BY DEF PatchFinding
        <3> HIDE DEF written
        <3> QED BY <3>1, <3>2 DEF LegacyCloseRefused, EvaluateFindingClosure
    <2> QED BY <2>1, <2>2
<1>3. /\ UNCHANGED <<action, hasEvidence, acceptance, policy>> /\ Transition(target, caller) # "refused"
      /\ finding' = RecomputeFindingOperationalStatus(
                        ApplyDecision(written, Transition(target, caller), target),
                        action, hasEvidence, acceptance, caller, Transition(target, caller) = "reopen")
    BY DEF PatchFinding
<1> HIDE DEF written
<1> QED BY <1>1, <1>2, <1>3, DecisionCloses

\* A finding closes over unfinished remediation only under a binding acceptance,
\* out of accepted_risk, or over what the matcher linked and nobody started.
THEOREM ClosuresAreCompleted == Spec => ClosureNeedsCompletion
<1> DEFINE A == ClosureGate /\ finding.operational # "closed" /\ finding'.operational = "closed"
                  => \/ \A a \in OpenActions : a \in AutoActions /\ action[a] = "open"
                     \/ Binding(acceptance')
                     \/ finding.decision = "accepted_risk"
<1>1. ASSUME IInv, [Next]_vars PROVE A
    <2> SUFFICES ASSUME ClosureGate, finding.operational # "closed", finding'.operational = "closed"
                 PROVE  Covered
        BY DEF Covered, Completed
    <2>0. /\ GoodRow(finding) /\ finding.decision # "resolved" /\ finding.status \notin LegacyTerminal
          /\ ~Binding(acceptance) /\ policy \in PolicyRows /\ hasEvidence \in BOOLEAN
        BY <1>1, NothingHolds DEF IInv, FindingGood, TypeOK, PolicyRows
    <2>1. ASSUME NEW c \in Callers, Cascade(c), UNCHANGED <<acceptance, policy>>, hasEvidence' \in BOOLEAN PROVE FALSE
        <3>1. finding' = RecomputeFindingOperationalStatus(finding, action', hasEvidence', acceptance', c, FALSE)
            BY <2>1 DEF Cascade
        <3>2. finding'.operational = "closed" <=> ClosureHolds(finding.decision, finding.status, Binding(acceptance'))
            BY <2>0, <2>1, <3>1, RecomputeStep
        <3> QED BY <2>0, <2>1, <3>2 DEF ClosureHolds, Binding
    <2>2. ASSUME NEW a \in Actions, NEW c \in Callers,
                 \/ CreateAction(a, c) \/ UnblockAction(a, c) \/ \E s \in ActionStatuses : UpdateAction(a, s, c)
          PROVE  FALSE
        BY <2>0, <2>1, <2>2 DEF CreateAction, UnblockAction, UpdateAction
    <2>3. ASSUME NEW c \in Callers, AttachEvidence(c) PROVE FALSE
        BY <2>1, <2>3 DEF AttachEvidence
    <2>4. ASSUME \/ \E a \in AutoActions : GenerateAction(a)
                 \/ \E p \in Policies : PutRiskSettings(p)
                 \/ \E a \in Acceptances : Lapse(a) \/ \E k, u, l : Propose(a, k, u, l)
                 \/ UNCHANGED vars
          PROVE  FALSE
        BY <2>4 DEF GenerateAction, PutRiskSettings, Lapse, Propose, vars
    <2>5. ASSUME NEW c \in Callers, NEW target \in DecisionWrites, NEW legacy \in LegacyWrites \cup {Unset},
                 PatchFinding(c, legacy, target)
          PROVE  Covered
        BY <1>1, <2>5, PatchCloses
    <2>6. ASSUME NEW c \in Callers, NEW target \in DecisionWrites, BulkDecide(c, target) PROVE Covered
        <3>1. /\ UNCHANGED <<action, hasEvidence, acceptance, policy>> /\ Transition(target, c) # "refused"
              /\ finding' = RecomputeFindingOperationalStatus(
                                ApplyDecision(finding, Transition(target, c), target),
                                action, hasEvidence, acceptance, c, Transition(target, c) = "reopen")
            BY <2>6 DEF BulkDecide
        <3> QED BY <1>1, <2>0, <3>1, DecisionCloses
    <2>7. ASSUME NEW a \in Acceptances, NEW u \in Users, Approve(a, u) PROVE Covered
        <3> DEFINE decided == AcceptRisk(finding, acceptance[a].kind)
        <3>1. /\ UNCHANGED <<action, hasEvidence, policy>> /\ u \in Callers
              /\ finding' = RecomputeFindingOperationalStatus(decided, action', hasEvidence', acceptance', u, FALSE)
            BY <2>7 DEF Approve, Callers
        <3>2. GoodRow(decided) /\ decided.decision # "resolved" /\ decided.status = finding.status
            <4>1. "accepted_risk" \in DecisionStates
                BY DEF DecisionStates
            <4>2. SetDecision(finding, "accepted_risk").status = finding.status
                BY <2>0 DEF SetDecision, GoodRow, FindingRows
            <4> QED BY <2>0, <4>1, <4>2, SetDecisionGood DEF AcceptRisk
        <3> HIDE DEF decided
        <3> QED BY <1>1, <2>0, <3>1, <3>2, RecomputeCloses DEF Covered
    <2>8. ASSUME NEW c \in Callers, UNCHANGED <<action, hasEvidence, policy>>,
                 finding' = ReopenFindingAfterAcceptanceEnded(finding, acceptance', c)
          PROVE  Covered
        BY <1>1, <2>0, <2>8, ReopenStep DEF Covered, IInv
    <2>9. ASSUME NEW a \in Acceptances,
                 (\E u \in Users : Reject(a, u)) \/ (\E c \in Callers : Withdraw(a, c))
          PROVE  Covered
        BY <2>8, <2>9 DEF Reject, Withdraw, Callers
    <2>10. CASE SweepExpiredAcceptances
        BY <2>8, <2>10 DEF SweepExpiredAcceptances, ExpireRows, Callers
    <2> QED BY <1>1, <2>2, <2>3, <2>4, <2>5, <2>6, <2>7, <2>9, <2>10, WritesAssumption DEF Next, Callers
<1> QED BY <1>1, InductiveInvariant, PTL DEF Spec, ClosureNeedsCompletion

-----------------------------------------------------------------------------
\* The reviewer.

\* ReviewerMayClose of any row: what assignIndependentReviewerIfNeeded is for.
Routed(f) ==
    (IndependentReview /\ policy.closureSod /\ f.operational = "remediated") =>
        f.reviewer \in Admins \ {f.remediator} \/ Admins \subseteq {f.remediator}

\* A write that makes nothing remediated and, over a finding that is, leaves
\* the reviewer and the remediator alone.
Keeps(f, g) ==
    g.operational = "remediated" =>
        /\ f.operational = "remediated"
        /\ g.reviewer = f.reviewer /\ g.remediator = f.remediator

\* The one write that makes a finding remediated and assigns nobody.
LegacyRemediates ==
    /\ finding.operational # "remediated"
    /\ \E c \in Callers, target \in DecisionWrites, legacy \in LegacyWrites \ LegacyTerminal :
          PatchFinding(c, legacy, target)

LEMMA SetDecisionKeeps ==
    ASSUME NEW f \in FindingRows, NEW to
    PROVE  Keeps(f, SetDecision(f, to))
BY DEF Keeps, SetDecision, FindingRows

LEMMA ClearClosureKeeps ==
    ASSUME NEW f \in FindingRows
    PROVE  Keeps(f, ClearClosure(f))
<1> DEFINE status      == IF f.status \in LegacyTerminal THEN "open" ELSE f.status
           operational == IF f.operational = "closed" THEN "open" ELSE f.operational
<1>1. ClearClosure(f) = [f EXCEPT !.status = status, !.operational = operational]
    BY DEF ClearClosure, FindingRows
<1>2. operational = "remediated" => f.operational = "remediated"
    OBVIOUS
<1> HIDE DEF status, operational
<1> QED BY <1>1, <1>2 DEF Keeps, FindingRows

LEMMA ApplyDecisionKeeps ==
    ASSUME NEW f, GoodRow(f), NEW transition, NEW target,
           transition \notin {"none", "noop"} => target \in DecisionStates
    PROVE  Keeps(f, ApplyDecision(f, transition, target))
<1> DEFINE decided == SetDecision(f, target)
<1>1. CASE transition \in {"none", "noop"}
    BY <1>1 DEF ApplyDecision, Keeps
<1>2. CASE transition \notin {"none", "noop"}
    <2>1. Keeps(f, decided) /\ decided \in FindingRows
        BY <1>2, SetDecisionKeeps, SetDecisionGood DEF GoodRow
    <2>2. CASE transition = "reopen"
        <3>1. ApplyDecision(f, transition, target) = ClearClosure(decided)
            BY <2>2 DEF ApplyDecision
        <3>2. Keeps(decided, ClearClosure(decided))
            BY <2>1, ClearClosureKeeps
        <3> QED BY <2>1, <3>1, <3>2 DEF Keeps
    <2>3. CASE transition # "reopen"
        BY <1>2, <2>1, <2>3 DEF ApplyDecision
    <2> QED BY <2>2, <2>3
<1> QED BY <1>1, <1>2

\* A legacy write of a terminal status closes, and one over a remediated finding
\* logs no second remediation.
LEMMA ApplyLegacyKeeps ==
    ASSUME NEW f \in FindingRows, NEW new \in LegacyStatuses, NEW accs, NEW caller,
           new \in LegacyTerminal \/ f.operational = "remediated"
    PROVE  Keeps(f, ApplyLegacyStatus(f, new, accs, caller))
<1> DEFINE set   == [f EXCEPT !.status = new]
           to    == Derived(set, action, hasEvidence, accs)
           moved == [f EXCEPT !.status = new, !.operational = to]
           r     == ApplyLegacyStatus(f, new, accs, caller)
<1>1. new \in LegacyTerminal => to = "closed"
    <2>1. set.status = new /\ set.decision = f.decision
        BY DEF FindingRows
    <2> HIDE DEF set
    <2> QED BY <2>1, DeriveClosed DEF to, Derived, ClosureHolds
<1>2. moved.operational = to /\ moved.reviewer = f.reviewer /\ moved.remediator = f.remediator
    <2> HIDE DEF to
    <2> QED BY DEF FindingRows
<1>3. CASE to = f.operational
    <2>1. r = moved
        BY <1>3 DEF ApplyLegacyStatus
    <2> HIDE DEF to, moved
    <2> QED BY <1>2, <1>3, <2>1 DEF Keeps
<1>4. CASE to # f.operational
    <2>1. to # "remediated"
        <3> HIDE DEF to
        <3> QED BY <1>1, <1>4
    <2>2. r = LogOperational(moved, to, caller)
        BY <1>4 DEF ApplyLegacyStatus
    <2>3. r.operational = to
        <3>1. moved = [f EXCEPT !.status = new, !.operational = to]
            OBVIOUS
        <3> HIDE DEF to, moved, r
        <3> QED BY <1>2, <2>2, <3>1 DEF LogOperational, FindingRows
    <2> HIDE DEF to, moved
    <2> QED BY <2>1, <2>3 DEF Keeps
<1> QED BY <1>3, <1>4

\* The recompute that finds the remediation complete routes the finding.
LEMMA RecomputeRoutes ==
    ASSUME NEW f, GoodRow(f), NEW acts, NEW evidence, NEW accs,
           NEW caller \in Callers, NEW projectLegacy \in BOOLEAN
    PROVE  LET r == RecomputeFindingOperationalStatus(f, acts, evidence, accs, caller, projectLegacy)
           IN  Routed(r) \/ Keeps(f, r)
<1> DEFINE to     == Derived(f, acts, evidence, accs)
           legacy == IF projectLegacy THEN LegacyStatusFor(to)
                     ELSE ProjectLegacyStatusOnClosureChange(to, f.status)
           g      == [f EXCEPT !.operational = to, !.status = legacy]
           moved  == LogOperational(g, to, caller)
           r      == RecomputeFindingOperationalStatus(f, acts, evidence, accs, caller, projectLegacy)
           chosen == ChooseReviewer(caller)
<1>1. CASE to = f.operational
    BY <1>1 DEF RecomputeFindingOperationalStatus, Keeps
<1>2. to \in OperationalStatuses /\ legacy \in LegacyStatuses
    <2>1. to \in OperationalStatuses
        BY DeriveType DEF Derived
    <2>2. f.status \in LegacyStatuses
        BY DEF GoodRow, FindingRows
    <2> HIDE DEF to
    <2> QED BY <2>1, <2>2, ProjectionAgrees
<1>3. /\ moved.reviewer \in Admins \cup {NoOne} /\ moved.operational = to /\ moved \in FindingRows
      /\ to = "remediated" => moved.remediator = caller
    <2>1. g \in FindingRows /\ g.operational = to
        <3> HIDE DEF to, legacy
        <3> QED BY <1>2 DEF GoodRow, FindingRows
    <2> HIDE DEF to, legacy, g
    <2> QED BY <1>2, <2>1 DEF LogOperational, FindingRows
<1>4. CASE to # f.operational /\ to = "remediated" /\ IndependentReview
    <2>1. r = AssignIndependentReviewerIfNeeded(moved, caller)
        BY <1>4 DEF RecomputeFindingOperationalStatus
    <2>2. /\ chosen = NoOne => Admins \subseteq {caller}
          /\ chosen # NoOne => chosen \in Admins \ {caller}
        BY UsersAssumption DEF ChooseReviewer
    <2> HIDE DEF to, legacy, g, moved, r
    <2>3. CASE policy.closureSod /\ moved.reviewer \in {NoOne, caller} /\ chosen # NoOne
        <3>1. r = [moved EXCEPT !.reviewer = chosen]
            BY <2>1, <2>3 DEF AssignIndependentReviewerIfNeeded
        <3> HIDE DEF chosen
        <3>2. r.reviewer = chosen /\ r.remediator = caller
            BY <1>3, <1>4, <3>1 DEF FindingRows
        <3> QED BY <2>2, <2>3, <3>2 DEF Routed, r
    <2>4. CASE ~(policy.closureSod /\ moved.reviewer \in {NoOne, caller} /\ chosen # NoOne)
        <3>1. r = moved
            BY <2>1, <2>4 DEF AssignIndependentReviewerIfNeeded
        <3> HIDE DEF chosen
        <3>2. r.reviewer = moved.reviewer /\ r.remediator = caller
            BY <1>3, <1>4, <3>1
        <3> QED BY <1>3, <2>2, <2>4, <3>2 DEF Routed, r
    <2> QED BY <2>3, <2>4
<1>5. CASE to # f.operational /\ ~(to = "remediated" /\ IndependentReview)
    <2>1. r = moved
        BY <1>5 DEF RecomputeFindingOperationalStatus
    <2> HIDE DEF to, legacy, g, moved, r
    <2> QED BY <1>3, <1>5, <2>1 DEF Routed, r
<1> QED BY <1>1, <1>4, <1>5

\* A handler whose writes keep the finding until its last one, the recompute.
LEMMA RoutingStep ==
    ASSUME NEW f, GoodRow(f), Keeps(finding, f), UNCHANGED policy, NEW acts, NEW evidence, NEW accs,
           NEW caller \in Callers, NEW projectLegacy \in BOOLEAN,
           finding' = RecomputeFindingOperationalStatus(f, acts, evidence, accs, caller, projectLegacy)
    PROVE  ReviewerMayClose' \/ Keeps(finding, finding')
<1>1. Routed(finding') \/ Keeps(f, finding')
    BY RecomputeRoutes
<1>2. CASE Routed(finding')
    BY <1>2 DEF Routed, ReviewerMayClose
<1>3. CASE Keeps(f, finding')
    BY <1>3 DEF Keeps
<1> QED BY <1>1, <1>2, <1>3

LEMMA ReleaseRoutes ==
    ASSUME GoodRow(finding), UNCHANGED policy, NEW accs, NEW caller \in Callers,
           finding' = ReopenFindingAfterAcceptanceEnded(finding, accs, caller)
    PROVE  ReviewerMayClose' \/ Keeps(finding, finding')
<1> DEFINE cleared == ClearClosure(finding)
<1>1. GoodRow(cleared) /\ cleared \in FindingRows /\ Keeps(finding, cleared)
    BY ClearClosureGood, ClearClosureKeeps DEF GoodRow
<1>2. GoodRow(SetDecision(cleared, "needs_review")) /\ Keeps(cleared, SetDecision(cleared, "needs_review"))
    BY <1>1, SetDecisionGood, SetDecisionKeeps DEF DecisionStates
<1>3. Keeps(finding, SetDecision(cleared, "needs_review"))
    BY <1>1, <1>2 DEF Keeps
<1>4. GoodRow(ReleaseClosure(finding)) /\ Keeps(finding, ReleaseClosure(finding))
    BY <1>1, <1>2, <1>3 DEF ReleaseClosure
<1> QED BY <1>4, RoutingStep DEF ReopenFindingAfterAcceptanceEnded

LEMMA DecideRoutes ==
    ASSUME NEW f, GoodRow(f), Keeps(finding, f), NEW caller \in Callers, NEW target \in DecisionWrites,
           UNCHANGED policy,
           finding' = RecomputeFindingOperationalStatus(ApplyDecision(f, Transition(target, caller), target), action,
                          hasEvidence, acceptance, caller, Transition(target, caller) = "reopen")
    PROVE  ReviewerMayClose' \/ Keeps(finding, finding')
<1> DEFINE transition == Transition(target, caller)
           decided    == ApplyDecision(f, transition, target)
           reopen     == transition = "reopen"
<1>1. transition \notin {"none", "noop"} => target \in DecisionStates
    BY DEF Transition, DecisionWrites
<1>2. GoodRow(decided) /\ Keeps(f, decided)
    BY <1>1, ApplyDecisionGood, ApplyDecisionKeeps
<1>3. reopen \in BOOLEAN
    OBVIOUS
<1>4. finding' = RecomputeFindingOperationalStatus(decided, action, hasEvidence, acceptance, caller, reopen)
    OBVIOUS
<1> HIDE DEF transition, decided, reopen
<1>5. Keeps(finding, decided)
    BY <1>2 DEF Keeps
<1> QED BY <1>2, <1>3, <1>4, <1>5, RoutingStep

LEMMA PatchRoutes ==
    ASSUME GoodRow(finding), NEW c \in Callers, NEW target \in DecisionWrites, NEW legacy \in LegacyWrites \cup {Unset},
           PatchFinding(c, legacy, target)
    PROVE  ReviewerMayClose' \/ Keeps(finding, finding') \/ LegacyRemediates
<1> DEFINE written == IF legacy = Unset THEN finding ELSE ApplyLegacyStatus(finding, legacy, acceptance, c)
<1>1. /\ AxesAgree(written.operational, written.status) /\ policy' = policy
      /\ finding' = RecomputeFindingOperationalStatus(ApplyDecision(written, Transition(target, c), target), action,
                        hasEvidence, acceptance, c, Transition(target, c) = "reopen")
    BY DEF PatchFinding
<1>2. CASE legacy = Unset
    <2>1. written = finding
        BY <1>2
    <2> HIDE DEF written
    <2> QED BY <1>1, <2>1, DecideRoutes DEF Keeps
<1>3. CASE legacy # Unset /\ (legacy \in LegacyTerminal \/ finding.operational = "remediated")
    <2>1. legacy \in LegacyStatuses
        BY <1>3, WritesAssumption
    <2>2. GoodRow(written) /\ Keeps(finding, written)
        BY <1>1, <1>3, <2>1, ApplyLegacyGood, ApplyLegacyKeeps DEF GoodRow
    <2> HIDE DEF written
    <2> QED BY <1>1, <2>2, DecideRoutes
<1>4. CASE legacy \in LegacyWrites \ LegacyTerminal /\ finding.operational # "remediated"
    BY <1>4 DEF LegacyRemediates
<1> QED BY <1>2, <1>3, <1>4

LEMMA NextRoutes ==
    ASSUME IInv, [Next]_vars
    PROVE  ReviewerMayClose' \/ Keeps(finding, finding') \/ LegacyRemediates
<1> DEFINE Goal == ReviewerMayClose' \/ Keeps(finding, finding') \/ LegacyRemediates
<1>1. GoodRow(finding) /\ finding \in FindingRows
    BY DEF IInv, FindingGood, GoodRow
<1>2. Keeps(finding, finding)
    BY DEF Keeps
<1>3. ASSUME UNCHANGED finding PROVE Goal
    BY <1>2, <1>3
<1>4. ASSUME NEW c \in Callers, Cascade(c), UNCHANGED policy PROVE Goal
    BY <1>1, <1>2, <1>4, RoutingStep DEF Cascade
<1>5. ASSUME NEW a \in Actions, NEW c \in Callers,
             \/ CreateAction(a, c) \/ UnblockAction(a, c) \/ \E s \in ActionStatuses : UpdateAction(a, s, c)
      PROVE  Goal
    BY <1>4, <1>5 DEF CreateAction, UnblockAction, UpdateAction
<1>6. ASSUME NEW c \in EvidenceCallers, AttachEvidence(c) PROVE Goal
    BY <1>4, <1>6, WritesAssumption DEF AttachEvidence, Callers
<1>7. ASSUME NEW c \in Callers, NEW target \in DecisionWrites, NEW legacy \in LegacyWrites \cup {Unset},
             PatchFinding(c, legacy, target)
      PROVE  Goal
    BY <1>1, <1>7, PatchRoutes
<1>8. ASSUME NEW c \in Callers, NEW target \in DecisionWrites, BulkDecide(c, target) PROVE Goal
    BY <1>1, <1>2, <1>8, DecideRoutes DEF BulkDecide
<1>9. ASSUME NEW a \in Acceptances, NEW u \in Users, Approve(a, u) PROVE Goal
    <2>1. /\ GoodRow(AcceptRisk(finding, acceptance[a].kind))
          /\ Keeps(finding, AcceptRisk(finding, acceptance[a].kind))
        BY <1>1, <1>2, SetDecisionGood, SetDecisionKeeps DEF AcceptRisk, DecisionStates
    <2> QED BY <1>9, <2>1, RoutingStep DEF Approve, Callers
<1>10. ASSUME NEW a \in Acceptances, NEW c \in Callers, (c \in Users /\ Reject(a, c)) \/ Withdraw(a, c) PROVE Goal
    BY <1>1, <1>10, ReleaseRoutes DEF Reject, Withdraw
<1>11. CASE SweepExpiredAcceptances
    BY <1>1, <1>3, <1>11, ReleaseRoutes DEF SweepExpiredAcceptances, ExpireRows, Callers
<1>12. ASSUME NEW a, \/ GenerateAction(a) \/ Lapse(a) \/ PutRiskSettings(a)
                     \/ \E k, u, l : Propose(a, k, u, l)
       PROVE  Goal
    BY <1>3, <1>12 DEF GenerateAction, Lapse, PutRiskSettings, Propose
<1>13. CASE UNCHANGED vars
    BY <1>3, <1>13 DEF vars
<1> QED
    BY <1>5, <1>6, <1>7, <1>8, <1>9, <1>10, <1>11, <1>12, <1>13, WritesAssumption DEF Next, Callers

\* Whoever makes a finding remediated routes it to an administrator whom the
\* close gate will not refuse, when there is one, save the one path that assigns
\* nobody: for every set of legacy writes and every change of the policies.
THEOREM RemediationsAreRouted == Spec => RemediationIsRouted
<1>1. IInv /\ [Next]_vars =>
          [~ReviewerMayClose' =>
              \/ /\ finding.operational = "remediated"
                 /\ finding'.reviewer = finding.reviewer /\ finding'.remediator = finding.remediator
              \/ /\ finding.operational # "remediated"
                 /\ \E c \in Callers, target \in DecisionWrites, legacy \in LegacyWrites \ LegacyTerminal :
                       PatchFinding(c, legacy, target)]_vars
    <2> SUFFICES ASSUME IInv, [Next]_vars, ~ReviewerMayClose'
                 PROVE  \/ /\ finding.operational = "remediated"
                           /\ finding'.reviewer = finding.reviewer /\ finding'.remediator = finding.remediator
                        \/ LegacyRemediates
        BY DEF LegacyRemediates
    <2>1. finding'.operational = "remediated"
        BY DEF ReviewerMayClose
    <2>2. Keeps(finding, finding') \/ LegacyRemediates
        BY NextRoutes
    <2> QED BY <2>1, <2>2 DEF Keeps
<1> QED BY <1>1, InductiveInvariant, PTL DEF Spec, RemediationIsRouted

=============================================================================
