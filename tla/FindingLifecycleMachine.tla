---------------------- MODULE FindingLifecycleMachine ----------------------
(***************************************************************************)
(* The pure decision core of the finding lifecycle                         *)
(* (src/api/lib/findingLifecycleMachine.ts, findingClosurePolicy.ts): how  *)
(* the operational axis is derived, how the legacy `status` column follows *)
(* it, which governance transitions are allowed and when closure is        *)
(* refused.  No state: the modules about findings EXTEND this one.         *)
(***************************************************************************)

OperationalStatuses == {"open", "in_progress", "remediated", "closed"}
DecisionStates      == {"needs_review", "mitigating", "accepted_risk", "resolved"}
LegacyStatuses      == {"open", "in_progress", "closed", "accepted"}
ActionStatuses      == {"open", "in_progress", "blocked", "closed", "accepted"}

ActionActive   == {"in_progress", "blocked"}
ActionTerminal == {"closed", "accepted"}
LegacyTerminal == {"closed", "accepted"}

\* What closes a finding whatever its actions say: governance, the legacy
\* compat bridge, or a binding acceptance.
ClosureHolds(decision, legacy, binding) ==
    decision = "resolved" \/ legacy \in LegacyTerminal \/ binding

\* linked is the set of statuses of the finding's actions; `gated` says the
\* org enforces the evidence gate and the finding has no evidence.
WorkflowStatus(linked, gated) ==
    CASE linked \cap ActionActive # {}                  -> "in_progress"
      [] linked # {} /\ linked \subseteq ActionTerminal -> IF gated THEN "in_progress" ELSE "remediated"
      [] OTHER                                          -> "open"

DeriveOperationalStatus(linked, gated, decision, legacy, binding) ==
    IF ClosureHolds(decision, legacy, binding) THEN "closed" ELSE WorkflowStatus(linked, gated)

LegacyStatusFor(operational) ==
    CASE operational = "closed"                      -> "closed"
      [] operational \in {"in_progress", "remediated"} -> "in_progress"
      [] OTHER                                       -> "open"

\* Variant: only the reopening direction is projected, a closed finding keeps
\* its active legacy status.
ProjectLegacyOnlyWhenReopening(operational, legacy) ==
    IF operational # "closed" /\ legacy \in LegacyTerminal THEN LegacyStatusFor(operational) ELSE legacy

\* The legacy status after the operational axis moved: rewritten only across
\* the closure boundary, left as it is otherwise.
ProjectLegacyStatusOnClosureChange(operational, legacy) ==
    CASE operational = "closed" /\ legacy \notin LegacyTerminal -> "closed"
      [] operational # "closed" /\ legacy \in LegacyTerminal    -> LegacyStatusFor(operational)
      [] OTHER                                                  -> legacy

\* findings_closure_axes_agree, a CHECK constraint: an UPDATE that breaks it fails.
AxesAgree(operational, legacy) == operational = "closed" <=> legacy \in LegacyTerminal

\* The transition a requested decision_state stands for: "noop", "refused" or
\* the name the lifecycle event carries.  sodRefuses abstracts the separation
\* of duties gate, which only the close consults.
EvaluateFindingDecisionTransition(current, target, operational, hasRemediation, sodRefuses) ==
    CASE target = current                                              -> "noop"
      [] target = "mitigating" /\ current = "needs_review"             -> "accept_plan"
      [] target = "accepted_risk" /\ target # current                  -> "accept_risk"
      [] /\ target = "resolved" /\ target # current
         /\ operational = "remediated" \/ current = "accepted_risk" \/ ~hasRemediation
         /\ ~sodRefuses                                                -> "close"
      [] target = "needs_review" /\ current = "resolved"               -> "reopen"
      [] OTHER                                                         -> "refused"

\* The closure policy: no incomplete remediation, or a formally accepted risk.
EvaluateFindingClosure(openActions, binding) == openActions = {} \/ binding

=============================================================================
