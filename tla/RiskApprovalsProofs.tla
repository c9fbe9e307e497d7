------------------------ MODULE RiskApprovalsProofs ------------------------
(***************************************************************************)
(* What holds of RiskApprovals for every set of users, approvals,          *)
(* treatments and connections, with and without a threshold.               *)
(*                                                                         *)
(* The argument: the row of the risk and the row of an approval each have  *)
(* one holder (Locks), so what a transaction has read of them is still     *)
(* true when it writes (InHand).  Every write that leaves the risk in      *)
(* pending_approval leaves an open approval with it, and the event it      *)
(* appends names the state the risk is in.                                 *)
(***************************************************************************)
EXTENDS RiskApprovals, TLAPS

HoldsRisk(r) == txn[r].at \in {"moving", "requesting", "decided"}

HoldsApproval(r) == txn[r].at \in {"deciding", "decided"}

Locks ==
    \A r, s \in Requests :
        /\ HoldsRisk(r) /\ HoldsRisk(s) => r = s
        /\ HoldsApproval(r) /\ HoldsApproval(s) /\ txn[r].approval = txn[s].approval => r = s

InHand(r) ==
    /\ HoldsRisk(r) => txn[r].from = risk.state
    /\ txn[r].at = "moving" =>
          txn[r].to # "pending_approval" /\ ~(txn[r].from = "pending_approval" /\ txn[r].to = "mitigation")
    /\ txn[r].at = "requesting" =>
          Open = {} /\ txn[r].from = "treatment_selection" /\ txn[r].to = "pending_approval" /\ txn[r].user \in Users
    /\ HoldsApproval(r) =>
          /\ txn[r].approval \in Open
          /\ txn[r].user \in Admins
          /\ txn[r].user # approval[txn[r].approval].requester
          /\ txn[r].verdict \in {"approved", "rejected"}
    /\ txn[r].at = "decided" =>
          /\ txn[r].from = "pending_approval"
          /\ txn[r].to = (IF txn[r].verdict = "approved" THEN "mitigation" ELSE "treatment_selection")
    /\ txn[r].at = "treating" => txn[r].plan \in Treatments

InHands == \A r \in Requests : InHand(r)

Told == last.to = risk.state

IInv == TypeOK /\ Locks /\ InHands /\ Told /\ PendingIsDecidable

-----------------------------------------------------------------------------
\* The edges, as the proofs use them.
LEMMA EdgesAre ==
    ASSUME NEW e \in Edges
    PROVE  /\ e.from \in States /\ e.to \in States
           /\ e.transition \notin ApprovalManaged =>
                 e.to # "pending_approval" /\ ~(e.from = "pending_approval" /\ e.to = "mitigation")
           /\ e.transition = "submit_for_approval" => e.from = "treatment_selection" /\ e.to = "pending_approval"
           /\ e.transition = "approve" => e.from = "pending_approval" /\ e.to = "mitigation"
           /\ e.transition = "reject" => e.from = "pending_approval" /\ e.to = "treatment_selection"
  BY DEF Edges, Edge, States, ApprovalManaged

LEMMA IdleType == Idle \in TxnRecords
  BY DEF Idle, TxnRecords, Stages, Callers, States

\* A record that a transaction begins with, and what EvaluateDecision adds.
LEMMA BeginTypes ==
    ASSUME NEW user \in Callers, NEW s \in States, NEW t \in States
    PROVE  /\ [Idle EXCEPT !.at = "moving", !.user = user, !.from = s, !.to = t] \in TxnRecords
           /\ \A plan \in Treatments \cup {NoOne} :
                [Idle EXCEPT !.at = "requesting", !.user = user, !.plan = plan, !.from = s, !.to = t] \in TxnRecords
           /\ \A a \in Approvals, verdict \in {"approved", "rejected"} :
                [Idle EXCEPT !.at = "deciding", !.user = user, !.approval = a, !.verdict = verdict] \in TxnRecords
           /\ \A plan \in Treatments : [Idle EXCEPT !.at = "treating", !.plan = plan] \in TxnRecords
<1>1. [Idle EXCEPT !.at = "moving", !.user = user, !.from = s, !.to = t] \in TxnRecords
  BY DEF Idle, TxnRecords, Stages, Callers
<1>2. \A plan \in Treatments \cup {NoOne} :
        [Idle EXCEPT !.at = "requesting", !.user = user, !.plan = plan, !.from = s, !.to = t] \in TxnRecords
  BY DEF Idle, TxnRecords, Stages, Callers
<1>3. \A a \in Approvals, verdict \in {"approved", "rejected"} :
        [Idle EXCEPT !.at = "deciding", !.user = user, !.approval = a, !.verdict = verdict] \in TxnRecords
  BY IdleType DEF Idle, TxnRecords, Stages, Callers
<1>4. \A plan \in Treatments : [Idle EXCEPT !.at = "treating", !.plan = plan] \in TxnRecords
  BY IdleType DEF Idle, TxnRecords, Stages, Callers
<1> QED
  BY <1>1, <1>2, <1>3, <1>4

LEMMA DecidedType ==
    ASSUME NEW record \in TxnRecords, NEW s \in States, NEW t \in States
    PROVE  [record EXCEPT !.at = "decided", !.from = s, !.to = t] \in TxnRecords
  BY DEF TxnRecords, Stages

LEMMA RiskTypes ==
    ASSUME NEW row \in RiskRows, NEW s \in States
    PROVE  [row EXCEPT !.state = s] \in RiskRows /\ [row EXCEPT !.state = s].state = s
  BY DEF RiskRows

-----------------------------------------------------------------------------
\* Init.
LEMMA InitHolds == Init => IInv
<1> SUFFICES ASSUME Init PROVE IInv
  OBVIOUS
<1>1. \A r \in Requests : txn[r] = Idle /\ txn[r].at = "idle"
  BY DEF Init, Idle
<1>2. Open = {}
  BY DEF Init, Open, NoApproval
<1>3. TypeOK
  <2>1. NoApproval \in ApprovalRows
    BY DEF NoApproval, ApprovalRows, Decisions, Callers
  <2>2. risk \in RiskRows /\ last \in Events
    BY DEF Init, Events, States
  <2> QED BY <1>2, <2>1, <2>2, IdleType DEF TypeOK, Init, NoApproval, TreatmentStatuses
<1>4. Locks /\ InHands
  BY <1>1 DEF Locks, InHands, InHand, HoldsRisk, HoldsApproval
<1>5. Told /\ PendingIsDecidable
  BY DEF Init, Told, PendingIsDecidable
<1> QED BY <1>3, <1>4, <1>5 DEF IInv

-----------------------------------------------------------------------------
\* Steps that move neither the state nor an approval nor the stream, and
\* change at most one transaction.

\* What one transaction's new record must satisfy for IInv to survive.
Fits(r, record) ==
    /\ record \in TxnRecords
    /\ record.at \in {"moving", "requesting", "decided"} =>
          /\ \A s \in Requests \ {r} : ~HoldsRisk(s)
          /\ record.from = risk.state
    /\ record.at = "moving" =>
          record.to # "pending_approval" /\ ~(record.from = "pending_approval" /\ record.to = "mitigation")
    /\ record.at = "requesting" =>
          Open = {} /\ record.from = "treatment_selection" /\ record.to = "pending_approval" /\ record.user \in Users
    /\ record.at \in {"deciding", "decided"} =>
          /\ \A s \in Requests \ {r} : HoldsApproval(s) => txn[s].approval # record.approval
          /\ record.approval \in Open
          /\ record.user \in Admins
          /\ record.user # approval[record.approval].requester
          /\ record.verdict \in {"approved", "rejected"}
    /\ record.at = "decided" =>
          /\ record.from = "pending_approval"
          /\ record.to = (IF record.verdict = "approved" THEN "mitigation" ELSE "treatment_selection")
    /\ record.at = "treating" => record.plan \in Treatments

LEMMA QuietStep ==
    ASSUME IInv, NEW r \in Requests, NEW record, Fits(r, record),
           txn' = [txn EXCEPT ![r] = record],
           risk' = risk, approval' = approval, last' = last,
           treatment' \in [Treatments -> TreatmentStatuses], evidence' \in BOOLEAN, gated' \in BOOLEAN
    PROVE  IInv'
<1>1. Open' = Open
  BY DEF Open
<1>2. /\ txn'[r] = record
      /\ \A s \in Requests \ {r} : txn'[s] = txn[s]
  BY DEF IInv, TypeOK
<1>3. txn' \in [Requests -> TxnRecords]
  BY DEF IInv, TypeOK, Fits
<1>4. TypeOK'
  BY <1>1, <1>3 DEF IInv, TypeOK
<1>5. Locks'
  BY <1>2 DEF IInv, Locks, Fits, HoldsRisk, HoldsApproval
<1>6. InHands'
  <2> SUFFICES ASSUME NEW s \in Requests PROVE InHand(s)'
    BY DEF InHands
  <2>1. CASE s = r
    BY <1>1, <1>2, <2>1 DEF Fits, InHand, HoldsRisk, HoldsApproval
  <2>2. CASE s # r
    BY <1>1, <1>2, <2>2 DEF IInv, InHands, InHand, HoldsRisk, HoldsApproval
  <2> QED BY <2>1, <2>2
<1>7. Told' /\ PendingIsDecidable'
  BY <1>1 DEF IInv, Told, PendingIsDecidable
<1> QED BY <1>4, <1>5, <1>6, <1>7 DEF IInv

\* Steps between transactions: the columns that feed the gates.
LEMMA GateStep ==
    ASSUME IInv, risk' \in RiskRows, risk'.state = risk.state,
           UNCHANGED <<approval, last, txn>>,
           treatment' \in [Treatments -> TreatmentStatuses], evidence' \in BOOLEAN, gated' \in BOOLEAN
    PROVE  IInv'
<1>1. Open' = Open
  BY DEF Open
<1>2. TypeOK'
  BY <1>1 DEF IInv, TypeOK
<1>3. Locks' /\ InHands'
  BY <1>1 DEF IInv, Locks, InHands, InHand, HoldsRisk, HoldsApproval
<1>4. Told' /\ PendingIsDecidable'
  BY <1>1 DEF IInv, Told, PendingIsDecidable
<1> QED BY <1>2, <1>3, <1>4 DEF IInv

-----------------------------------------------------------------------------
\* The steps that take rows, and those that give them back without a write.

LEMMA IdleFits ==
    ASSUME NEW r \in Requests
    PROVE  Fits(r, Idle)
<1>1. Idle.at = "idle"
  BY DEF Idle
<1> QED BY <1>1, IdleType DEF Fits

\* A transaction that holds nothing begins with a record that fits.
LEMMA BeginStep ==
    ASSUME IInv, NEW r \in Requests, NEW record, Begin(r, record), Fits(r, record)
    PROVE  IInv'
  BY QuietStep DEF Begin, IInv, TypeOK

LEMMA LockForTransitionStep ==
    ASSUME IInv, NEW r \in Requests, LockForTransition(r)
    PROVE  IInv'
<1>1. PICK user \in Callers, e \in Edges :
        /\ e.transition \notin ApprovalManaged
        /\ e.from = risk.state
        /\ Begin(r, [Idle EXCEPT !.at = "moving", !.user = user, !.from = risk.state, !.to = e.to])
  BY DEF LockForTransition, Allowed
<1> DEFINE record == [Idle EXCEPT !.at = "moving", !.user = user, !.from = risk.state, !.to = e.to]
<1>2. /\ record \in TxnRecords
      /\ record.at = "moving" /\ record.from = risk.state /\ record.to = e.to
  <2>1. risk.state \in States /\ e.to \in States
    BY EdgesAre DEF IInv, TypeOK, RiskRows
  <2> QED BY <2>1, BeginTypes DEF Idle
<1>3. \A s \in Requests : ~HoldsRisk(s)
  BY DEF LockForTransition, RiskFree, HoldsRisk
<1>4. Begin(r, record)
  BY <1>1
<1>5. e.to # "pending_approval" /\ ~(e.from = "pending_approval" /\ e.to = "mitigation")
  BY <1>1, EdgesAre
<1> HIDE DEF record
<1>6. Fits(r, record)
  BY <1>1, <1>2, <1>3, <1>5 DEF Fits
<1> QED BY <1>4, <1>6, BeginStep

LEMMA LockForRequestStep ==
    ASSUME IInv, NEW r \in Requests, LockForRequest(r)
    PROVE  IInv'
<1>1. PICK user \in Users, plan \in Plans \cup {NoOne}, e \in Edges :
        /\ e.transition = "submit_for_approval"
        /\ e.from = risk.state
        /\ Begin(r, [Idle EXCEPT !.at = "requesting", !.user = user, !.plan = plan,
                                 !.from = risk.state, !.to = e.to])
  BY DEF LockForRequest, Allowed
<1> DEFINE record == [Idle EXCEPT !.at = "requesting", !.user = user, !.plan = plan, !.from = risk.state, !.to = e.to]
<1>2. /\ record \in TxnRecords
      /\ record.at = "requesting" /\ record.from = risk.state /\ record.to = e.to /\ record.user = user
  <2>1. risk.state \in States /\ e.to \in States
    BY EdgesAre DEF IInv, TypeOK, RiskRows
  <2>2. user \in Callers /\ plan \in Treatments \cup {NoOne}
    BY DEF Callers, Plans
  <2> QED BY <2>1, <2>2, BeginTypes DEF Idle
<1>3. (\A s \in Requests : ~HoldsRisk(s)) /\ Open = {}
  BY DEF LockForRequest, RiskFree, HoldsRisk, NoneOpen
<1>4. Begin(r, record)
  BY <1>1
<1>5. e.from = "treatment_selection" /\ e.to = "pending_approval"
  BY <1>1, EdgesAre
<1> HIDE DEF record
<1>6. Fits(r, record)
  BY <1>1, <1>2, <1>3, <1>5 DEF Fits
<1> QED BY <1>4, <1>6, BeginStep

LEMMA LockForDecisionStep ==
    ASSUME IInv, NEW r \in Requests, LockForDecision(r)
    PROVE  IInv'
<1>1. PICK user \in Admins, a \in Open, verdict \in {"approved", "rejected"} :
        /\ ApprovalFree(a)
        /\ approval[a].requester # user
        /\ Begin(r, [Idle EXCEPT !.at = "deciding", !.user = user, !.approval = a, !.verdict = verdict])
  BY DEF LockForDecision
<1> DEFINE record == [Idle EXCEPT !.at = "deciding", !.user = user, !.approval = a, !.verdict = verdict]
<1>2. /\ record \in TxnRecords
      /\ record.at = "deciding" /\ record.user = user /\ record.approval = a /\ record.verdict = verdict
  <2>1. user \in Callers /\ a \in Approvals /\ "draft" \in States
    BY UsersAssumption DEF Callers, Open, States
  <2> QED BY <2>1, BeginTypes DEF Idle
<1>3. \A s \in Requests : HoldsApproval(s) => txn[s].approval # a
  BY <1>1 DEF ApprovalFree, HoldsApproval
<1>4. Begin(r, record)
  BY <1>1
<1> HIDE DEF record
<1>5. Fits(r, record)
  BY <1>1, <1>2, <1>3 DEF Fits
<1> QED BY <1>4, <1>5, BeginStep

LEMMA EvaluateDecisionStep ==
    ASSUME IInv, NEW r \in Requests, EvaluateDecision(r)
    PROVE  IInv'
<1>1. PICK e \in Edges :
        /\ e.transition = (IF txn[r].verdict = "approved" THEN "approve" ELSE "reject")
        /\ e.from = risk.state
        /\ txn' = [txn EXCEPT ![r].at = "decided", ![r].from = risk.state, ![r].to = e.to]
  BY DEF EvaluateDecision, DecisionEdges, Allowed
<1> DEFINE record == [txn[r] EXCEPT !.at = "decided", !.from = risk.state, !.to = e.to]
<1>2. txn[r] \in TxnRecords /\ txn[r].at = "deciding" /\ risk.state \in States
  BY DEF IInv, TypeOK, RiskRows, EvaluateDecision
<1>3. record \in TxnRecords
  BY <1>2, DecidedType, EdgesAre
<1>4. /\ record.at = "decided" /\ record.from = risk.state /\ record.to = e.to
      /\ record.user = txn[r].user /\ record.approval = txn[r].approval /\ record.verdict = txn[r].verdict
  BY <1>2 DEF TxnRecords
<1>5. txn' = [txn EXCEPT ![r] = record]
  BY <1>1
<1>6. \A s \in Requests : ~HoldsRisk(s)
  BY DEF EvaluateDecision, RiskFreeForDecision, RiskFree, HoldsRisk
<1>7. /\ e.from = "pending_approval"
      /\ e.to = (IF txn[r].verdict = "approved" THEN "mitigation" ELSE "treatment_selection")
  BY <1>1, EdgesAre
<1>8. /\ HoldsApproval(r)
      /\ \A s \in Requests \ {r} : HoldsApproval(s) => txn[s].approval # txn[r].approval
      /\ InHand(r)
  BY <1>2 DEF IInv, Locks, InHands, HoldsApproval
<1> HIDE DEF record
<1>9. Fits(r, record)
  BY <1>1, <1>3, <1>4, <1>6, <1>7, <1>8 DEF Fits, InHand
<1> QED BY <1>5, <1>9, QuietStep DEF EvaluateDecision, IInv, TypeOK

LEMMA LockForTreatmentStep ==
    ASSUME IInv, NEW r \in Requests, LockForTreatment(r)
    PROVE  IInv'
<1>1. PICK t \in Treatments : Begin(r, [Idle EXCEPT !.at = "treating", !.plan = t])
  BY DEF LockForTreatment
<1> DEFINE record == [Idle EXCEPT !.at = "treating", !.plan = t]
<1>2. record \in TxnRecords /\ record.at = "treating" /\ record.plan = t
  <2>1. NoOne \in Callers /\ "draft" \in States
    BY DEF Callers, States
  <2> QED BY <2>1, BeginTypes DEF Idle
<1>3. Begin(r, record)
  BY <1>1
<1> HIDE DEF record
<1>4. Fits(r, record)
  BY <1>2 DEF Fits
<1> QED BY <1>3, <1>4, BeginStep

LEMMA FinishTreatmentStep ==
    ASSUME IInv, NEW r \in Requests, FinishTreatment(r)
    PROVE  IInv'
<1>1. treatment' \in [Treatments -> TreatmentStatuses]
  BY DEF FinishTreatment, IInv, TypeOK, TreatmentStatuses
<1> QED BY <1>1, IdleFits, QuietStep DEF FinishTreatment, IInv, TypeOK

LEMMA RollbackStep ==
    ASSUME IInv, NEW r \in Requests, Rollback(r)
    PROVE  IInv'
  BY IdleFits, QuietStep DEF Rollback, IInv, TypeOK

-----------------------------------------------------------------------------
\* The writes.  The writer held the risk, so it finds the state it read, and
\* every other transaction finds its own rows unchanged.

LEMMA Written ==
    ASSUME IInv, NEW r \in Requests, NEW a, Move(r, a), HoldsRisk(r), a \in Approvals \cup {NoOne}
    PROVE  /\ txn[r].from = risk.state /\ risk'.state = txn[r].to /\ risk' \in RiskRows
           /\ last' = [from |-> txn[r].from, to |-> txn[r].to, approval |-> a] /\ last' \in Events
           /\ txn' \in [Requests -> TxnRecords] /\ txn'[r].at = "idle"
           /\ \A s \in Requests \ {r} : txn'[s] = txn[s] /\ ~HoldsRisk(s)
           /\ Locks' /\ Told'
           /\ UNCHANGED <<treatment, evidence, gated>>
<1>1. txn[r] \in TxnRecords /\ risk \in RiskRows /\ txn \in [Requests -> TxnRecords]
  BY DEF IInv, TypeOK
<1>2. txn[r].to \in States /\ txn[r].from \in States
  BY <1>1 DEF TxnRecords
<1>3. txn[r].from = risk.state
  BY DEF IInv, InHands, InHand
<1>4. risk' \in RiskRows /\ risk'.state = txn[r].to
  BY <1>1, <1>2, RiskTypes DEF Move
<1>5. last' = [from |-> txn[r].from, to |-> txn[r].to, approval |-> a] /\ last' \in Events
  BY <1>2 DEF Move, Events
<1>6. txn' \in [Requests -> TxnRecords] /\ txn'[r].at = "idle"
  <2>1. Idle.at = "idle"
    BY DEF Idle
  <2> QED BY <1>1, <2>1, IdleType DEF Move
<1>7. \A s \in Requests \ {r} : txn'[s] = txn[s] /\ ~HoldsRisk(s)
  BY <1>1 DEF Move, IInv, Locks
<1>8. Locks'
  BY <1>6, <1>7 DEF IInv, Locks, HoldsRisk, HoldsApproval
<1>9. Told'
  BY <1>4, <1>5 DEF Told
<1> QED BY <1>3, <1>4, <1>5, <1>6, <1>7, <1>8, <1>9 DEF Move

LEMMA ExecuteStep ==
    ASSUME IInv, NEW r \in Requests, ExecuteRiskTransition(r)
    PROVE  IInv'
<1>1. Move(r, NoOne) /\ HoldsRisk(r) /\ Open' = Open /\ approval' = approval
  BY DEF ExecuteRiskTransition, HoldsRisk, Open
<1>2. TypeOK'
  BY <1>1, Written DEF IInv, TypeOK
<1>3. InHands'
  <2> SUFFICES ASSUME NEW s \in Requests PROVE InHand(s)'
    BY DEF InHands
  <2>1. CASE s = r
    BY <1>1, <2>1, Written DEF InHand, HoldsRisk, HoldsApproval
  <2>2. CASE s # r
    BY <1>1, <2>2, Written DEF IInv, InHands, InHand, HoldsRisk, HoldsApproval
  <2> QED BY <2>1, <2>2
<1>4. PendingIsDecidable'
  BY <1>1, Written DEF ExecuteRiskTransition, IInv, InHands, InHand, PendingIsDecidable
<1> QED BY <1>1, <1>2, <1>3, <1>4, Written DEF IInv

LEMMA RequestStep ==
    ASSUME IInv, NEW r \in Requests, RequestRiskApproval(r)
    PROVE  IInv'
<1>1. PICK a \in Approvals :
        /\ approval[a].decision = "none"
        /\ approval' = [approval EXCEPT ![a] = [decision |-> "pending", requester |-> txn[r].user, approver |-> NoOne]]
        /\ Move(r, a)
  BY DEF RequestRiskApproval
<1>2. /\ HoldsRisk(r)
      /\ Open = {} /\ txn[r].to = "pending_approval" /\ txn[r].user \in Users
  BY DEF RequestRiskApproval, IInv, InHands, InHand, HoldsRisk
<1>3. approval \in [Approvals -> ApprovalRows]
  BY DEF IInv, TypeOK
<1>4. /\ approval' \in [Approvals -> ApprovalRows]
      /\ approval'[a] = [decision |-> "pending", requester |-> txn[r].user, approver |-> NoOne]
      /\ \A b \in Approvals \ {a} : approval'[b] = approval[b]
  BY <1>1, <1>2, <1>3 DEF ApprovalRows, Decisions, Callers
<1>5. Open' = {a}
  BY <1>2, <1>4 DEF Open
<1>6. TypeOK'
  BY <1>1, <1>2, <1>4, <1>5, Written DEF IInv, TypeOK
<1>7. InHands'
  <2> SUFFICES ASSUME NEW s \in Requests PROVE InHand(s)'
    BY DEF InHands
  <2>1. CASE s = r
    BY <1>1, <1>2, <2>1, Written DEF InHand, HoldsRisk, HoldsApproval
  <2>2. CASE s # r
    \* Nothing was open, so nobody is deciding; nobody else holds the risk.
    <3>1. ~HoldsApproval(s) /\ ~HoldsRisk(s) /\ txn'[s] = txn[s]
      BY <1>1, <1>2, <2>2, Written DEF IInv, InHands, InHand
    <3> QED BY <3>1 DEF IInv, InHands, InHand, HoldsRisk, HoldsApproval
  <2> QED BY <2>1, <2>2
<1>8. PendingIsDecidable'
  BY <1>5 DEF PendingIsDecidable
<1> QED BY <1>1, <1>2, <1>6, <1>7, <1>8, Written DEF IInv

\* What a decision does to the approvals.
LEMMA Decided ==
    ASSUME IInv, NEW r \in Requests, DecideRiskApproval(r)
    PROVE  /\ HoldsRisk(r) /\ HoldsApproval(r) /\ InHand(r) /\ txn[r].approval \in Open
           /\ approval' \in [Approvals -> ApprovalRows]
           /\ approval'[txn[r].approval].decision = txn[r].verdict
           /\ approval'[txn[r].approval].approver = txn[r].user
           /\ approval'[txn[r].approval].requester = approval[txn[r].approval].requester
           /\ \A b \in Approvals \ {txn[r].approval} : approval'[b] = approval[b]
<1>1. HoldsRisk(r) /\ HoldsApproval(r) /\ InHand(r) /\ txn[r].approval \in Open
  BY DEF DecideRiskApproval, IInv, InHands, InHand, HoldsRisk, HoldsApproval
<1>2. txn[r].approval \in Approvals /\ approval \in [Approvals -> ApprovalRows]
  BY <1>1 DEF Open, IInv, TypeOK
<1>3. txn[r].user \in Callers /\ txn[r].verdict \in Decisions
  BY <1>1, UsersAssumption DEF InHand, Callers, Decisions
<1> DEFINE row == [approval[txn[r].approval] EXCEPT !.decision = txn[r].verdict, !.approver = txn[r].user]
<1>4. row \in ApprovalRows /\ row.decision = txn[r].verdict /\ row.approver = txn[r].user
      /\ row.requester = approval[txn[r].approval].requester
  BY <1>2, <1>3 DEF ApprovalRows
<1>5. approval' = [approval EXCEPT ![txn[r].approval] = row]
  BY DEF DecideRiskApproval
<1> HIDE DEF row
<1> QED BY <1>1, <1>2, <1>4, <1>5

LEMMA DecideStep ==
    ASSUME IInv, NEW r \in Requests, DecideRiskApproval(r)
    PROVE  IInv'
<1> DEFINE a == txn[r].approval
<1>1. /\ HoldsRisk(r) /\ HoldsApproval(r) /\ a \in Open /\ a \in Approvals
      /\ txn[r].user # approval[a].requester /\ txn[r].verdict \in {"approved", "rejected"}
      /\ txn[r].to # "pending_approval"
      /\ Move(r, a)
  BY Decided DEF InHand, Open, DecideRiskApproval
<1>2. Open' = Open \ {a}
  BY <1>1, Decided DEF Open
<1>3. TypeOK'
  <2>1. \A b \in Approvals : approval'[b].approver # NoOne => approval'[b].approver # approval'[b].requester
    BY <1>1, Decided DEF IInv, TypeOK
  <2>2. \A b, c \in Open' : b = c
    BY <1>2 DEF IInv, TypeOK
  <2> QED BY <1>1, <2>1, <2>2, Written, Decided DEF IInv, TypeOK
<1>4. InHands'
  <2> SUFFICES ASSUME NEW s \in Requests PROVE InHand(s)'
    BY DEF InHands
  <2>1. CASE s = r
    BY <1>1, <2>1, Written DEF InHand, HoldsRisk, HoldsApproval
  <2>2. CASE s # r
    <3>1. txn'[s] = txn[s] /\ ~HoldsRisk(s) /\ InHand(s)
      BY <1>1, <2>2, Written DEF IInv, InHands
    <3>2. HoldsApproval(s) => txn[s].approval \in Open \ {a}
      BY <1>1, <2>2, <3>1 DEF IInv, Locks, InHand
    <3>3. HoldsApproval(s) => approval'[txn[s].approval] = approval[txn[s].approval]
      BY <3>2, Decided DEF Open
    <3> QED BY <1>2, <3>1, <3>2, <3>3 DEF InHand, HoldsRisk, HoldsApproval
  <2> QED BY <2>1, <2>2
<1>5. PendingIsDecidable'
  BY <1>1, Written DEF PendingIsDecidable
<1> QED BY <1>1, <1>3, <1>4, <1>5, Written DEF IInv

-----------------------------------------------------------------------------
\* Every step.

LEMMA GateSteps ==
    ASSUME IInv
    PROVE  /\ \A t \in Treatments : StartTreatment(t) \/ CreateTreatment(t) => IInv'
           /\ PatchRisk => IInv'
           /\ ChangeEvidence => IInv'
<1>1. ASSUME NEW t \in Treatments, StartTreatment(t) \/ CreateTreatment(t) PROVE IInv'
  <2>1. treatment' \in [Treatments -> TreatmentStatuses]
    BY <1>1 DEF StartTreatment, CreateTreatment, IInv, TypeOK, TreatmentStatuses
  <2> QED BY <1>1, <2>1, GateStep DEF StartTreatment, CreateTreatment, IInv, TypeOK
<1>2. ASSUME PatchRisk PROVE IInv'
  <2>1. risk \in RiskRows
    BY DEF IInv, TypeOK
  <2>2. risk' \in RiskRows /\ risk'.state = risk.state
    BY <1>2, <2>1 DEF PatchRisk, RiskRows
  <2> QED BY <1>2, <2>2, GateStep DEF PatchRisk, IInv, TypeOK
<1>3. ASSUME ChangeEvidence PROVE IInv'
  BY <1>3, GateStep DEF ChangeEvidence, IInv, TypeOK
<1> QED BY <1>1, <1>2, <1>3

LEMMA NextHolds == IInv /\ [Next]_vars => IInv'
<1> SUFFICES ASSUME IInv, [Next]_vars PROVE IInv'
  OBVIOUS
<1>1. CASE UNCHANGED vars
  BY <1>1, GateStep DEF vars, IInv, TypeOK
<1>2. CASE Next
  <2>1. ASSUME NEW r \in Requests,
               \/ LockForTransition(r) \/ ExecuteRiskTransition(r)
               \/ LockForRequest(r) \/ RequestRiskApproval(r)
               \/ LockForDecision(r) \/ EvaluateDecision(r) \/ DecideRiskApproval(r)
               \/ LockForTreatment(r) \/ FinishTreatment(r)
               \/ Rollback(r)
        PROVE  IInv'
    BY <2>1, LockForTransitionStep, ExecuteStep, LockForRequestStep, RequestStep, LockForDecisionStep,
       EvaluateDecisionStep, DecideStep, LockForTreatmentStep, FinishTreatmentStep, RollbackStep
  <2> QED BY <1>2, <2>1, GateSteps DEF Next
<1> QED BY <1>1, <1>2

\* The inductive invariant: one holder per row, and what a holder has read is
\* what it will find when it writes.
THEOREM ApprovalsInvariant == Spec => []IInv
<1>1. Init => IInv
  BY InitHolds
<1>2. IInv /\ [Next]_vars => IInv'
  BY NextHolds
<1> QED BY <1>1, <1>2, PTL DEF Spec

\* Every reachable state is well typed, nobody approved a plan of their own,
\* and no two approvals are open.
THEOREM ApprovalsTypeCorrect == Spec => []TypeOK
<1>1. IInv => TypeOK
  BY DEF IInv
<1> QED BY <1>1, ApprovalsInvariant, PTL

\* A risk that waits for approval can be decided.
THEOREM PendingIsDecidableTheorem == Spec => []PendingIsDecidable
<1>1. IInv => PendingIsDecidable
  BY DEF IInv
<1> QED BY <1>1, ApprovalsInvariant, PTL

-----------------------------------------------------------------------------
\* What a step may never do.

LEMMA Movers ==
    ASSUME IInv, [Next]_vars
    PROVE  \/ risk'.state = risk.state /\ last' = last /\ approval' = approval
           \/ \E r \in Requests : ExecuteRiskTransition(r) \/ RequestRiskApproval(r) \/ DecideRiskApproval(r)
<1>1. PatchRisk => risk'.state = risk.state /\ last' = last /\ approval' = approval
  BY DEF PatchRisk, IInv, TypeOK, RiskRows
<1>2. ASSUME NEW r \in Requests,
             \/ LockForTransition(r) \/ LockForRequest(r) \/ LockForDecision(r) \/ EvaluateDecision(r)
             \/ LockForTreatment(r) \/ FinishTreatment(r) \/ Rollback(r)
      PROVE  risk' = risk /\ last' = last /\ approval' = approval
  BY <1>2 DEF LockForTransition, LockForRequest, LockForDecision, EvaluateDecision, LockForTreatment,
              FinishTreatment, Rollback, Begin
<1>3. ASSUME NEW t \in Treatments, StartTreatment(t) \/ CreateTreatment(t)
      PROVE  risk' = risk /\ last' = last /\ approval' = approval
  BY <1>3 DEF StartTreatment, CreateTreatment
<1>4. ChangeEvidence \/ UNCHANGED vars => risk' = risk /\ last' = last /\ approval' = approval
  BY DEF ChangeEvidence, vars
<1> QED BY <1>1, <1>2, <1>3, <1>4 DEF Next

LEMMA ChainStep ==
    ASSUME IInv, [Next]_vars
    PROVE  risk'.state # risk.state \/ last' # last
              => last.to = risk.state /\ last'.from = last.to /\ last'.to = risk'.state
<1>1. last.to = risk.state
  BY DEF IInv, Told
<1>2. ASSUME NEW r \in Requests, ExecuteRiskTransition(r) \/ RequestRiskApproval(r) \/ DecideRiskApproval(r)
      PROVE  last'.from = last.to /\ last'.to = risk'.state
  <2>1. /\ HoldsRisk(r)
        /\ \E a \in Approvals \cup {NoOne} : Move(r, a)
    <3>1. ASSUME DecideRiskApproval(r) PROVE HoldsRisk(r) /\ txn[r].approval \in Approvals
      BY <3>1, Decided DEF Open
    <3> QED BY <1>2, <3>1 DEF ExecuteRiskTransition, RequestRiskApproval, DecideRiskApproval, HoldsRisk
  <2> QED BY <1>1, <2>1, Written
<1> QED BY <1>1, <1>2, Movers

\* Who moves a risk out of pending_approval, and who changes an approval.
LEMMA DecisionsStep ==
    ASSUME IInv, [Next]_vars
    PROVE  /\ risk.state = "pending_approval" /\ risk'.state = "mitigation"
                 => \E a \in Open : /\ approval'[a].decision = "approved"
                                    /\ approval'[a].approver \in Admins \ {approval[a].requester}
           /\ \A a \in Approvals :
                 approval[a].decision \in {"approved", "rejected"} => approval'[a] = approval[a]
<1>1. ASSUME NEW r \in Requests, ExecuteRiskTransition(r)
      PROVE  /\ ~(risk.state = "pending_approval" /\ risk'.state = "mitigation")
             /\ approval' = approval
  <2>1. Move(r, NoOne) /\ HoldsRisk(r) /\ InHand(r) /\ approval' = approval
    BY <1>1 DEF ExecuteRiskTransition, HoldsRisk, IInv, InHands
  <2> QED BY <1>1, <2>1, Written DEF InHand, ExecuteRiskTransition
<1>2. ASSUME NEW r \in Requests, RequestRiskApproval(r)
      PROVE  /\ risk.state # "pending_approval"
             /\ \A a \in Approvals : approval[a].decision # "none" => approval'[a] = approval[a]
  <2>1. HoldsRisk(r) /\ InHand(r) /\ txn[r].at = "requesting"
    BY <1>2 DEF RequestRiskApproval, HoldsRisk, IInv, InHands
  <2> QED BY <1>2, <2>1 DEF InHand, RequestRiskApproval, IInv, TypeOK
<1>3. ASSUME NEW r \in Requests, DecideRiskApproval(r)
      PROVE  /\ risk'.state = "mitigation" =>
                   /\ txn[r].approval \in Open
                   /\ approval'[txn[r].approval].decision = "approved"
                   /\ approval'[txn[r].approval].approver \in Admins \ {approval[txn[r].approval].requester}
             /\ \A a \in Approvals \ Open : approval'[a] = approval[a]
  <2>1. HoldsRisk(r) /\ Move(r, txn[r].approval) /\ txn[r].approval \in Approvals /\ InHand(r) /\ txn[r].at = "decided"
    BY <1>3, Decided DEF DecideRiskApproval, Open
  <2>2. risk'.state = txn[r].to
    BY <2>1, Written
  <2> QED BY <1>3, <2>1, <2>2, Decided DEF InHand, HoldsApproval
<1>4. \A a \in Approvals : approval[a].decision \in {"approved", "rejected"} => approval[a].decision # "none" /\ a \notin Open
  BY DEF Open
<1> QED BY <1>1, <1>2, <1>3, <1>4, Movers

\* The event stream of a risk is a chain that ends in its state: no handler
\* overwrites the move of another.
THEOREM EventsChainTheorem == Spec => EventsChain
<1>1. IInv /\ [Next]_vars =>
        [risk'.state # risk.state \/ last' # last
          => /\ last.to = risk.state
             /\ last'.from = last.to
             /\ last'.to = risk'.state]_vars
  BY ChainStep
<1> QED BY <1>1, ApprovalsInvariant, PTL DEF Spec, EventsChain

\* Mitigation of a plan that waits for approval begins with the approval of
\* this plan, by an administrator who did not request it.
THEOREM MitigationNeedsApprovalTheorem == Spec => MitigationNeedsApproval
<1>1. IInv /\ [Next]_vars =>
        [risk.state = "pending_approval" /\ risk'.state = "mitigation"
          => \E a \in Open :
                /\ approval'[a].decision = "approved"
                /\ approval'[a].approver \in Admins \ {approval[a].requester}]_vars
  BY DecisionsStep
<1> QED BY <1>1, ApprovalsInvariant, PTL DEF Spec, MitigationNeedsApproval

\* An approval is decided once.
THEOREM DecisionIsFinalTheorem == Spec => DecisionIsFinal
<1>1. IInv /\ [Next]_vars =>
        [\A a \in Approvals :
          approval[a].decision \in {"approved", "rejected"} => approval'[a] = approval[a]]_vars
  BY DecisionsStep
<1> QED BY <1>1, ApprovalsInvariant, PTL DEF Spec, DecisionIsFinal

=============================================================================
