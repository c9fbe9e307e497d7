------------------------ MODULE FindingTransactions ------------------------
(***************************************************************************)
(* The handlers of FindingGovernance taken apart into the statements of    *)
(* their transactions, under PostgreSQL's READ COMMITTED: a statement sees *)
(* what is committed when it starts and its own transaction's writes, and  *)
(* a row that another transaction has written is waited for.               *)
(*                                                                         *)
(* The variables of FindingGovernance are the committed database.  Every   *)
(* handler that moves the finding locks its row (SELECT ... FOR UPDATE)    *)
(* after writing rows of its own and before reading what it derives from;  *)
(* three writers take no lock on it: the generated action, the policy and  *)
(* the date.                                                               *)
(***************************************************************************)
EXTENDS FindingGovernance

CONSTANTS
    Txns,           \* connections: each runs one transaction at a time
    Requests,       \* what may be asked of them
    MidnightPasses  \* whether CURRENT_DATE moves

RequestRecords ==
    [op : {"create_action", "unblock_action"}, action : Actions, caller : Callers]
        \cup [op : {"update_action"}, action : Actions, status : ActionStatuses, caller : Callers]
        \cup [op : {"attach_evidence"}, caller : Callers]
        \cup [op : {"approve", "reject"}, acceptance : Acceptances, caller : Users]
        \cup [op : {"withdraw"}, acceptance : Acceptances, caller : Callers]
        \cup [op : {"sweep"}, caller : {NoOne}]
        \cup [op : {"patch"}, legacy : LegacyStatuses \cup {Unset}, target : DecisionStates \cup {Unset},
              caller : Callers]

ASSUME RequestsAssumption == Requests \subseteq RequestRecords
ASSUME MidnightAssumption == MidnightPasses \in BOOLEAN

VARIABLE txn    \* the transaction of each connection

txVars == <<finding, action, hasEvidence, acceptance, policy, txn>>

\* at:     "idle", then "issued" (an UPDATE of an action has taken its snapshot
\*         and waits for the row), "written" (rows of its own), "locked" (the
\*         finding's row), "set" (its decision and closure), "read" (the
\*         actions) and "derived", from which only the commit is left.
\* unseen: the acceptances that lapsed since BEGIN, which fixed CURRENT_DATE.
\* prior:  the action status the UPDATE's snapshot saw, for the audit record.
\* rows:   the acceptances it has locked.
\* row:    its version of the finding.
\* acts:   the actions it read.
Idle == [at |-> "idle"]

Stages == {"issued", "written", "locked", "set", "read", "derived"}

TxTypeOK ==
    /\ TypeOK
    /\ \A t \in Txns :
          \/ txn[t] = Idle
          \/ /\ txn[t].at \in Stages /\ txn[t].request \in Requests
             /\ txn[t].unseen \subseteq Acceptances /\ txn[t].rows \subseteq Acceptances
             /\ txn[t].row \in FindingRows
             /\ txn[t].reopen \in BOOLEAN

-----------------------------------------------------------------------------
\* What a transaction sees and holds.

Op(t)     == txn[t].request.op
Caller(t) == txn[t].request.caller
Active(t) == txn[t].at # "idle"

ActionOps  == {"create_action", "update_action", "unblock_action"}
CascadeOps == ActionOps \cup {"attach_evidence"}
EndOps     == {"reject", "withdraw", "sweep"}

HasWritten(t) == txn[t].at \in Stages \ {"issued"}

ActionFree(a) ==
    \A u \in Txns : HasWritten(u) /\ Op(u) \in ActionOps => txn[u].request.action # a

AcceptanceFree(r) == \A u \in Txns : HasWritten(u) => r \notin txn[u].rows

\* Variant: the row is read without FOR UPDATE.
FindingFreeAlways(t) == txn[t].at \in Stages

FindingFree(t) == \A u \in Txns \ {t} : txn[u].at \notin {"locked", "set", "read", "derived"}

NewActionStatus(request) ==
    CASE request.op = "create_action"  -> "open"
      [] request.op = "unblock_action" -> "in_progress"
      [] request.op = "update_action"  -> request.status

\* Variant: the request's verb written as the state.
EndStateUnmapped(op) == op

EndState(op) ==
    CASE op = "approve"  -> "approved"
      [] op = "reject"   -> "rejected"
      [] op = "withdraw" -> "withdrawn"
      [] op = "sweep"    -> "expired"

\* The committed tables with the transaction's own writes.
ActionsOf(t) ==
    IF Op(t) \in ActionOps
    THEN [action EXCEPT ![txn[t].request.action] = NewActionStatus(txn[t].request)]
    ELSE action

EvidenceOf(t) == hasEvidence \/ Op(t) = "attach_evidence"

AcceptancesOf(t) ==
    [r \in Acceptances |->
        IF r \in txn[t].rows THEN [acceptance[r] EXCEPT !.state = EndState(Op(t))] ELSE acceptance[r]]

\* The same rows, with CURRENT_DATE as it was at BEGIN.
AsOfBegin(t) ==
    [r \in Acceptances |-> [AcceptancesOf(t)[r] EXCEPT !.lapsed = @ /\ r \notin txn[t].unseen]]

Start(request, at, rows) ==
    [at |-> at, request |-> request, unseen |-> {}, prior |-> "none", rows |-> rows, row |-> NewFinding, reopen |-> FALSE, acts |-> <<>>]

Step(t, record) == txn' = [txn EXCEPT ![t] = record] /\ UNCHANGED vars

-----------------------------------------------------------------------------
\* BEGIN and the rows of the request's own.

\* PATCH /api/actions/:id is one UPDATE ... FROM prev: the snapshot is taken
\* here, the row is waited for in WriteAction.
IssueUpdate(t, request) ==
    /\ request.op = "update_action" /\ action[request.action] # "none"
    /\ Step(t, [Start(request, "issued", {}) EXCEPT !.prior = action[request.action]])

WriteAction(t) ==
    /\ txn[t].at = "issued" /\ ActionFree(txn[t].request.action)
    /\ Step(t, [txn[t] EXCEPT !.at = "written"])

BeginActionRow(t, request) ==
    /\ \/ request.op = "create_action" /\ action[request.action] = "none" /\ request.action \notin AutoActions
       \/ request.op = "unblock_action" /\ action[request.action] = "blocked"
    /\ ActionFree(request.action)
    /\ Step(t, Start(request, "written", {}))

BeginEvidence(t, request) ==
    /\ request.op = "attach_evidence"
    /\ Step(t, Start(request, "written", {}))

\* The row is read FOR UPDATE, so what was checked stays until the commit.
BeginAcceptance(t, request) ==
    /\ AcceptanceWorkflow
    /\ \/ /\ request.op \in {"approve", "reject"}
          /\ acceptance[request.acceptance].state = "proposed"
          /\ acceptance[request.acceptance].requester # request.caller
       \/ request.op = "withdraw" /\ acceptance[request.acceptance].state \in LiveStates
    /\ AcceptanceFree(request.acceptance)
    /\ Step(t, Start(request, "written", {request.acceptance}))

BeginSweep(t, request) ==
    /\ AcceptanceWorkflow /\ request.op = "sweep"
    /\ Due # {} /\ \A r \in Due : AcceptanceFree(r)
    /\ Step(t, Start(request, "written", Due))

BeginPatch(t, request) ==
    /\ request.op = "patch" /\ ~DirectRiskAcceptanceBlocked(request.legacy, request.target)
    /\ Step(t, Start(request, "written", {}))

Begin(t) ==
    /\ txn[t].at = "idle"
    /\ \E request \in Requests :
          \/ IssueUpdate(t, request) \/ BeginActionRow(t, request) \/ BeginEvidence(t, request)
          \/ BeginAcceptance(t, request) \/ BeginSweep(t, request) \/ BeginPatch(t, request)

-----------------------------------------------------------------------------
\* The finding's row.

\* The sweep locks no finding for an exception.
TouchesFinding(t) ==
    Op(t) # "sweep" \/ \E r \in txn[t].rows : acceptance[r].kind = "acceptance"

\* What the workflow and the cascades do with the row as soon as they hold it.
Prepared(t) ==
    CASE Op(t) = "approve"     -> AcceptRisk(finding, acceptance[txn[t].request.acceptance].kind)
      [] Op(t) \in EndOps      -> ReleaseClosure(finding)
      [] OTHER                 -> finding

LockFinding(t) ==
    /\ txn[t].at = "written" /\ TouchesFinding(t) /\ FindingFree(t)
    /\ Step(t, [txn[t] EXCEPT !.at = IF Op(t) = "patch" THEN "locked" ELSE "set", !.row = Prepared(t)])

PatchTransition(t) == Transition(txn[t].request.target, Caller(t))

PatchRefused(t) ==
    PatchTransition(t) = "refused" \/ LegacyCloseRefused(txn[t].request.legacy, AsOfBegin(t))

\* Variant: a refused PATCH answers and leaves its transaction open.
RefuseAndHold(t) ==
    /\ txn[t].at = "locked" /\ PatchRefused(t)
    /\ UNCHANGED txVars

\* A refusal, and the UPDATE that the CHECK rejects, end the transaction with
\* nothing written.
RefusePatch(t) ==
    /\ txn[t].at = "locked"
    /\ \/ PatchRefused(t)
       \/ /\ txn[t].request.legacy # Unset
          /\ LET written == ApplyLegacyStatus(finding, txn[t].request.legacy, AsOfBegin(t), Caller(t))
             IN  ~AxesAgree(written.operational, written.status)
    /\ Step(t, Idle)

WritePatch(t) ==
    LET legacy     == txn[t].request.legacy
        written    == IF legacy = Unset THEN finding
                      ELSE ApplyLegacyStatus(finding, legacy, AsOfBegin(t), Caller(t))
        transition == PatchTransition(t)
    IN  /\ txn[t].at = "locked" /\ ~PatchRefused(t)
        /\ AxesAgree(written.operational, written.status)
        /\ Step(t, [txn[t] EXCEPT !.at = "set", !.reopen = (transition = "reopen"),
                                  !.row = ApplyDecision(written, transition, txn[t].request.target)])

\* recomputeFindingOperationalStatus: first the actions, ...
ReadActions(t) ==
    /\ txn[t].at = "set"
    /\ Step(t, [txn[t] EXCEPT !.at = "read", !.acts = ActionsOf(t)])

\* ... then the gate and the acceptances, and the UPDATE with its event.
Derive(t) ==
    /\ txn[t].at = "read"
    /\ Step(t, [txn[t] EXCEPT !.at = "derived", !.acts = <<>>,
                   !.row = RecomputeFindingOperationalStatus(@, txn[t].acts, EvidenceOf(t), AsOfBegin(t),
                                                             Caller(t), txn[t].reopen)])

Commit(t) ==
    /\ \/ txn[t].at = "derived" /\ finding' = txn[t].row
       \/ txn[t].at = "written" /\ ~TouchesFinding(t) /\ finding' = finding
    /\ action' = ActionsOf(t) /\ hasEvidence' = EvidenceOf(t) /\ acceptance' = AcceptancesOf(t)
    /\ txn' = [txn EXCEPT ![t] = Idle]
    /\ UNCHANGED policy

\* The process dies, the connection is lost or a deadlock is broken: ROLLBACK.
Abort(t) == Active(t) /\ Step(t, Idle)

\* Writers that lock no row another transaction reads for.
Unlocked ==
    /\ \/ \E a \in AutoActions : GenerateAction(a)
       \/ \E p \in Policies : PutRiskSettings(p)
       \/ \E r \in Acceptances, k \in {"acceptance", "exception"}, u \in Users, l \in BOOLEAN : Propose(r, k, u, l)
    /\ UNCHANGED txn

\* CURRENT_DATE moves for the transactions that begin from now on.
Midnight(r) ==
    /\ MidnightPasses /\ Lapse(r)
    /\ txn' = [t \in Txns |-> IF Active(t) THEN [txn[t] EXCEPT !.unseen = @ \cup {r}] ELSE txn[t]]

TxInit == Init /\ txn = [t \in Txns |-> Idle]

Progress(t) ==
    WriteAction(t) \/ RefusePatch(t) \/ WritePatch(t) \/ ReadActions(t) \/ Derive(t) \/ Commit(t)

TxNext ==
    \/ \E t \in Txns : Begin(t) \/ LockFinding(t) \/ Progress(t) \/ Abort(t)
    \/ Unlocked
    \/ \E r \in Acceptances : Midnight(r)

\* A handler goes on as long as its process runs, and PostgreSQL serves the
\* waiters of a row in the order they came: nobody is passed for ever.
TxFairness == \A t \in Txns : WF_txVars(Progress(t)) /\ SF_txVars(LockFinding(t)) /\ SF_txVars(WriteAction(t))

TxSpec == TxInit /\ [][TxNext]_txVars /\ TxFairness

-----------------------------------------------------------------------------
(***************************************************************************)
(* Properties.                                                             *)
(***************************************************************************)

\* The transactions implement the atomic handlers: with the three inputs that
\* no lock orders held still, whatever commits is a step of FindingGovernance,
\* except that a sweep expires the rows that were due when it selected them: a
\* lapsed proposal that is approved while it runs waits for the next sweep.
Serializable == Init /\ [][Next \/ \E rows \in SUBSET Due : ExpireRows(rows)]_vars

\* FOR UPDATE orders the commits: the committed status is the derived one even
\* as transactions, generated actions, policies and midnights interleave.
CommittedStatusIsDerived == OperationalStatusIsDerived

\* No request waits for ever for rows that others hold: the handlers take the
\* rows of their own before the finding's.
EveryTransactionEnds == \A t \in Txns : Active(t) ~> ~Active(t)

=============================================================================
