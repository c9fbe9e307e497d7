--------------------- MODULE FindingTransactionsProofs ----------------------
(***************************************************************************)
(* What holds of FindingTransactions for every value of its constants.     *)
(*                                                                         *)
(* The argument: what BEGIN checked stays true under the row locks it      *)
(* took, and from the lock on the finding to the commit the rows the       *)
(* transaction derives from move only in the three ways that take no lock. *)
(* Each of them leaves the status that is about to be committed derived:   *)
(* the generated action is unseen, the policy only moves the gate, and the *)
(* date only ends a binding whose closure the legacy status still holds.   *)
(* So every commit re-establishes the invariant of FindingGovernance; and  *)
(* when the three are held still, every commit is a handler of it.         *)
(***************************************************************************)
EXTENDS FindingTransactions, FindingGovernanceProofs

-----------------------------------------------------------------------------
\* What a transaction holds.

ActTables == [Actions -> ActionStatuses \cup {"none"}]

TxnRecords ==
    [at : Stages, request : Requests, unseen : SUBSET Acceptances, prior : ActionStatuses \cup {"none"},
     rows : SUBSET Acceptances, row : FindingRows, reopen : BOOLEAN, acts : ActTables \cup {<<>>}]

TxTypes == txn \in [Txns -> TxnRecords \cup {Idle}]

Holding(t) == txn[t].at \in {"locked", "set", "read", "derived"}
Decided(t) == txn[t].at \in {"set", "read", "derived"}

FindingLock == \A t, u \in Txns : Holding(t) /\ Holding(u) => t = u

ActionLocks ==
    \A t, u \in Txns :
        /\ HasWritten(t) /\ Op(t) \in ActionOps
        /\ HasWritten(u) /\ Op(u) \in ActionOps
        /\ txn[t].request.action = txn[u].request.action
        => t = u

RowLocks ==
    \A t, u \in Txns, r \in Acceptances :
        HasWritten(t) /\ HasWritten(u) /\ r \in txn[t].rows /\ r \in txn[u].rows => t = u

Locks == FindingLock /\ ActionLocks /\ RowLocks

-----------------------------------------------------------------------------
\* What BEGIN found and its locks keep.

ActionChecked(t) ==
    /\ Op(t) \in {"update_action", "unblock_action"} => action[txn[t].request.action] # "none"
    /\ Op(t) = "create_action" => txn[t].request.action \notin AutoActions
    /\ HasWritten(t) /\ Op(t) = "create_action" => action[txn[t].request.action] = "none"
    /\ HasWritten(t) /\ Op(t) = "unblock_action" => action[txn[t].request.action] = "blocked"

RowsChecked(t) ==
    /\ Op(t) \in {"approve", "reject", "withdraw"} => txn[t].rows = {txn[t].request.acceptance}
    /\ Op(t) = "sweep" => txn[t].rows # {}
    /\ Op(t) \notin {"approve", "reject", "withdraw", "sweep"} => txn[t].rows = {}
    /\ txn[t].rows # {} => AcceptanceWorkflow
    /\ \A r \in txn[t].rows :
          /\ acceptance[r].state \in LiveStates
          /\ Op(t) \in {"approve", "reject"} =>
                acceptance[r].state = "proposed" /\ acceptance[r].requester # Caller(t)
          /\ Op(t) = "sweep" => acceptance[r].state = "approved" /\ acceptance[r].lapsed

StageChecked(t) ==
    /\ txn[t].at = "issued" => Op(t) = "update_action"
    /\ txn[t].at = "locked" => Op(t) = "patch"
    /\ Holding(t) => TouchesFinding(t)
    /\ Op(t) = "patch" => ~DirectRiskAcceptanceBlocked(txn[t].request.legacy, txn[t].request.target)

-----------------------------------------------------------------------------
\* What it knows and means to write.

StatusDerived(f, acts, evidence, accs) ==
    \E gated \in IF evidence THEN {FALSE} ELSE BOOLEAN,
       unseen \in SUBSET {a \in AutoActions : acts[a] = "open"} :
          f.operational = DeriveOperationalStatus({acts[a] : a \in Actions \ unseen} \ {"none"}, gated,
                                                  f.decision, f.status, Binding(accs))

RowRecorded(t) ==
    Decided(t) /\ AcceptanceWorkflow /\ txn[t].row.decision = "accepted_risk" =>
        \/ Op(t) = "approve" /\ acceptance[txn[t].request.acceptance].kind = "acceptance"
        \/ Op(t) \notin EndOps /\ finding.decision = "accepted_risk"

ActsFresh(t) ==
    txn[t].at = "read" =>
        /\ txn[t].acts \in ActTables
        /\ \A a \in Actions :
              \/ txn[t].acts[a] = ActionsOf(t)[a]
              \/ a \in AutoActions /\ txn[t].acts[a] = "none" /\ ActionsOf(t)[a] = "open"

RowDerived(t) ==
    txn[t].at = "derived" => StatusDerived(txn[t].row, ActionsOf(t), EvidenceOf(t), AcceptancesOf(t))

TxnGood(t) ==
    Active(t) =>
        /\ ActionChecked(t) /\ RowsChecked(t) /\ StageChecked(t)
        /\ Decided(t) => GoodRow(txn[t].row)
        /\ RowRecorded(t) /\ ActsFresh(t) /\ RowDerived(t)

TxIInv == TxTypes /\ Locks /\ IInv /\ \A t \in Txns : TxnGood(t)

-----------------------------------------------------------------------------
\* Requests and records.

LEMMA RequestFacts ==
    ASSUME NEW request \in Requests
    PROVE  /\ request.op \in ActionOps \cup {"attach_evidence", "approve", "reject", "withdraw", "sweep", "patch"}
           /\ request.caller \in Callers
           /\ request.op \in ActionOps => request.action \in Actions
           /\ request.op = "update_action" => request.status \in ActionStatuses
           /\ request.op \in {"approve", "reject", "withdraw"} => request.acceptance \in Acceptances
           /\ request.op \in {"approve", "reject"} => request.caller \in Users
           /\ request.op = "sweep" => request.caller = NoOne
           /\ request.op = "patch" => /\ request.legacy \in LegacyStatuses \cup {Unset}
                                      /\ request.target \in DecisionStates \cup {Unset}
BY RequestsAssumption DEF RequestRecords, ActionOps, Callers

LEMMA ActiveRecord ==
    ASSUME TxTypes, NEW t \in Txns
    PROVE  /\ Active(t) => txn[t] \in TxnRecords /\ txn[t].request \in Requests
           /\ HasWritten(t) \/ Holding(t) \/ Decided(t) \/ txn[t].at \in Stages => Active(t)
           /\ Holding(t) => HasWritten(t)
           /\ Decided(t) => Holding(t)
BY DEF TxTypes, Active, Idle, TxnRecords, HasWritten, Holding, Decided, Stages

LEMMA StartRecord ==
    ASSUME NEW request \in Requests, NEW at \in {"issued", "written"}, NEW rows \in SUBSET Acceptances
    PROVE  Start(request, at, rows) \in TxnRecords
<1>1. NewFinding \in FindingRows
    BY DEF NewFinding, FindingRows, Callers, LegacyStatuses, OperationalStatuses, DecisionStates
<1> QED BY <1>1 DEF Start, TxnRecords, Stages

\* The tables as the transaction sees them keep their types, and its request
\* leaves no action without a status.
LEMMA ViewTypes ==
    ASSUME TypeOK, TxTypes, NEW t \in Txns, Active(t)
    PROVE  /\ ActionsOf(t) \in ActTables
           /\ Op(t) \in ActionOps => NewActionStatus(txn[t].request) \in ActionStatuses
           /\ EvidenceOf(t) \in BOOLEAN
           /\ Op(t) \in ActionOps \cup {"attach_evidence", "approve", "reject", "withdraw", "sweep", "patch"}
           /\ Caller(t) \in Callers
<1>1. txn[t].request \in Requests
    BY ActiveRecord
<1>2. /\ Op(t) \in ActionOps \cup {"attach_evidence", "approve", "reject", "withdraw", "sweep", "patch"}
      /\ Caller(t) \in Callers
    BY <1>1, RequestFacts DEF Op, Caller
<1>3. Op(t) \in ActionOps => NewActionStatus(txn[t].request) \in ActionStatuses
    BY <1>1, RequestFacts DEF Op, NewActionStatus, ActionOps, ActionStatuses
<1>4. ActionsOf(t) \in ActTables
    BY <1>3 DEF ActionsOf, ActTables, TypeOK
<1> QED BY <1>2, <1>3, <1>4 DEF EvidenceOf, TypeOK

\* What the transaction will commit of an acceptance.
LEMMA AcceptancesView ==
    ASSUME TypeOK, TxTypes, NEW t \in Txns, Active(t), NEW r \in Acceptances
    PROVE  /\ AcceptancesOf(t)[r].kind = acceptance[r].kind
           /\ AcceptancesOf(t)[r].requester = acceptance[r].requester
           /\ AcceptancesOf(t)[r].lapsed = acceptance[r].lapsed
           /\ AcceptancesOf(t)[r].state = IF r \in txn[t].rows THEN EndState(Op(t)) ELSE acceptance[r].state
           /\ r \notin txn[t].rows => AcceptancesOf(t)[r] = acceptance[r]
<1> DEFINE row == [acceptance[r] EXCEPT !.state = EndState(Op(t))]
<1>1. acceptance[r] \in AcceptanceRows
    BY DEF TypeOK
<1>2. /\ row.kind = acceptance[r].kind /\ row.requester = acceptance[r].requester
      /\ row.lapsed = acceptance[r].lapsed /\ row.state = EndState(Op(t))
    BY <1>1 DEF AcceptanceRows
<1>3. AcceptancesOf(t)[r] = IF r \in txn[t].rows THEN row ELSE acceptance[r]
    BY DEF AcceptancesOf
<1> HIDE DEF row
<1> QED BY <1>2, <1>3

LEMMA EndStates ==
    ASSUME NEW op \in {"approve", "reject", "withdraw", "sweep"}
    PROVE  /\ EndState(op) \in AcceptanceStates
           /\ EndState(op) = "approved" <=> op = "approve"
           /\ EndState(op) \in LiveStates <=> op = "approve"
BY DEF EndState, AcceptanceStates, LiveStates

-----------------------------------------------------------------------------
\* What the rest of the system may do to the tables a transaction works on.

RowEvolves(u, r) ==
    \/ acceptance'[r] = acceptance[r]
    \/ acceptance[r].state = "none" /\ acceptance'[r].state = "proposed"
    \/ /\ acceptance'[r].state = acceptance[r].state /\ acceptance'[r].kind = acceptance[r].kind
       /\ acceptance'[r].requester = acceptance[r].requester /\ acceptance'[r].lapsed = TRUE
    \/ /\ r \notin txn[u].rows /\ acceptance'[r].kind = acceptance[r].kind
       /\ Holding(u) => acceptance[r].kind # "acceptance"

Linked1(a) == a \in AutoActions /\ action[a] = "none" /\ action'[a] = "open"

ActionEvolves(u, a) ==
    \/ action'[a] = action[a]
    \/ Linked1(a)
    \/ /\ ~Holding(u) /\ action'[a] # "none"
       /\ ~(HasWritten(u) /\ Op(u) \in ActionOps /\ txn[u].request.action = a)

Evolves(u) ==
    /\ TypeOK'
    /\ \A a \in Actions : ActionEvolves(u, a)
    /\ \A r \in Acceptances : RowEvolves(u, r)
    /\ Holding(u) => UNCHANGED <<finding, hasEvidence>>

\* ... while the transaction itself stays where it is, a midnight aside.
Stays(u) ==
    /\ txn'[u].at = txn[u].at /\ txn'[u].request = txn[u].request /\ txn'[u].rows = txn[u].rows
    /\ txn'[u].row = txn[u].row /\ txn'[u].reopen = txn[u].reopen /\ txn'[u].acts = txn[u].acts

\* A derived status survives the generated action and whatever binds no more.
LEMMA StatusDerivedEvolves ==
    ASSUME NEW f, GoodRow(f), NEW acts \in ActTables, NEW acts2 \in ActTables, NEW evidence \in BOOLEAN,
           NEW accs, NEW accs2, StatusDerived(f, acts, evidence, accs),
           \A a \in Actions : \/ acts2[a] = acts[a]
                              \/ a \in AutoActions /\ acts[a] = "none" /\ acts2[a] = "open",
           Binding(accs2) => Binding(accs)
    PROVE  StatusDerived(f, acts2, evidence, accs2)
<1>1. PICK gated \in IF evidence THEN {FALSE} ELSE BOOLEAN,
           unseen \in SUBSET {a \in AutoActions : acts[a] = "open"} :
              f.operational = DeriveOperationalStatus({acts[a] : a \in Actions \ unseen} \ {"none"}, gated,
                                                      f.decision, f.status, Binding(accs))
    BY DEF StatusDerived
<1> DEFINE linked  == {acts[a] : a \in Actions \ unseen} \ {"none"}
           unseen2 == unseen \cup {a \in AutoActions : acts[a] = "none" /\ acts2[a] = "open"}
           held    == Binding(accs)
           held2   == Binding(accs2)
<1>2. unseen2 \in SUBSET {a \in AutoActions : acts2[a] = "open"}
    BY ActionsAssumption
<1>3. {acts2[a] : a \in Actions \ unseen2} \ {"none"} = linked
    <2>1. \A a \in Actions \ unseen2 : acts2[a] = acts[a]
        OBVIOUS
    <2>2. \A a \in Actions \ unseen : a \in unseen2 => acts[a] = "none"
        OBVIOUS
    <2>3. unseen \subseteq unseen2
        OBVIOUS
    <2> HIDE DEF unseen2
    <2> QED BY <2>1, <2>2, <2>3
<1>4. f.operational = DeriveOperationalStatus(linked, gated, f.decision, f.status, held2)
    <2>1. f.operational = DeriveOperationalStatus(linked, gated, f.decision, f.status, held)
        BY <1>1
    <2>2. held \in BOOLEAN /\ held2 \in BOOLEAN /\ (held2 => held)
        BY DEF Binding
    <2> HIDE DEF linked, unseen2, held, held2
    <2>3. CASE held2 = held
        BY <2>1, <2>3
    <2>4. CASE held /\ ~held2
        <3>1. ClosureHolds(f.decision, f.status, held)
            BY <2>4 DEF ClosureHolds
        <3>2. f.operational = "closed"
            BY <2>1, <3>1, DeriveClosed
        <3>3. f.status \in LegacyTerminal
            BY <3>2 DEF GoodRow, AxesAgree
        <3>4. ClosureHolds(f.decision, f.status, held2)
            BY <3>3 DEF ClosureHolds
        <3> QED BY <3>2, <3>4, DeriveClosed
    <2> QED BY <2>2, <2>3, <2>4
<1>5. f.operational = DeriveOperationalStatus({acts2[a] : a \in Actions \ unseen2} \ {"none"}, gated,
                                              f.decision, f.status, Binding(accs2))
    <2> HIDE DEF linked, unseen2
    <2> QED BY <1>3, <1>4
<1> HIDE DEF linked, unseen2, held, held2
<1> QED BY <1>2, <1>5 DEF StatusDerived

LEMMA ViewStays ==
    ASSUME NEW u \in Txns, Stays(u)
    PROVE  /\ Op(u)' = Op(u) /\ Caller(u)' = Caller(u)
           /\ Active(u)' = Active(u) /\ HasWritten(u)' = HasWritten(u)
           /\ Holding(u)' = Holding(u) /\ Decided(u)' = Decided(u)
BY DEF Stays, Op, Caller, Active, HasWritten, Holding, Decided

\* Under its locks a transaction's view of the actions moves only by what a
\* matcher links, and nothing comes to bind.
LEMMA ViewEvolves ==
    ASSUME TypeOK, TxTypes, TxTypes', NEW u \in Txns, Holding(u), ActionChecked(u), RowsChecked(u),
           Stays(u), Evolves(u)
    PROVE  /\ \A a \in Actions : \/ ActionsOf(u)'[a] = ActionsOf(u)[a]
                                 \/ a \in AutoActions /\ ActionsOf(u)[a] = "none" /\ ActionsOf(u)'[a] = "open"
           /\ EvidenceOf(u)' = EvidenceOf(u)
           /\ Binding(AcceptancesOf(u)') => Binding(AcceptancesOf(u))
           /\ Binding(acceptance') => Binding(acceptance)
<1>0. /\ Active(u) /\ Active(u)' /\ Op(u)' = Op(u) /\ HasWritten(u)
      /\ TypeOK' /\ txn'[u].rows = txn[u].rows /\ txn'[u].request = txn[u].request
    BY ViewStays, ActiveRecord DEF Stays, Evolves
<1>1. ASSUME NEW a \in Actions
      PROVE  \/ ActionsOf(u)'[a] = ActionsOf(u)[a]
             \/ a \in AutoActions /\ ActionsOf(u)[a] = "none" /\ ActionsOf(u)'[a] = "open"
    <2>1. action'[a] = action[a] \/ Linked1(a)
        BY DEF Evolves, ActionEvolves
    <2>2. CASE Op(u) \in ActionOps
        <3>1. ActionsOf(u)[a] = IF a = txn[u].request.action THEN NewActionStatus(txn[u].request) ELSE action[a]
            BY <2>2 DEF ActionsOf, TypeOK
        <3>2. ActionsOf(u)'[a] = IF a = txn[u].request.action THEN NewActionStatus(txn[u].request) ELSE action'[a]
            BY <1>0, <2>2 DEF ActionsOf, TypeOK
        <3> QED BY <2>1, <3>1, <3>2 DEF Linked1
    <2>3. CASE Op(u) \notin ActionOps
        BY <1>0, <2>1, <2>3 DEF ActionsOf, Linked1
    <2> QED BY <2>2, <2>3
<1>2. EvidenceOf(u)' = EvidenceOf(u)
    BY <1>0 DEF EvidenceOf, Evolves
<1>3. ASSUME Binding(AcceptancesOf(u)') PROVE Binding(AcceptancesOf(u))
    <2>1. PICK r \in Acceptances : /\ AcceptancesOf(u)'[r].kind = "acceptance"
                                   /\ AcceptancesOf(u)'[r].state = "approved" /\ ~AcceptancesOf(u)'[r].lapsed
        BY <1>3 DEF Binding
    <2>2. /\ AcceptancesOf(u)[r].kind = acceptance[r].kind /\ AcceptancesOf(u)[r].lapsed = acceptance[r].lapsed
          /\ AcceptancesOf(u)[r].state = IF r \in txn[u].rows THEN EndState(Op(u)) ELSE acceptance[r].state
        BY <1>0, AcceptancesView
    <2>3. /\ AcceptancesOf(u)'[r].kind = acceptance'[r].kind /\ AcceptancesOf(u)'[r].lapsed = acceptance'[r].lapsed
          /\ AcceptancesOf(u)'[r].state = IF r \in txn[u].rows THEN EndState(Op(u)) ELSE acceptance'[r].state
        <3> DEFINE row == [acceptance'[r] EXCEPT !.state = EndState(Op(u)')]
        <3>1. acceptance'[r] \in AcceptanceRows
            BY <1>0 DEF TypeOK
        <3>2. row.kind = acceptance'[r].kind /\ row.lapsed = acceptance'[r].lapsed /\ row.state = EndState(Op(u))
            BY <1>0, <3>1 DEF AcceptanceRows
        <3>3. AcceptancesOf(u)'[r] = IF r \in txn[u].rows THEN row ELSE acceptance'[r]
            BY <1>0 DEF AcceptancesOf
        <3> HIDE DEF row
        <3> QED BY <3>2, <3>3
    <2>4. acceptance'[r].kind = acceptance[r].kind /\ acceptance'[r].lapsed = acceptance[r].lapsed
          /\ (r \notin txn[u].rows => acceptance'[r].state = acceptance[r].state)
        <3>1. RowEvolves(u, r)
            BY DEF Evolves
        <3>2. r \in txn[u].rows => acceptance[r].state \in LiveStates
            BY DEF RowsChecked
        <3> QED BY <2>1, <2>3, <3>1, <3>2 DEF RowEvolves, LiveStates
    <2>5. AcceptanceWorkflow
        BY <1>3 DEF Binding
    <2> QED BY <2>1, <2>2, <2>3, <2>4, <2>5 DEF Binding
<1>4. ASSUME Binding(acceptance') PROVE Binding(acceptance)
    <2>1. PICK r \in Acceptances : /\ acceptance'[r].kind = "acceptance"
                                   /\ acceptance'[r].state = "approved" /\ ~acceptance'[r].lapsed
        BY <1>4 DEF Binding
    <2>2. RowEvolves(u, r)
        BY DEF Evolves
    <2>3. acceptance'[r] = acceptance[r]
        BY <2>1, <2>2 DEF RowEvolves
    <2> QED BY <1>4, <2>1, <2>3 DEF Binding
<1> QED BY <1>1, <1>2, <1>3, <1>4

\* What was checked stays checked, and what is about to be committed stays
\* derived.
LEMMA TxnEvolves ==
    ASSUME TypeOK, TxTypes, TxTypes', NEW u \in Txns, TxnGood(u), Stays(u), Evolves(u)
    PROVE  TxnGood(u)'
<1> SUFFICES ASSUME Active(u)
             PROVE  /\ ActionChecked(u)' /\ RowsChecked(u)' /\ StageChecked(u)'
                    /\ (Decided(u) => GoodRow(txn[u].row))'
                    /\ RowRecorded(u)' /\ ActsFresh(u)' /\ RowDerived(u)'
    BY ViewStays DEF TxnGood
<1>1. /\ ActionChecked(u) /\ RowsChecked(u) /\ StageChecked(u)
      /\ Decided(u) => GoodRow(txn[u].row)
      /\ RowRecorded(u) /\ ActsFresh(u) /\ RowDerived(u)
    BY DEF TxnGood
<1>2. /\ txn[u] \in TxnRecords /\ txn'[u] \in TxnRecords /\ txn[u].request \in Requests
      /\ Decided(u) => Holding(u)
    <2>1. Active(u)'
        BY ViewStays
    <2> QED BY <2>1, ActiveRecord DEF TxTypes, Active, Idle
<1>3. /\ Op(u)' = Op(u) /\ Caller(u)' = Caller(u) /\ HasWritten(u)' = HasWritten(u)
      /\ Holding(u)' = Holding(u) /\ Decided(u)' = Decided(u)
    BY ViewStays
<1>4. \A r \in txn[u].rows : /\ acceptance'[r].state = acceptance[r].state
                             /\ acceptance'[r].kind = acceptance[r].kind
                             /\ acceptance'[r].requester = acceptance[r].requester
                             /\ acceptance[r].lapsed => acceptance'[r].lapsed
    <2> SUFFICES ASSUME NEW r \in txn[u].rows
                 PROVE  /\ acceptance'[r].state = acceptance[r].state
                        /\ acceptance'[r].kind = acceptance[r].kind
                        /\ acceptance'[r].requester = acceptance[r].requester
                        /\ acceptance[r].lapsed => acceptance'[r].lapsed
        OBVIOUS
    <2>1. r \in Acceptances /\ acceptance[r].state \in LiveStates
        BY <1>1, <1>2 DEF RowsChecked, TxnRecords
    <2>2. RowEvolves(u, r)
        BY <2>1 DEF Evolves
    <2> QED BY <2>1, <2>2 DEF RowEvolves, LiveStates
<1>5. ActionChecked(u)'
    <2>1. CASE Op(u) \in ActionOps
        <3>1. txn[u].request.action \in Actions
            BY <1>2, <2>1, RequestFacts DEF Op
        <3>2. ActionEvolves(u, txn[u].request.action)
            BY <3>1 DEF Evolves
        <3> QED BY <1>1, <1>3, <2>1, <3>2 DEF ActionChecked, ActionEvolves, Linked1, Stays
    <2>2. CASE Op(u) \notin ActionOps
        BY <1>3, <2>2 DEF ActionChecked, ActionOps
    <2> QED BY <2>1, <2>2
<1>6. RowsChecked(u)'
    BY <1>1, <1>3, <1>4 DEF RowsChecked, Stays
<1>7. StageChecked(u)'
    <2>1. TouchesFinding(u) => TouchesFinding(u)'
        BY <1>3, <1>4 DEF TouchesFinding, Stays
    <2> QED BY <1>1, <1>3, <2>1 DEF StageChecked, Stays
<1>8. (Decided(u) => GoodRow(txn[u].row))'
    BY <1>1, <1>3 DEF Stays
<1>9. RowRecorded(u)'
    <2>1. Op(u) = "approve" => txn[u].request.acceptance \in txn[u].rows
        BY <1>1 DEF RowsChecked
    <2>2. Decided(u) => finding' = finding
        BY <1>2 DEF Evolves
    <2> QED BY <1>1, <1>3, <1>4, <2>1, <2>2 DEF RowRecorded, Stays
<1>10. ActsFresh(u)'
    <2> SUFFICES ASSUME txn[u].at = "read"
                 PROVE  /\ txn[u].acts \in ActTables
                        /\ \A a \in Actions :
                              \/ txn[u].acts[a] = ActionsOf(u)'[a]
                              \/ a \in AutoActions /\ txn[u].acts[a] = "none" /\ ActionsOf(u)'[a] = "open"
        BY DEF ActsFresh, Stays
    <2>1. Holding(u)
        BY DEF Holding
    <2>2. \A a \in Actions : \/ ActionsOf(u)'[a] = ActionsOf(u)[a]
                             \/ a \in AutoActions /\ ActionsOf(u)[a] = "none" /\ ActionsOf(u)'[a] = "open"
        BY <1>1, <2>1, ViewEvolves
    <2> QED BY <1>1, <2>2 DEF ActsFresh
<1>11. RowDerived(u)'
    <2> SUFFICES ASSUME txn[u].at = "derived"
                 PROVE  StatusDerived(txn[u].row, ActionsOf(u)', EvidenceOf(u)', AcceptancesOf(u)')
        BY DEF RowDerived, Stays
    <2>1. Holding(u) /\ Decided(u) /\ Active(u)'
        BY ViewStays DEF Holding, Decided
    <2>2. /\ \A a \in Actions : \/ ActionsOf(u)'[a] = ActionsOf(u)[a]
                                \/ a \in AutoActions /\ ActionsOf(u)[a] = "none" /\ ActionsOf(u)'[a] = "open"
          /\ EvidenceOf(u)' = EvidenceOf(u)
          /\ Binding(AcceptancesOf(u)') => Binding(AcceptancesOf(u))
        BY <1>1, <2>1, ViewEvolves
    <2>3. ActionsOf(u) \in ActTables /\ EvidenceOf(u) \in BOOLEAN
        BY ViewTypes
    <2>4. ActionsOf(u)' \in ActTables
        <3>1. Op(u) \in ActionOps => NewActionStatus(txn[u].request) \in ActionStatuses
            BY ViewTypes
        <3>2. action' \in ActTables
            BY DEF Evolves, TypeOK, ActTables
        <3> QED BY <1>3, <3>1, <3>2 DEF ActionsOf, ActTables, Stays
    <2>5. GoodRow(txn[u].row) /\ StatusDerived(txn[u].row, ActionsOf(u), EvidenceOf(u), AcceptancesOf(u))
        BY <1>1, <2>1 DEF RowDerived
    <2> QED BY <2>2, <2>3, <2>4, <2>5, StatusDerivedEvolves
<1> QED BY <1>5, <1>6, <1>7, <1>8, <1>9, <1>10, <1>11

-----------------------------------------------------------------------------
\* The statements of one transaction, which write no table.

\* The locks a statement may take.
MayTake(t, w) ==
    /\ w.at \in {"locked", "set", "read", "derived"} => Holding(t) \/ FindingFree(t)
    /\ w.at \in Stages \ {"issued"} =>
          \/ HasWritten(t) /\ w.request = txn[t].request /\ w.rows = txn[t].rows
          \/ /\ w.request.op \in ActionOps => ActionFree(w.request.action)
             /\ \A r \in w.rows : AcceptanceFree(r)

LEMMA StepLocks ==
    ASSUME TxTypes, Locks, NEW t \in Txns, NEW w, MayTake(t, w), txn' = [txn EXCEPT ![t] = w]
    PROVE  Locks'
<1>1. \A u \in Txns : txn'[u] = IF u = t THEN w ELSE txn[u]
    BY DEF TxTypes
<1>2. FindingLock'
    BY <1>1 DEF Locks, FindingLock, Holding, MayTake, FindingFree
<1>3. ActionLocks'
    BY <1>1 DEF Locks, ActionLocks, HasWritten, Op, MayTake, ActionFree
<1>4. RowLocks'
    BY <1>1 DEF Locks, RowLocks, HasWritten, MayTake, AcceptanceFree
<1> QED BY <1>2, <1>3, <1>4 DEF Locks

LEMMA StepKeeps ==
    ASSUME TxIInv, NEW t \in Txns, NEW w \in TxnRecords \cup {Idle}, Step(t, w), MayTake(t, w),
           TxnGood(t)'
    PROVE  TxIInv'
<1>1. /\ txn' = [txn EXCEPT ![t] = w] /\ UNCHANGED vars
      /\ UNCHANGED <<finding, action, hasEvidence, acceptance, policy>>
    BY DEF Step, vars
<1>2. TxTypes'
    BY <1>1 DEF TxIInv, TxTypes
<1>3. Locks'
    BY <1>1, StepLocks DEF TxIInv
<1>4. IInv'
    BY <1>1, NextIInv DEF TxIInv
<1>5. ASSUME NEW u \in Txns \ {t} PROVE TxnGood(u)'
    <2>1. txn'[u] = txn[u]
        BY <1>1 DEF TxIInv, TxTypes
    <2>2. Stays(u)
        BY <2>1 DEF Stays
    <2>3. Evolves(u)
        BY <1>1, <1>4 DEF Evolves, ActionEvolves, RowEvolves, IInv
    <2> QED BY <1>2, <2>2, <2>3, TxnEvolves DEF TxIInv, IInv
<1> QED BY <1>2, <1>3, <1>4, <1>5 DEF TxIInv

\* Ending a transaction without its writes is always allowed.
LEMMA IdleKeeps ==
    ASSUME TxIInv, NEW t \in Txns, Step(t, Idle)
    PROVE  TxIInv'
<1>1. txn'[t] = Idle
    BY DEF Step, TxIInv, TxTypes
<1>2. TxnGood(t)'
    BY <1>1 DEF TxnGood, Active, Idle
<1>3. MayTake(t, Idle)
    BY DEF MayTake, Idle, Stages
<1> QED BY <1>2, <1>3, StepKeeps

-----------------------------------------------------------------------------
\* BEGIN.

LEMMA BeginStep ==
    ASSUME TxIInv, NEW t \in Txns, NEW w \in TxnRecords, w.at \in {"issued", "written"},
           Step(t, w), MayTake(t, w), ActionChecked(t)', RowsChecked(t)', StageChecked(t)'
    PROVE  TxIInv'
<1>1. txn'[t] = w
    BY DEF Step, TxIInv, TxTypes
<1>2. TxnGood(t)'
    BY <1>1 DEF TxnGood, Decided, RowRecorded, ActsFresh, RowDerived
<1> QED BY <1>2, StepKeeps

LEMMA IssueUpdateKeeps ==
    ASSUME TxIInv, NEW t \in Txns, NEW request \in Requests, IssueUpdate(t, request)
    PROVE  TxIInv'
<1> DEFINE s == Start(request, "issued", {})
           w == [s EXCEPT !.prior = action[request.action]]
<1>1. request.op = "update_action" /\ action[request.action] # "none" /\ Step(t, w)
    BY DEF IssueUpdate
<1>2. s \in TxnRecords /\ s.at = "issued" /\ s.request = request /\ s.rows = {}
    BY StartRecord DEF Start
<1>3. action[request.action] \in ActionStatuses \cup {"none"}
    BY <1>1, RequestFacts DEF TxIInv, IInv, TypeOK, ActionOps
<1>4. w \in TxnRecords /\ w.at = "issued" /\ w.request = request /\ w.rows = {}
    <2> HIDE DEF s
    <2> QED BY <1>2, <1>3 DEF TxnRecords
<1> HIDE DEF w
<1>5. txn'[t] = w /\ UNCHANGED <<finding, action, hasEvidence, acceptance, policy>>
    BY <1>1 DEF Step, TxIInv, TxTypes, vars
<1>6. MayTake(t, w)
    BY <1>4 DEF MayTake
<1>7. ActionChecked(t)' /\ RowsChecked(t)' /\ StageChecked(t)'
    BY <1>1, <1>4, <1>5 DEF ActionChecked, RowsChecked, StageChecked, Op, Caller, HasWritten, Holding
<1> QED BY <1>1, <1>4, <1>6, <1>7, BeginStep

\* The other five write rows of their own at once.
LEMMA StartKeeps ==
    ASSUME TxIInv, NEW t \in Txns, NEW request \in Requests, NEW rows \in SUBSET Acceptances,
           Step(t, Start(request, "written", rows)),
           request.op # "update_action",
           request.op \in ActionOps => ActionFree(request.action),
           request.op = "create_action" => request.action \notin AutoActions /\ action[request.action] = "none",
           request.op = "unblock_action" => action[request.action] = "blocked",
           request.op \in {"approve", "reject", "withdraw"} => rows = {request.acceptance},
           request.op = "sweep" => rows # {},
           request.op \notin {"approve", "reject", "withdraw", "sweep"} => rows = {},
           rows # {} => AcceptanceWorkflow,
           \A r \in rows : /\ acceptance[r].state \in LiveStates /\ AcceptanceFree(r)
                           /\ request.op \in {"approve", "reject"} =>
                                 acceptance[r].state = "proposed" /\ acceptance[r].requester # request.caller
                           /\ request.op = "sweep" => acceptance[r].state = "approved" /\ acceptance[r].lapsed,
           request.op = "patch" => ~DirectRiskAcceptanceBlocked(request.legacy, request.target)
    PROVE  TxIInv'
<1> DEFINE w == Start(request, "written", rows)
<1>1. w \in TxnRecords /\ w.at = "written" /\ w.request = request /\ w.rows = rows
    BY StartRecord DEF Start
<1> HIDE DEF w
<1>2. txn'[t] = w /\ UNCHANGED <<finding, action, hasEvidence, acceptance, policy>> /\ Step(t, w)
    BY DEF Step, TxIInv, TxTypes, vars, w
<1>3. MayTake(t, w)
    BY <1>1 DEF MayTake
<1>4. ActionChecked(t)'
    BY <1>1, <1>2 DEF ActionChecked, Op, HasWritten
<1>5. RowsChecked(t)'
    BY <1>1, <1>2 DEF RowsChecked, Op, Caller
<1>6. StageChecked(t)'
    BY <1>1, <1>2 DEF StageChecked, Op, Holding
<1> QED BY <1>1, <1>2, <1>3, <1>4, <1>5, <1>6, BeginStep

LEMMA BeginKeeps ==
    ASSUME TxIInv, NEW t \in Txns, Begin(t)
    PROVE  TxIInv'
<1>1. PICK request \in Requests :
          \/ IssueUpdate(t, request) \/ BeginActionRow(t, request) \/ BeginEvidence(t, request)
          \/ BeginAcceptance(t, request) \/ BeginSweep(t, request) \/ BeginPatch(t, request)
    BY DEF Begin
<1>2. CASE IssueUpdate(t, request)
    BY <1>2, IssueUpdateKeeps
<1>3. CASE BeginActionRow(t, request)
    BY <1>3, StartKeeps DEF BeginActionRow
<1>4. CASE BeginEvidence(t, request)
    BY <1>4, StartKeeps DEF BeginEvidence, ActionOps
<1>5. CASE BeginAcceptance(t, request)
    <2>1. request.acceptance \in Acceptances
        BY <1>5, RequestFacts DEF BeginAcceptance
    <2>2. acceptance[request.acceptance].state \in LiveStates
        BY <1>5 DEF BeginAcceptance, LiveStates
    <2>3. request.op \in {"approve", "reject", "withdraw"}
        BY <1>5 DEF BeginAcceptance
    <2> DEFINE rows == {request.acceptance}
    <2>4. rows \in SUBSET Acceptances
        BY <2>1
    <2> QED BY <1>5, <2>2, <2>3, <2>4, StartKeeps DEF BeginAcceptance, ActionOps
<1>6. CASE BeginSweep(t, request)
    BY <1>6, StartKeeps DEF BeginSweep, Due, LiveStates, ActionOps
<1>7. CASE BeginPatch(t, request)
    BY <1>7, StartKeeps DEF BeginPatch, ActionOps
<1> QED BY <1>1, <1>2, <1>3, <1>4, <1>5, <1>6, <1>7

LEMMA WriteActionKeeps ==
    ASSUME TxIInv, NEW t \in Txns, WriteAction(t)
    PROVE  TxIInv'
<1> DEFINE w == [txn[t] EXCEPT !.at = "written"]
<1>1. txn[t].at = "issued" /\ ActionFree(txn[t].request.action) /\ Step(t, w)
    BY DEF WriteAction
<1>2. Active(t) /\ txn[t] \in TxnRecords
    BY <1>1, ActiveRecord DEF Active, TxIInv
<1>3. /\ w \in TxnRecords /\ w.at = "written" /\ w.request = txn[t].request /\ w.rows = txn[t].rows
    BY <1>2 DEF TxnRecords, Stages
<1> HIDE DEF w
<1>4. txn'[t] = w /\ UNCHANGED <<finding, action, hasEvidence, acceptance, policy>>
    BY <1>1 DEF Step, TxIInv, TxTypes, vars
<1>5. ActionChecked(t) /\ RowsChecked(t) /\ StageChecked(t) /\ Op(t) = "update_action"
    BY <1>1, <1>2 DEF TxIInv, TxnGood, StageChecked
<1>6. MayTake(t, w)
    BY <1>1, <1>3, <1>5 DEF MayTake, RowsChecked
<1>7. ActionChecked(t)' /\ RowsChecked(t)' /\ StageChecked(t)'
    BY <1>3, <1>4, <1>5 DEF ActionChecked, RowsChecked, StageChecked, Op, Caller, HasWritten, Holding
<1> QED BY <1>1, <1>3, <1>6, <1>7, BeginStep

-----------------------------------------------------------------------------
\* Under the lock on the finding.

LEMMA PreparedGood ==
    ASSUME FindingGood, NEW t \in Txns
    PROVE  /\ GoodRow(Prepared(t))
           /\ Op(t) \in EndOps => Prepared(t).decision # "accepted_risk"
           /\ Op(t) \notin EndOps \cup {"approve"} => Prepared(t) = finding
           /\ Op(t) = "approve" /\ acceptance[txn[t].request.acceptance].kind # "acceptance" => Prepared(t) = finding
<1>1. "accepted_risk" \in DecisionStates /\ "needs_review" \in DecisionStates
    BY DEF DecisionStates
<1>2. GoodRow(finding)
    BY DEF FindingGood
<1>3. CASE Op(t) = "approve"
    BY <1>1, <1>2, <1>3, SetDecisionGood DEF Prepared, AcceptRisk, EndOps
<1>4. CASE Op(t) \in EndOps
    <2>1. Prepared(t) = ReleaseClosure(finding)
        BY <1>4 DEF Prepared, EndOps
    <2>2. GoodRow(ClearClosure(finding)) /\ ClearClosure(finding).decision = finding.decision
        BY <1>2, ClearClosureGood
    <2>3. /\ GoodRow(SetDecision(ClearClosure(finding), "needs_review"))
          /\ SetDecision(ClearClosure(finding), "needs_review").decision = "needs_review"
        BY <1>1, <2>2, SetDecisionGood
    <2> QED BY <1>4, <2>1, <2>2, <2>3 DEF ReleaseClosure, EndOps
<1>5. CASE Op(t) \notin EndOps \cup {"approve"}
    BY <1>2, <1>5 DEF Prepared
<1> QED BY <1>3, <1>4, <1>5

\* A statement under the lock leaves what was checked as it was.
LEMMA HeldStep ==
    ASSUME TxIInv, NEW t \in Txns, HasWritten(t), NEW w \in TxnRecords, Step(t, w),
           w.at \in Stages \ {"issued"}, w.request = txn[t].request, w.rows = txn[t].rows,
           w.at = "locked" => Op(t) = "patch", TouchesFinding(t), Holding(t) \/ FindingFree(t),
           w.at # "locked" => GoodRow(w.row) /\ RowRecorded(t)', ActsFresh(t)', RowDerived(t)'
    PROVE  TxIInv'
<1>1. /\ txn'[t] = w /\ Active(t)
      /\ UNCHANGED <<finding, action, hasEvidence, acceptance, policy>>
    BY ActiveRecord DEF Step, TxIInv, TxTypes, vars
<1>2. ActionChecked(t) /\ RowsChecked(t) /\ StageChecked(t)
    BY <1>1 DEF TxIInv, TxnGood
<1>3. /\ Op(t)' = Op(t) /\ Caller(t)' = Caller(t) /\ HasWritten(t)' /\ TouchesFinding(t)'
    BY <1>1 DEF Op, Caller, HasWritten, TouchesFinding
<1>4. ActionChecked(t)'
    BY <1>1, <1>2, <1>3 DEF ActionChecked
<1>5. RowsChecked(t)'
    BY <1>1, <1>2, <1>3 DEF RowsChecked
<1>6. StageChecked(t)'
    BY <1>1, <1>2, <1>3 DEF StageChecked
<1>7. RowRecorded(t)' /\ (Decided(t) => GoodRow(txn[t].row))'
    BY <1>1 DEF RowRecorded, Decided
<1>8. TxnGood(t)'
    BY <1>4, <1>5, <1>6, <1>7 DEF TxnGood
<1>9. MayTake(t, w)
    BY DEF MayTake
<1> QED BY <1>8, <1>9, StepKeeps

LEMMA LockFindingKeeps ==
    ASSUME TxIInv, NEW t \in Txns, LockFinding(t)
    PROVE  TxIInv'
<1> DEFINE at == IF Op(t) = "patch" THEN "locked" ELSE "set"
           row == Prepared(t)
           w == [txn[t] EXCEPT !.at = at, !.row = row]
<1>1. txn[t].at = "written" /\ TouchesFinding(t) /\ FindingFree(t) /\ Step(t, w)
    BY DEF LockFinding
<1>2. HasWritten(t) /\ Active(t) /\ txn[t] \in TxnRecords
    BY <1>1, ActiveRecord DEF HasWritten, Stages, TxIInv
<1>3. at \in {"locked", "set"} /\ (at = "locked" <=> Op(t) = "patch")
    OBVIOUS
<1>4. /\ GoodRow(row)
      /\ Op(t) \in EndOps => row.decision # "accepted_risk"
      /\ Op(t) \notin EndOps \cup {"approve"} => row = finding
      /\ Op(t) = "approve" /\ acceptance[txn[t].request.acceptance].kind # "acceptance" => row = finding
    BY PreparedGood DEF TxIInv, IInv
<1> HIDE DEF at, row
<1>5. row \in FindingRows
    BY <1>4 DEF GoodRow
<1>6. /\ w \in TxnRecords /\ w.at = at /\ w.row = row /\ w.request = txn[t].request /\ w.rows = txn[t].rows
    BY <1>2, <1>3, <1>5 DEF TxnRecords, Stages
<1> HIDE DEF w
<1>7. /\ txn'[t] = w /\ UNCHANGED <<finding, action, hasEvidence, acceptance, policy>>
    BY <1>1 DEF Step, TxIInv, TxTypes, vars
<1>8. RowRecorded(t)'
    BY <1>4, <1>6, <1>7 DEF RowRecorded, Op
<1>9. ActsFresh(t)' /\ RowDerived(t)'
    BY <1>3, <1>6, <1>7 DEF ActsFresh, RowDerived
<1> QED BY <1>1, <1>2, <1>3, <1>4, <1>6, <1>8, <1>9, HeldStep DEF Stages

LEMMA WritePatchKeeps ==
    ASSUME TxIInv, NEW t \in Txns, WritePatch(t)
    PROVE  TxIInv'
<1> DEFINE legacy     == txn[t].request.legacy
           target     == txn[t].request.target
           written    == IF legacy = Unset THEN finding
                         ELSE ApplyLegacyStatus(finding, legacy, AsOfBegin(t), Caller(t))
           transition == PatchTransition(t)
           reopen     == (transition = "reopen")
           row        == ApplyDecision(written, transition, target)
           w          == [txn[t] EXCEPT !.at = "set", !.reopen = reopen, !.row = row]
<1>1. /\ txn[t].at = "locked" /\ Step(t, w) /\ AxesAgree(written.operational, written.status)
    BY DEF WritePatch
<1>2. /\ HasWritten(t) /\ Active(t) /\ Holding(t) /\ txn[t] \in TxnRecords /\ txn[t].request \in Requests
    BY <1>1, ActiveRecord DEF Holding, Stages, TxIInv
<1>3. /\ Op(t) = "patch" /\ TouchesFinding(t) /\ ~DirectRiskAcceptanceBlocked(legacy, target)
      /\ legacy \in LegacyStatuses \cup {Unset} /\ target \in DecisionStates \cup {Unset} /\ Caller(t) \in Callers
    <2>1. StageChecked(t)
        BY <1>2 DEF TxIInv, TxnGood
    <2> QED BY <1>1, <1>2, <2>1, RequestFacts DEF StageChecked, Op, Caller
<1>4. GoodRow(written) /\ written.decision = finding.decision
    <2>1. GoodRow(finding)
        BY DEF TxIInv, IInv, FindingGood
    <2> DEFINE accs == AsOfBegin(t)
    <2> HIDE DEF accs
    <2>2. written = IF legacy = Unset THEN finding ELSE ApplyLegacyStatus(finding, legacy, accs, Caller(t))
        BY DEF accs
    <2> HIDE DEF written, legacy
    <2> QED BY <1>1, <1>3, <2>1, <2>2, ApplyLegacyGood
<1>5. transition \notin {"none", "noop"} => target \in DecisionStates
    BY <1>3 DEF PatchTransition, Transition
<1>6. /\ GoodRow(row)
      /\ row.decision = IF transition \in {"none", "noop"} THEN finding.decision ELSE target
    <2> HIDE DEF written, transition
    <2> QED BY <1>4, <1>5, ApplyDecisionGood
<1> HIDE DEF row, transition, written
<1>7. /\ w \in TxnRecords /\ w.at = "set" /\ w.row = row /\ w.request = txn[t].request /\ w.rows = txn[t].rows
    <2>1. row \in FindingRows /\ reopen \in BOOLEAN
        BY <1>6 DEF GoodRow
    <2> HIDE DEF reopen
    <2> QED BY <1>2, <2>1 DEF TxnRecords, Stages
<1> HIDE DEF w
<1>8. /\ txn'[t] = w /\ UNCHANGED <<finding, action, hasEvidence, acceptance, policy>>
    BY <1>1 DEF Step, TxIInv, TxTypes, vars
<1>9. RowRecorded(t)'
    <2>1. AcceptanceWorkflow => target # "accepted_risk"
        BY <1>3 DEF DirectRiskAcceptanceBlocked
    <2>2. Op(t)' = "patch" /\ "patch" \notin EndOps
        BY <1>3, <1>7, <1>8 DEF Op, EndOps
    <2> QED BY <1>6, <1>7, <1>8, <2>1, <2>2 DEF RowRecorded
<1>10. ActsFresh(t)' /\ RowDerived(t)'
    BY <1>7, <1>8 DEF ActsFresh, RowDerived
<1> QED BY <1>1, <1>2, <1>3, <1>6, <1>7, <1>9, <1>10, HeldStep DEF Stages

LEMMA ReadActionsKeeps ==
    ASSUME TxIInv, NEW t \in Txns, ReadActions(t)
    PROVE  TxIInv'
<1> DEFINE acts == ActionsOf(t)
           w == [txn[t] EXCEPT !.at = "read", !.acts = acts]
<1>1. txn[t].at = "set" /\ Step(t, w)
    BY DEF ReadActions
<1>2. HasWritten(t) /\ Active(t) /\ Holding(t) /\ Decided(t) /\ txn[t] \in TxnRecords
    BY <1>1, ActiveRecord DEF Decided, Stages, TxIInv
<1>3. acts \in ActTables
    BY <1>2, ViewTypes DEF TxIInv, IInv
<1> HIDE DEF acts
<1>4. /\ w \in TxnRecords /\ w.at = "read" /\ w.acts = acts /\ w.row = txn[t].row
      /\ w.request = txn[t].request /\ w.rows = txn[t].rows
    BY <1>2, <1>3 DEF TxnRecords, Stages
<1> HIDE DEF w
<1>5. /\ txn'[t] = w /\ UNCHANGED <<finding, action, hasEvidence, acceptance, policy>>
    BY <1>1 DEF Step, TxIInv, TxTypes, vars
<1>6. StageChecked(t) /\ GoodRow(txn[t].row) /\ RowRecorded(t)
    BY <1>2 DEF TxIInv, TxnGood
<1>7. TouchesFinding(t)
    BY <1>2, <1>6 DEF StageChecked
<1>8. RowRecorded(t)'
    BY <1>2, <1>4, <1>5, <1>6 DEF RowRecorded, Op
<1>9. ActionsOf(t)' = acts
    BY <1>4, <1>5 DEF ActionsOf, Op, acts
<1>10. ActsFresh(t)' /\ RowDerived(t)'
    BY <1>3, <1>4, <1>5, <1>9 DEF ActsFresh, RowDerived
<1> QED BY <1>1, <1>2, <1>4, <1>6, <1>7, <1>8, <1>10, HeldStep DEF Stages

\* The date as it was at BEGIN only makes more acceptances bind.
LEMMA BeginView ==
    ASSUME TxIInv, NEW t \in Txns, Active(t)
    PROVE  /\ AcceptancesOf(t) \in [Acceptances -> AcceptanceRows]
           /\ Binding(AcceptancesOf(t)) => Binding(AsOfBegin(t))
           /\ txn[t].unseen = {} => (Binding(AcceptancesOf(t)) <=> Binding(AsOfBegin(t)))
<1>0. TypeOK /\ TxTypes
    BY DEF TxIInv, IInv
<1>1. ASSUME NEW r \in Acceptances PROVE AcceptancesOf(t)[r] \in AcceptanceRows
    <2> DEFINE state == EndState(Op(t))
               row == [acceptance[r] EXCEPT !.state = state]
    <2>1. acceptance[r] \in AcceptanceRows
        BY <1>0 DEF TypeOK
    <2>2. r \in txn[t].rows => state \in AcceptanceStates
        <3>1. RowsChecked(t)
            BY DEF TxIInv, TxnGood
        <3> QED BY <3>1, EndStates DEF RowsChecked
    <2>3. AcceptancesOf(t)[r] = IF r \in txn[t].rows THEN row ELSE acceptance[r]
        BY DEF AcceptancesOf
    <2> HIDE DEF state
    <2>4. r \in txn[t].rows => row \in AcceptanceRows
        BY <2>1, <2>2 DEF AcceptanceRows
    <2> HIDE DEF row
    <2> QED BY <2>1, <2>3, <2>4
<1>2. AcceptancesOf(t) \in [Acceptances -> AcceptanceRows]
    BY <1>1 DEF AcceptancesOf
<1>3. ASSUME NEW r \in Acceptances
      PROVE  /\ AsOfBegin(t)[r].kind = AcceptancesOf(t)[r].kind
             /\ AsOfBegin(t)[r].state = AcceptancesOf(t)[r].state
             /\ AsOfBegin(t)[r].lapsed = (AcceptancesOf(t)[r].lapsed /\ r \notin txn[t].unseen)
    <2> DEFINE old == AcceptancesOf(t)[r]
               row == [old EXCEPT !.lapsed = old.lapsed /\ r \notin txn[t].unseen]
    <2>1. AsOfBegin(t)[r] = row
        BY DEF AsOfBegin
    <2>2. old \in AcceptanceRows
        BY <1>1
    <2> HIDE DEF old
    <2>3. row.kind = old.kind /\ row.state = old.state /\ row.lapsed = (old.lapsed /\ r \notin txn[t].unseen)
        BY <2>2 DEF AcceptanceRows
    <2> QED BY <2>1, <2>3 DEF old
<1>4. Binding(AcceptancesOf(t)) => Binding(AsOfBegin(t))
    BY <1>3 DEF Binding
<1>5. txn[t].unseen = {} => (Binding(AsOfBegin(t)) => Binding(AcceptancesOf(t)))
    BY <1>3 DEF Binding
<1> QED BY <1>2, <1>4, <1>5

LEMMA DerivedIsStatus ==
    ASSUME policy \in PolicyRows, NEW f, NEW acts, NEW evidence \in BOOLEAN, NEW accs,
           f.operational = Derived(f, acts, evidence, accs)
    PROVE  StatusDerived(f, acts, evidence, accs)
<1> DEFINE gated == policy.evidenceGate /\ ~evidence
<1>1. gated \in IF evidence THEN {FALSE} ELSE BOOLEAN
    BY DEF PolicyRows
<1>2. {} \in SUBSET {a \in AutoActions : acts[a] = "open"}
    OBVIOUS
<1>3. {acts[a] : a \in Actions \ {}} \ {"none"} = Linked(acts)
    BY DEF Linked
<1>4. f.operational = DeriveOperationalStatus({acts[a] : a \in Actions \ {}} \ {"none"}, gated,
                                              f.decision, f.status, Binding(accs))
    BY <1>3 DEF Derived
<1> HIDE DEF gated
<1> QED BY <1>1, <1>2, <1>4 DEF StatusDerived

LEMMA DeriveKeeps ==
    ASSUME TxIInv, NEW t \in Txns, Derive(t)
    PROVE  TxIInv'
<1> DEFINE row == RecomputeFindingOperationalStatus(txn[t].row, txn[t].acts, EvidenceOf(t), AsOfBegin(t),
                                                    Caller(t), txn[t].reopen)
           w == [txn[t] EXCEPT !.at = "derived", !.acts = <<>>, !.row = row]
<1>1. txn[t].at = "read" /\ Step(t, w)
    BY DEF Derive
<1>2. HasWritten(t) /\ Active(t) /\ Holding(t) /\ Decided(t) /\ txn[t] \in TxnRecords
    BY <1>1, ActiveRecord DEF Decided, Stages, TxIInv
<1>3. /\ StageChecked(t) /\ GoodRow(txn[t].row) /\ RowRecorded(t)
      /\ txn[t].acts \in ActTables
      /\ \A a \in Actions : \/ ActionsOf(t)[a] = txn[t].acts[a]
                            \/ a \in AutoActions /\ txn[t].acts[a] = "none" /\ ActionsOf(t)[a] = "open"
    BY <1>1, <1>2 DEF TxIInv, TxnGood, ActsFresh
<1>4. /\ ActionsOf(t) \in ActTables /\ EvidenceOf(t) \in BOOLEAN /\ Caller(t) \in Callers
      /\ txn[t].reopen \in BOOLEAN /\ policy \in PolicyRows
    BY <1>2, ViewTypes DEF TxIInv, IInv, TypeOK, TxnRecords, PolicyRows
<1>5. /\ GoodRow(row) /\ row.decision = txn[t].row.decision
      /\ row.operational = Derived(row, txn[t].acts, EvidenceOf(t), AsOfBegin(t))
    BY <1>3, <1>4, RecomputeGood
<1> HIDE DEF row
<1>6. StatusDerived(row, txn[t].acts, EvidenceOf(t), AsOfBegin(t))
    BY <1>4, <1>5, DerivedIsStatus
<1>7. StatusDerived(row, ActionsOf(t), EvidenceOf(t), AcceptancesOf(t))
    <2>1. Binding(AcceptancesOf(t)) => Binding(AsOfBegin(t))
        BY <1>2, BeginView
    <2> QED BY <1>3, <1>4, <1>5, <1>6, <2>1, StatusDerivedEvolves
<1>8. /\ w \in TxnRecords /\ w.at = "derived" /\ w.row = row
      /\ w.request = txn[t].request /\ w.rows = txn[t].rows
    <2>1. row \in FindingRows
        BY <1>5 DEF GoodRow
    <2> QED BY <1>2, <2>1 DEF TxnRecords, Stages
<1> HIDE DEF w
<1>9. /\ txn'[t] = w /\ UNCHANGED <<finding, action, hasEvidence, acceptance, policy>>
    BY <1>1 DEF Step, TxIInv, TxTypes, vars
<1>10. TouchesFinding(t)
    BY <1>2, <1>3 DEF StageChecked
<1>11. RowRecorded(t)'
    BY <1>2, <1>3, <1>5, <1>8, <1>9 DEF RowRecorded, Op
<1>12. ActsFresh(t)'
    BY <1>8, <1>9 DEF ActsFresh
<1>13. RowDerived(t)'
    <2>1. ActionsOf(t)' = ActionsOf(t) /\ EvidenceOf(t)' = EvidenceOf(t) /\ AcceptancesOf(t)' = AcceptancesOf(t)
        BY <1>8, <1>9 DEF ActionsOf, EvidenceOf, AcceptancesOf, Op
    <2> QED BY <1>7, <1>8, <1>9, <2>1 DEF RowDerived
<1> QED BY <1>1, <1>2, <1>5, <1>8, <1>10, <1>11, <1>12, <1>13, HeldStep DEF Stages


-----------------------------------------------------------------------------
\* The commit.

\* What a commit writes: all of it under the finding's lock, or the rows of a
\* sweep that ends exceptions only.
LEMMA CommitFacts ==
    ASSUME TxIInv, NEW t \in Txns, Commit(t)
    PROVE  /\ HasWritten(t) /\ Active(t)
           /\ ActionChecked(t) /\ RowsChecked(t)
           /\ action' = ActionsOf(t) /\ hasEvidence' = EvidenceOf(t) /\ acceptance' = AcceptancesOf(t)
           /\ policy' = policy /\ txn' = [txn EXCEPT ![t] = Idle]
           /\ ActionsOf(t) \in ActTables /\ EvidenceOf(t) \in BOOLEAN
           /\ \A r \in Acceptances :
                 /\ acceptance'[r].kind = acceptance[r].kind
                 /\ acceptance'[r].lapsed = acceptance[r].lapsed
                 /\ acceptance'[r].state = IF r \in txn[t].rows THEN EndState(Op(t)) ELSE acceptance[r].state
                 /\ r \notin txn[t].rows => acceptance'[r] = acceptance[r]
           /\ \/ /\ txn[t].at = "derived" /\ Holding(t) /\ TouchesFinding(t)
                 /\ finding' = txn[t].row /\ GoodRow(txn[t].row) /\ RowRecorded(t)
                 /\ StatusDerived(txn[t].row, ActionsOf(t), EvidenceOf(t), AcceptancesOf(t))
              \/ /\ txn[t].at = "written" /\ ~Holding(t) /\ Op(t) = "sweep"
                 /\ \A r \in txn[t].rows : acceptance[r].kind # "acceptance"
                 /\ UNCHANGED <<finding, action, hasEvidence>>
<1>1. txn[t].at \in {"derived", "written"}
    BY DEF Commit
<1>2. HasWritten(t) /\ Active(t) /\ TypeOK /\ TxTypes
    BY <1>1, ActiveRecord DEF HasWritten, Stages, TxIInv, IInv
<1>3. /\ action' = ActionsOf(t) /\ hasEvidence' = EvidenceOf(t) /\ acceptance' = AcceptancesOf(t)
      /\ policy' = policy /\ txn' = [txn EXCEPT ![t] = Idle]
    BY DEF Commit
<1>4. /\ ActionChecked(t) /\ RowsChecked(t) /\ StageChecked(t)
      /\ Decided(t) => GoodRow(txn[t].row)
      /\ RowRecorded(t) /\ RowDerived(t)
    BY <1>2 DEF TxIInv, TxnGood
<1>5. ActionsOf(t) \in ActTables /\ EvidenceOf(t) \in BOOLEAN
    BY <1>2, ViewTypes
<1>6. \A r \in Acceptances :
         /\ acceptance'[r].kind = acceptance[r].kind
         /\ acceptance'[r].lapsed = acceptance[r].lapsed
         /\ acceptance'[r].state = IF r \in txn[t].rows THEN EndState(Op(t)) ELSE acceptance[r].state
         /\ r \notin txn[t].rows => acceptance'[r] = acceptance[r]
    BY <1>2, <1>3, AcceptancesView
<1>7. CASE txn[t].at = "derived" /\ finding' = txn[t].row
    <2>1. Holding(t) /\ Decided(t)
        BY <1>7 DEF Holding, Decided
    <2>2. TouchesFinding(t) /\ StatusDerived(txn[t].row, ActionsOf(t), EvidenceOf(t), AcceptancesOf(t))
        BY <1>4, <1>7, <2>1 DEF StageChecked, RowDerived
    <2> QED BY <1>2, <1>3, <1>4, <1>5, <1>6, <1>7, <2>1, <2>2
<1>8. CASE txn[t].at = "written" /\ ~TouchesFinding(t) /\ finding' = finding
    <2>1. Op(t) = "sweep" /\ \A r \in txn[t].rows : acceptance[r].kind # "acceptance"
        BY <1>8 DEF TouchesFinding
    <2>2. ActionsOf(t) = action /\ EvidenceOf(t) = hasEvidence
        BY <1>2, <2>1 DEF ActionsOf, EvidenceOf, ActionOps, TypeOK
    <2>3. ~Holding(t)
        BY <1>8 DEF Holding
    <2> QED BY <1>2, <1>3, <1>4, <1>5, <1>6, <1>8, <2>1, <2>2, <2>3
<1> QED BY <1>7, <1>8 DEF Commit

LEMMA CommitIInv ==
    ASSUME TxIInv, NEW t \in Txns, Commit(t)
    PROVE  IInv'
<1>1. IInv /\ TxTypes
    BY DEF TxIInv
<1>2. TypeOK' /\ FindingGood'
    <2>1. FindingGood'
        BY <1>1, CommitFacts DEF FindingGood, IInv
    <2>2. acceptance' \in [Acceptances -> AcceptanceRows]
        BY CommitFacts, BeginView
    <2>3. action' \in [Actions -> ActionStatuses \cup {"none"}] /\ hasEvidence' \in BOOLEAN /\ policy' = policy
        BY CommitFacts DEF ActTables
    <2> QED BY <1>1, <2>1, <2>2, <2>3 DEF TypeOK, IInv, FindingGood, GoodRow
<1>3. OperationalStatusIsDerived'
    <2>1. CASE StatusDerived(txn[t].row, ActionsOf(t), EvidenceOf(t), AcceptancesOf(t)) /\ finding' = txn[t].row
        <3>1. StatusDerived(finding', action', hasEvidence', acceptance')
            BY <2>1, CommitFacts
        <3> QED BY <3>1 DEF StatusDerived, OperationalStatusIsDerived, Binding
    <2>2. CASE /\ \A r \in txn[t].rows : acceptance[r].kind # "acceptance"
               /\ UNCHANGED <<finding, action, hasEvidence>>
        <3>1. \A r \in Acceptances : acceptance'[r].kind = "acceptance" => acceptance'[r] = acceptance[r]
            BY <2>2, CommitFacts
        <3>2. \A r \in Acceptances : acceptance'[r].kind = acceptance[r].kind
            BY CommitFacts
        <3>3. Binding(acceptance') <=> Binding(acceptance)
            BY <3>1, <3>2 DEF Binding
        <3>4. Binding(acceptance) \in BOOLEAN /\ Binding(acceptance') \in BOOLEAN
            BY DEF Binding
        <3>5. ClosureHolds(finding.decision, finding.status, Binding(acceptance'))
                  <=> ClosureHolds(finding.decision, finding.status, Binding(acceptance))
            BY <3>3, <3>4 DEF ClosureHolds
        <3> QED BY <1>1, <2>2, <3>5, StatusStaysDerived DEF IInv
    <2> QED BY <2>1, <2>2, CommitFacts
<1>4. OneLivePerKind'
    <2>1. ASSUME NEW r \in Acceptances
          PROVE  /\ acceptance'[r].kind = acceptance[r].kind
                 /\ acceptance'[r].state \in LiveStates => acceptance[r].state \in LiveStates
        BY CommitFacts DEF RowsChecked
    <2> QED BY <1>1, <2>1 DEF IInv, OneLivePerKind
<1>5. AcceptedRiskHasRecord'
    <2> SUFFICES ASSUME AcceptanceWorkflow, finding'.decision = "accepted_risk"
                 PROVE  \E a \in Acceptances : /\ acceptance'[a].kind = "acceptance"
                                               /\ acceptance'[a].state \in {"approved", "legacy_unverified"}
        BY DEF AcceptedRiskHasRecord
    <2>1. CASE Op(t) = "approve" /\ acceptance[txn[t].request.acceptance].kind = "acceptance"
        <3>1. /\ txn[t].request.acceptance \in txn[t].rows /\ txn[t].request.acceptance \in Acceptances
            <4>1. txn[t].request \in Requests
                BY CommitFacts, ActiveRecord DEF TxIInv
            <4> QED BY <2>1, <4>1, CommitFacts, RequestFacts DEF RowsChecked, Op
        <3> QED BY <2>1, <3>1, CommitFacts, EndStates
    <2>2. CASE /\ finding.decision = "accepted_risk"
               /\ \A r \in txn[t].rows : \/ acceptance[r].kind # "acceptance"
                                         \/ acceptance[r].state = "proposed"
        <3>1. PICK a \in Acceptances : /\ acceptance[a].kind = "acceptance"
                                       /\ acceptance[a].state \in {"approved", "legacy_unverified"}
            BY <1>1, <2>2 DEF IInv, AcceptedRiskHasRecord
        <3>2. a \notin txn[t].rows
            BY <2>2, <3>1
        <3> QED BY <3>1, <3>2, CommitFacts
    <2>3. Op(t) \notin EndOps => \A r \in txn[t].rows : acceptance[r].state = "proposed"
        BY CommitFacts DEF RowsChecked, EndOps
    <2>4. \/ /\ txn[t].at = "derived" /\ finding' = txn[t].row /\ RowRecorded(t)
          \/ /\ \A r \in txn[t].rows : acceptance[r].kind # "acceptance"
             /\ finding' = finding
        BY CommitFacts
    <2> QED BY <2>1, <2>2, <2>3, <2>4 DEF RowRecorded, Decided
<1> QED BY <1>1, <1>2, <1>3, <1>4, <1>5 DEF IInv

LEMMA CommitKeeps ==
    ASSUME TxIInv, NEW t \in Txns, Commit(t)
    PROVE  TxIInv'
<1>1. IInv /\ TypeOK /\ TxTypes /\ Locks /\ txn' = [txn EXCEPT ![t] = Idle]
    BY CommitFacts DEF TxIInv, IInv
<1>2. IInv' /\ TypeOK'
    BY CommitIInv DEF IInv
<1>3. TxTypes'
    BY <1>1 DEF TxTypes
<1>4. Locks'
    <2>1. MayTake(t, Idle)
        BY DEF MayTake, Idle, Stages
    <2> QED BY <1>1, <2>1, StepLocks
<1>5. TxnGood(t)'
    BY <1>1 DEF TxTypes, TxnGood, Active, Idle
<1>6. ASSUME NEW u \in Txns \ {t}
      PROVE  TxnGood(u)'
    <2>1. txn'[u] = txn[u]
        BY <1>1 DEF TxTypes
    <2>2. CASE ~Active(u)
        BY <2>1, <2>2 DEF TxnGood, Active
    <2>3. CASE Active(u)
        <3>1. Stays(u)
            BY <2>1 DEF Stays
        <3>2. Holding(u) => /\ ~Holding(t) /\ UNCHANGED <<finding, action, hasEvidence>>
                            /\ \A r \in txn[t].rows : acceptance[r].kind # "acceptance"
            BY <1>1, CommitFacts DEF Locks, FindingLock
        <3>3. ASSUME NEW a \in Actions PROVE ActionEvolves(u, a)
            <4>1. CASE Op(t) \in ActionOps /\ a = txn[t].request.action
                <5>1. action'[a] \in ActionStatuses
                    BY <1>1, <4>1, CommitFacts, ViewTypes DEF ActionsOf, TypeOK
                <5>2. ~(HasWritten(u) /\ Op(u) \in ActionOps /\ txn[u].request.action = a)
                    BY <1>1, <4>1, CommitFacts DEF Locks, ActionLocks
                <5> QED BY <3>2, <5>1, <5>2 DEF ActionEvolves, ActionStatuses
            <4>2. CASE ~(Op(t) \in ActionOps /\ a = txn[t].request.action)
                <5>1. action'[a] = action[a]
                    BY <1>1, <4>2, CommitFacts DEF ActionsOf, TypeOK
                <5> QED BY <5>1 DEF ActionEvolves
            <4> QED BY <4>1, <4>2
        <3>4. ASSUME NEW r \in Acceptances PROVE RowEvolves(u, r)
            <4>1. CASE r \notin txn[t].rows
                BY <4>1, CommitFacts DEF RowEvolves
            <4>2. CASE r \in txn[t].rows
                <5>1. r \notin txn[u].rows
                    <6>1. CASE HasWritten(u)
                        BY <1>1, <4>2, <6>1, CommitFacts DEF Locks, RowLocks
                    <6>2. CASE ~HasWritten(u)
                        <7>1. txn[u].at = "issued"
                            BY <1>1, <2>3, <6>2, ActiveRecord DEF HasWritten, TxnRecords
                        <7>2. RowsChecked(u) /\ StageChecked(u)
                            BY <2>3 DEF TxIInv, TxnGood
                        <7> QED BY <7>1, <7>2 DEF RowsChecked, StageChecked
                    <6> QED BY <6>1, <6>2
                <5> QED BY <3>2, <4>2, <5>1, CommitFacts DEF RowEvolves
            <4> QED BY <4>1, <4>2
        <3>5. Evolves(u)
            BY <1>2, <3>2, <3>3, <3>4 DEF Evolves
        <3> QED BY <1>1, <1>3, <3>1, <3>5, TxnEvolves DEF TxIInv
    <2> QED BY <2>2, <2>3
<1> QED BY <1>2, <1>3, <1>4, <1>5, <1>6 DEF TxIInv

-----------------------------------------------------------------------------
\* The three writers that lock no row, and the date.

LEMMA StaysLocks ==
    ASSUME Locks, \A u \in Txns : Stays(u)
    PROVE  Locks'
<1>1. \A u \in Txns : /\ Op(u)' = Op(u) /\ HasWritten(u)' = HasWritten(u) /\ Holding(u)' = Holding(u)
                      /\ txn'[u].request = txn[u].request /\ txn'[u].rows = txn[u].rows
    BY ViewStays DEF Stays
<1>2. FindingLock'
    BY <1>1 DEF Locks, FindingLock
<1>3. ActionLocks'
    BY <1>1 DEF Locks, ActionLocks
<1>4. RowLocks'
    BY <1>1 DEF Locks, RowLocks
<1> QED BY <1>2, <1>3, <1>4 DEF Locks

LEMMA OthersKeep ==
    ASSUME TxIInv, IInv', TxTypes', \A u \in Txns : Stays(u) /\ Evolves(u)
    PROVE  TxIInv'
<1>1. Locks'
    BY StaysLocks DEF TxIInv
<1>2. \A u \in Txns : TxnGood(u)'
    BY TxnEvolves DEF TxIInv, IInv
<1> QED BY <1>1, <1>2 DEF TxIInv

LEMMA UnlockedKeeps ==
    ASSUME TxIInv, Unlocked
    PROVE  TxIInv'
<1>1. txn' = txn /\ IInv /\ TypeOK /\ TxTypes
    BY DEF Unlocked, TxIInv, IInv
<1>2. TxTypes' /\ \A u \in Txns : Stays(u)
    BY <1>1 DEF TxTypes, Stays
<1>3. CASE \E a \in AutoActions : GenerateAction(a)
    <2>1. PICK a \in AutoActions : GenerateAction(a)
        BY <1>3
    <2>2. IInv'
        BY <1>1, <2>1, GenerateActionStep
    <2>3. /\ action[a] = "none" /\ action' = [action EXCEPT ![a] = "open"]
          /\ UNCHANGED <<finding, hasEvidence, acceptance, policy>>
        BY <2>1 DEF GenerateAction
    <2>4. \A b \in Actions : action'[b] = action[b] \/ Linked1(b)
        BY <1>1, <2>3 DEF TypeOK, Linked1
    <2>5. \A u \in Txns : Evolves(u)
        BY <2>2, <2>3, <2>4 DEF Evolves, ActionEvolves, RowEvolves, IInv
    <2> QED BY <1>2, <2>2, <2>5, OthersKeep
<1>4. CASE \E p \in Policies : PutRiskSettings(p)
    <2>1. PICK p \in Policies : PutRiskSettings(p)
        BY <1>4
    <2>2. IInv'
        BY <1>1, <2>1, PutRiskSettingsStep
    <2>3. \A u \in Txns : Evolves(u)
        BY <2>1, <2>2 DEF PutRiskSettings, Evolves, ActionEvolves, RowEvolves, IInv
    <2> QED BY <1>2, <2>2, <2>3, OthersKeep
<1>5. CASE \E r \in Acceptances, k \in {"acceptance", "exception"}, u \in Users, l \in BOOLEAN : Propose(r, k, u, l)
    <2>1. PICK r \in Acceptances, k \in {"acceptance", "exception"}, v \in Users, l \in BOOLEAN : Propose(r, k, v, l)
        BY <1>5
    <2>2. IInv'
        BY <1>1, <2>1, ProposeStep
    <2> DEFINE row == [state |-> "proposed", kind |-> k, requester |-> v, lapsed |-> l]
    <2>3. /\ acceptance[r].state = "none" /\ acceptance' = [acceptance EXCEPT ![r] = row]
          /\ UNCHANGED <<finding, action, hasEvidence, policy>>
        BY <2>1 DEF Propose
    <2>4. row.state = "proposed"
        OBVIOUS
    <2> HIDE DEF row
    <2>5. \A b \in Acceptances : \/ acceptance'[b] = acceptance[b]
                                 \/ acceptance[b].state = "none" /\ acceptance'[b].state = "proposed"
        BY <1>1, <2>3, <2>4 DEF TypeOK
    <2>6. \A u \in Txns : Evolves(u)
        BY <2>2, <2>3, <2>5 DEF Evolves, ActionEvolves, RowEvolves, IInv
    <2> QED BY <1>2, <2>2, <2>6, OthersKeep
<1> QED BY <1>3, <1>4, <1>5 DEF Unlocked

LEMMA MidnightKeeps ==
    ASSUME TxIInv, NEW r \in Acceptances, Midnight(r)
    PROVE  TxIInv'
<1>1. IInv /\ TypeOK /\ TxTypes /\ Lapse(r)
    BY DEF TxIInv, IInv, Midnight
<1>2. IInv'
    BY <1>1, LapseStep
<1>3. ASSUME NEW u \in Txns
      PROVE  Stays(u) /\ txn'[u] \in TxnRecords \cup {Idle}
    <2> DEFINE unseen == txn[u].unseen \cup {r}
               w == [txn[u] EXCEPT !.unseen = unseen]
    <2>1. txn'[u] = IF Active(u) THEN w ELSE txn[u]
        BY DEF Midnight
    <2>2. CASE Active(u)
        <3>1. txn[u] \in TxnRecords
            BY <1>1, <2>2, ActiveRecord
        <3>2. unseen \in SUBSET Acceptances
            BY <3>1 DEF TxnRecords
        <3> HIDE DEF unseen
        <3>3. /\ w \in TxnRecords /\ w.at = txn[u].at /\ w.request = txn[u].request /\ w.rows = txn[u].rows
              /\ w.row = txn[u].row /\ w.reopen = txn[u].reopen /\ w.acts = txn[u].acts
            BY <3>1, <3>2 DEF TxnRecords
        <3> HIDE DEF w
        <3> QED BY <2>1, <2>2, <3>3 DEF Stays
    <2>3. CASE ~Active(u)
        <3> HIDE DEF w
        <3> QED BY <1>1, <2>1, <2>3 DEF Stays, TxTypes
    <2> QED BY <2>2, <2>3
<1>4. TxTypes'
    <2>1. txn' = [t \in Txns |-> txn'[t]]
        BY DEF Midnight
    <2> QED BY <1>3, <2>1 DEF TxTypes
<1>5. ASSUME NEW u \in Txns PROVE Evolves(u)
    <2> DEFINE row == [acceptance[r] EXCEPT !.lapsed = TRUE]
    <2>1. acceptance' = [acceptance EXCEPT ![r] = row] /\ UNCHANGED <<finding, action, hasEvidence, policy>>
        BY <1>1 DEF Lapse, TypeOK
    <2>2. /\ row.state = acceptance[r].state /\ row.kind = acceptance[r].kind
          /\ row.requester = acceptance[r].requester /\ row.lapsed = TRUE
        BY <1>1 DEF TypeOK, AcceptanceRows
    <2> HIDE DEF row
    <2>3. acceptance'[r] = row /\ \A b \in Acceptances \ {r} : acceptance'[b] = acceptance[b]
        BY <1>1, <2>1 DEF TypeOK
    <2>4. \A b \in Acceptances : RowEvolves(u, b)
        BY <2>2, <2>3 DEF RowEvolves
    <2> QED BY <1>2, <2>1, <2>4 DEF Evolves, ActionEvolves, IInv
<1> QED BY <1>2, <1>3, <1>4, <1>5, OthersKeep

-----------------------------------------------------------------------------
\* The invariant.

LEMMA InitTxIInv == TxInit => TxIInv
<1> SUFFICES ASSUME TxInit PROVE TxIInv
    OBVIOUS
<1>1. IInv
    BY InitIInv DEF TxInit
<1>2. \A t \in Txns : txn[t] = Idle
    BY DEF TxInit
<1>3. TxTypes
    BY DEF TxInit, TxTypes
<1>4. Locks
    BY <1>2 DEF Locks, FindingLock, ActionLocks, RowLocks, Holding, HasWritten, Stages, Idle
<1>5. \A t \in Txns : TxnGood(t)
    BY <1>2 DEF TxnGood, Active, Idle
<1> QED BY <1>1, <1>3, <1>4, <1>5 DEF TxIInv

LEMMA NextTxIInv == TxIInv /\ [TxNext]_txVars => TxIInv'
<1> SUFFICES ASSUME TxIInv, [TxNext]_txVars PROVE TxIInv'
    OBVIOUS
<1>1. ASSUME NEW t \in Txns, Begin(t) PROVE TxIInv'
    BY <1>1, BeginKeeps
<1>2. ASSUME NEW t \in Txns, LockFinding(t) PROVE TxIInv'
    BY <1>2, LockFindingKeeps
<1>3. ASSUME NEW t \in Txns, WriteAction(t) PROVE TxIInv'
    BY <1>3, WriteActionKeeps
<1>4. ASSUME NEW t \in Txns, RefusePatch(t) PROVE TxIInv'
    BY <1>4, IdleKeeps DEF RefusePatch
<1>5. ASSUME NEW t \in Txns, WritePatch(t) PROVE TxIInv'
    BY <1>5, WritePatchKeeps
<1>6. ASSUME NEW t \in Txns, ReadActions(t) PROVE TxIInv'
    BY <1>6, ReadActionsKeeps
<1>7. ASSUME NEW t \in Txns, Derive(t) PROVE TxIInv'
    BY <1>7, DeriveKeeps
<1>8. ASSUME NEW t \in Txns, Commit(t) PROVE TxIInv'
    BY <1>8, CommitKeeps
<1>9. ASSUME NEW t \in Txns, Abort(t) PROVE TxIInv'
    BY <1>9, IdleKeeps DEF Abort
<1>10. CASE Unlocked
    BY <1>10, UnlockedKeeps
<1>11. ASSUME NEW r \in Acceptances, Midnight(r) PROVE TxIInv'
    BY <1>11, MidnightKeeps
<1>12. CASE UNCHANGED txVars
    <2>1. UNCHANGED vars /\ txn' = txn
        BY <1>12 DEF txVars, vars
    <2>2. IInv'
        BY <2>1, NextIInv DEF TxIInv
    <2>3. TxTypes' /\ \A u \in Txns : Stays(u)
        BY <2>1 DEF TxIInv, TxTypes, Stays
    <2>4. \A u \in Txns : Evolves(u)
        BY <2>1, <2>2 DEF vars, Evolves, ActionEvolves, RowEvolves, IInv
    <2> QED BY <2>2, <2>3, <2>4, OthersKeep
<1> QED
    BY <1>1, <1>2, <1>3, <1>4, <1>5, <1>6, <1>7, <1>8, <1>9, <1>10, <1>11, <1>12 DEF TxNext, Progress

\* What the row locks and the statements of every transaction keep, however
\* they interleave, abort and meet the three writers that take no lock.
THEOREM TransactionsInvariant == TxSpec => []TxIInv
<1>1. TxInit => TxIInv
    BY InitTxIInv
<1>2. TxIInv /\ [TxNext]_txVars => TxIInv'
    BY NextTxIInv
<1> QED BY <1>1, <1>2, PTL DEF TxSpec

\* Every table and every transaction keeps its type; no update of an action,
\* an acceptance or the finding is prepared with a value its column refuses.
THEOREM TransactionsTypeCorrect == TxSpec => []TxTypeOK
<1>1. TxIInv => TxTypeOK
    <2> SUFFICES ASSUME TxIInv PROVE TxTypeOK
        OBVIOUS
    <2>1. TypeOK /\ TxTypes
        BY DEF TxIInv, IInv
    <2> QED BY <2>1 DEF TxTypes, TxnRecords, TxTypeOK
<1> QED BY <1>1, TransactionsInvariant, PTL

\* SELECT ... FOR UPDATE on the finding: the status each commit leaves is the
\* derived one, however the transactions interleave with each other and with
\* generated actions, policies and midnights.
THEOREM CommitsAreDerived == TxSpec => []CommittedStatusIsDerived
<1>1. TxIInv => CommittedStatusIsDerived
    BY DEF TxIInv, IInv, CommittedStatusIsDerived
<1> QED BY <1>1, TransactionsInvariant, PTL

\* One writer of the finding, of an action and of an acceptance at a time.
THEOREM LocksExclude == TxSpec => []Locks
<1>1. TxIInv => Locks
    BY DEF TxIInv
<1> QED BY <1>1, TransactionsInvariant, PTL

\* The CHECK on the closure axes, the event stream and the record behind an
\* accepted risk hold of every committed finding, and one live acceptance of
\* each kind is all there is.
THEOREM CommitsAreGood ==
    TxSpec => [](ClosureAxesAgree /\ LifecycleStreamKeepsUp /\ AcceptedRiskHasRecord /\ OneLivePerKind)
<1>1. TxIInv => ClosureAxesAgree /\ LifecycleStreamKeepsUp /\ AcceptedRiskHasRecord /\ OneLivePerKind
    BY DEF TxIInv, IInv, FindingGood, GoodRow, ClosureAxesAgree, LifecycleStreamKeepsUp
<1> QED BY <1>1, TransactionsInvariant, PTL

-----------------------------------------------------------------------------
\* With the three inputs that no lock orders held still, what a transaction
\* read from its lock on is what it would read at its commit.

HeldStill == AutoActions = {} /\ ~MidnightPasses /\ \A p, q \in Policies : p = q

PatchedRow(t) ==
    IF txn[t].request.legacy = Unset THEN finding
    ELSE ApplyLegacyStatus(finding, txn[t].request.legacy, acceptance, Caller(t))

DecidedRow(t) ==
    IF Op(t) = "patch" THEN ApplyDecision(PatchedRow(t), PatchTransition(t), txn[t].request.target) ELSE Prepared(t)

PatchAllowed(t) ==
    /\ PatchTransition(t) # "refused" /\ ~LegacyCloseRefused(txn[t].request.legacy, acceptance)
    /\ AxesAgree(PatchedRow(t).operational, PatchedRow(t).status)

RecomputedRow(t, acts) ==
    RecomputeFindingOperationalStatus(DecidedRow(t), acts, EvidenceOf(t), AcceptancesOf(t), Caller(t), txn[t].reopen)

AsIfAtomic(t) ==
    Active(t) =>
        /\ txn[t].unseen = {}
        /\ txn[t].reopen = (Decided(t) /\ Op(t) = "patch" /\ PatchTransition(t) = "reopen")
        /\ Decided(t) /\ Op(t) = "patch" => PatchAllowed(t)
        /\ txn[t].at \in {"set", "read"} => txn[t].row = DecidedRow(t)
        /\ txn[t].at = "read" => txn[t].acts = ActionsOf(t)
        /\ txn[t].at = "derived" => txn[t].row = RecomputedRow(t, ActionsOf(t))

StillInv == policy \in Policies /\ \A t \in Txns : AsIfAtomic(t)

\* What the others may still do while the transaction holds the finding.
Quiet(u) ==
    /\ UNCHANGED <<finding, action, hasEvidence, policy>>
    /\ \A r \in Acceptances :
          \/ acceptance'[r] = acceptance[r]
          \/ acceptance[r].state = "none" /\ acceptance'[r].state = "proposed"
          \/ /\ r \notin txn[u].rows /\ acceptance'[r].kind = acceptance[r].kind
             /\ acceptance[r].kind # "acceptance"

SameAsk(u) == txn'[u].request = txn[u].request /\ txn'[u].rows = txn[u].rows

\* Nothing of it is seen by what the transaction derives from.
LEMMA QuietBinds ==
    ASSUME TypeOK, TypeOK', TxTypes, NEW u \in Txns, Active(u), RowsChecked(u), SameAsk(u), Quiet(u)
    PROVE  /\ Binding(acceptance') <=> Binding(acceptance)
           /\ Binding(AcceptancesOf(u)') <=> Binding(AcceptancesOf(u))
           /\ Op(u) = "approve" =>
                 acceptance'[txn[u].request.acceptance].kind = acceptance[txn[u].request.acceptance].kind
<1>1. ASSUME NEW r \in Acceptances
      PROVE  /\ AcceptancesOf(u)[r].kind = acceptance[r].kind /\ AcceptancesOf(u)[r].lapsed = acceptance[r].lapsed
             /\ AcceptancesOf(u)[r].state = IF r \in txn[u].rows THEN EndState(Op(u)) ELSE acceptance[r].state
    BY AcceptancesView
<1>2. ASSUME NEW r \in Acceptances
      PROVE  /\ AcceptancesOf(u)'[r].kind = acceptance'[r].kind /\ AcceptancesOf(u)'[r].lapsed = acceptance'[r].lapsed
             /\ AcceptancesOf(u)'[r].state = IF r \in txn[u].rows THEN EndState(Op(u)) ELSE acceptance'[r].state
    <2> DEFINE row == [acceptance'[r] EXCEPT !.state = EndState(Op(u))]
    <2>1. acceptance'[r] \in AcceptanceRows
        BY DEF TypeOK
    <2>2. row.kind = acceptance'[r].kind /\ row.lapsed = acceptance'[r].lapsed /\ row.state = EndState(Op(u))
        BY <2>1 DEF AcceptanceRows
    <2>3. AcceptancesOf(u)'[r] = IF r \in txn[u].rows THEN row ELSE acceptance'[r]
        BY DEF AcceptancesOf, SameAsk, Op
    <2> HIDE DEF row
    <2> QED BY <2>2, <2>3
<1>3. \A r \in Acceptances :
         \/ acceptance'[r] = acceptance[r]
         \/ /\ r \notin txn[u].rows
            /\ acceptance[r].state = "none" /\ acceptance'[r].state = "proposed"
         \/ /\ r \notin txn[u].rows /\ acceptance'[r].kind = acceptance[r].kind
            /\ acceptance[r].kind # "acceptance"
    BY DEF Quiet, RowsChecked, LiveStates
<1>4. Binding(acceptance') <=> Binding(acceptance)
    BY <1>3 DEF Binding
<1>5. Binding(AcceptancesOf(u)') <=> Binding(AcceptancesOf(u))
    BY <1>1, <1>2, <1>3 DEF Binding
<1>6. Op(u) = "approve" =>
         acceptance'[txn[u].request.acceptance].kind = acceptance[txn[u].request.acceptance].kind
    <2>1. Op(u) = "approve" =>
             txn[u].request.acceptance \in txn[u].rows /\ txn[u].request.acceptance \in Acceptances
        BY ActiveRecord DEF RowsChecked, TxnRecords
    <2> QED BY <1>3, <2>1
<1> QED BY <1>4, <1>5, <1>6

LEMMA QuietView ==
    ASSUME TypeOK, TypeOK', TxTypes, NEW u \in Txns, Active(u), RowsChecked(u), SameAsk(u), Quiet(u)
    PROVE  /\ Op(u)' = Op(u) /\ Caller(u)' = Caller(u)
           /\ ActionsOf(u)' = ActionsOf(u) /\ EvidenceOf(u)' = EvidenceOf(u)
           /\ PatchTransition(u)' = PatchTransition(u)
           /\ PatchAllowed(u)' <=> PatchAllowed(u)
           /\ DecidedRow(u)' = DecidedRow(u)
           /\ txn'[u].reopen = txn[u].reopen => \A acts : RecomputedRow(u, acts)' = RecomputedRow(u, acts)
<1>0. /\ txn'[u].request = txn[u].request /\ txn'[u].rows = txn[u].rows
      /\ UNCHANGED <<finding, action, hasEvidence, policy>>
    BY DEF SameAsk, Quiet
<1>1. Op(u)' = Op(u) /\ Caller(u)' = Caller(u)
    BY <1>0 DEF Op, Caller
<1>2. ActionsOf(u)' = ActionsOf(u) /\ EvidenceOf(u)' = EvidenceOf(u)
    BY <1>0, <1>1 DEF ActionsOf, EvidenceOf
<1>3. PatchTransition(u)' = PatchTransition(u)
    BY <1>0, <1>1 DEF PatchTransition, Transition, SodRefuses
<1>4. /\ Binding(acceptance') = Binding(acceptance)
      /\ Binding(AcceptancesOf(u)') = Binding(AcceptancesOf(u))
    <2>1. /\ Binding(acceptance) \in BOOLEAN /\ Binding(acceptance') \in BOOLEAN
          /\ Binding(AcceptancesOf(u)) \in BOOLEAN /\ Binding(AcceptancesOf(u)') \in BOOLEAN
        BY DEF Binding
    <2> QED BY <2>1, QuietBinds
<1>5. PatchedRow(u)' = PatchedRow(u)
    BY <1>0, <1>1, <1>4 DEF PatchedRow, ApplyLegacyStatus, Derived
<1>6. LegacyCloseRefused(txn[u].request.legacy, acceptance)' <=> LegacyCloseRefused(txn[u].request.legacy, acceptance)
    BY <1>0, <1>4 DEF LegacyCloseRefused, OpenActions
<1>7. PatchAllowed(u)' <=> PatchAllowed(u)
    BY <1>3, <1>5, <1>6 DEF PatchAllowed
<1>8. Prepared(u)' = Prepared(u)
    BY <1>0, <1>1, QuietBinds DEF Prepared
<1>9. DecidedRow(u)' = DecidedRow(u)
    BY <1>0, <1>1, <1>3, <1>5, <1>8 DEF DecidedRow
<1>10. ASSUME txn'[u].reopen = txn[u].reopen, NEW acts
       PROVE  RecomputedRow(u, acts)' = RecomputedRow(u, acts)
    BY <1>0, <1>1, <1>2, <1>4, <1>9, <1>10
       DEF RecomputedRow, RecomputeFindingOperationalStatus, Derived, AssignIndependentReviewerIfNeeded
<1> QED BY <1>1, <1>2, <1>3, <1>7, <1>9, <1>10

LEMMA StillOther ==
    ASSUME TxIInv, TypeOK', NEW u \in Txns, AsIfAtomic(u), Stays(u), txn'[u].unseen = txn[u].unseen,
           Holding(u) => Quiet(u)
    PROVE  AsIfAtomic(u)'
<1>1. /\ Active(u)' = Active(u) /\ Decided(u)' = Decided(u) /\ Op(u)' = Op(u)
      /\ txn'[u].at = txn[u].at /\ txn'[u].reopen = txn[u].reopen
      /\ txn'[u].row = txn[u].row /\ txn'[u].acts = txn[u].acts
    BY ViewStays DEF Stays
<1>2. CASE ~Active(u)
    BY <1>1, <1>2 DEF AsIfAtomic
<1>3. CASE Active(u) /\ ~Decided(u)
    BY <1>1, <1>3 DEF AsIfAtomic, Decided
<1>4. CASE Active(u) /\ Decided(u)
    <2>1. Quiet(u) /\ SameAsk(u) /\ TypeOK /\ TxTypes
        BY <1>4, ActiveRecord DEF SameAsk, Stays, TxIInv, IInv
    <2>2. RowsChecked(u)
        BY <1>4 DEF TxIInv, TxnGood
    <2>3. /\ ActionsOf(u)' = ActionsOf(u) /\ PatchTransition(u)' = PatchTransition(u)
          /\ PatchAllowed(u)' <=> PatchAllowed(u)
          /\ DecidedRow(u)' = DecidedRow(u)
          /\ \A acts : RecomputedRow(u, acts)' = RecomputedRow(u, acts)
        BY <1>1, <1>4, <2>1, <2>2, QuietView
    <2> QED BY <1>1, <1>4, <2>3 DEF AsIfAtomic
<1> QED BY <1>2, <1>3, <1>4

\* A statement that writes no table disturbs nobody else.
LEMMA StillStep ==
    ASSUME TxIInv, TypeOK', StillInv, NEW t \in Txns, NEW w, Step(t, w), AsIfAtomic(t)'
    PROVE  StillInv'
<1>1. /\ UNCHANGED <<finding, action, hasEvidence, acceptance, policy>>
      /\ \A u \in Txns \ {t} : txn'[u] = txn[u]
    BY DEF Step, vars, TxIInv, TxTypes
<1>2. ASSUME NEW u \in Txns \ {t} PROVE AsIfAtomic(u)'
    <2>1. Stays(u) /\ txn'[u].unseen = txn[u].unseen /\ Quiet(u)
        BY <1>1 DEF Stays, Quiet
    <2> QED BY <2>1, StillOther DEF StillInv
<1> QED BY <1>1, <1>2 DEF StillInv

LEMMA BeginStill ==
    ASSUME TxIInv, TypeOK', StillInv, NEW t \in Txns, Begin(t)
    PROVE  StillInv'
<1>1. PICK request \in Requests :
          \/ IssueUpdate(t, request) \/ BeginActionRow(t, request) \/ BeginEvidence(t, request)
          \/ BeginAcceptance(t, request) \/ BeginSweep(t, request) \/ BeginPatch(t, request)
    BY DEF Begin
<1>2. CASE IssueUpdate(t, request)
    <2> DEFINE s == Start(request, "issued", {})
               w == [s EXCEPT !.prior = action[request.action]]
    <2>1. w.at = "issued" /\ w.unseen = {} /\ w.reopen = FALSE
        BY DEF Start
    <2>2. Step(t, w)
        BY <1>2 DEF IssueUpdate
    <2> HIDE DEF w
    <2>3. txn'[t] = w
        BY <2>2 DEF Step, TxIInv, TxTypes
    <2>4. AsIfAtomic(t)'
        BY <2>1, <2>3 DEF AsIfAtomic, Decided
    <2> QED BY <2>2, <2>4, StillStep
<1>3. ASSUME NEW rows, Step(t, Start(request, "written", rows)) PROVE StillInv'
    <2> DEFINE w == Start(request, "written", rows)
    <2>1. w.at = "written" /\ w.unseen = {} /\ w.reopen = FALSE
        BY DEF Start
    <2>2. Step(t, w)
        BY <1>3
    <2> HIDE DEF w
    <2>3. txn'[t] = w
        BY <2>2 DEF Step, TxIInv, TxTypes
    <2>4. AsIfAtomic(t)'
        BY <2>1, <2>3 DEF AsIfAtomic, Decided
    <2> QED BY <2>2, <2>4, StillStep
<1> QED
    BY <1>1, <1>2, <1>3 DEF BeginActionRow, BeginEvidence, BeginAcceptance, BeginSweep, BeginPatch

LEMMA AbortStill ==
    ASSUME TxIInv, TypeOK', StillInv, NEW t \in Txns, Step(t, Idle)
    PROVE  StillInv'
<1>1. txn'[t] = Idle
    BY DEF Step, TxIInv, TxTypes
<1>2. AsIfAtomic(t)'
    BY <1>1 DEF AsIfAtomic, Active, Idle
<1> QED BY <1>2, StillStep

\* A statement of the transaction itself leaves what it derives from alone.
LEMMA OwnView ==
    ASSUME TxIInv, TypeOK', NEW t \in Txns, Active(t), NEW w, Step(t, w),
           w.request = txn[t].request, w.rows = txn[t].rows
    PROVE  /\ txn'[t] = w /\ Op(t)' = Op(t)
           /\ ActionsOf(t)' = ActionsOf(t) /\ PatchTransition(t)' = PatchTransition(t)
           /\ PatchAllowed(t)' <=> PatchAllowed(t)
           /\ DecidedRow(t)' = DecidedRow(t)
           /\ w.reopen = txn[t].reopen => \A acts : RecomputedRow(t, acts)' = RecomputedRow(t, acts)
<1>1. txn'[t] = w /\ UNCHANGED <<finding, action, hasEvidence, acceptance, policy>>
    BY DEF Step, vars, TxIInv, TxTypes
<1>2. SameAsk(t) /\ Quiet(t) /\ RowsChecked(t) /\ TypeOK /\ TxTypes
    BY <1>1 DEF SameAsk, Quiet, TxIInv, TxnGood, IInv
<1> QED BY <1>1, <1>2, QuietView

\* While the date stands still, BEGIN's view of the acceptances is the commit's.
LEMMA AsOfBeginIsNow ==
    ASSUME TxIInv, NEW t \in Txns, Active(t), txn[t].unseen = {}
    PROVE  /\ AsOfBegin(t) = AcceptancesOf(t)
           /\ txn[t].rows = {} => AcceptancesOf(t) = acceptance
<1>1. AcceptancesOf(t) \in [Acceptances -> AcceptanceRows]
    BY BeginView
<1>2. ASSUME NEW r \in Acceptances PROVE AsOfBegin(t)[r] = AcceptancesOf(t)[r]
    <2> DEFINE old == AcceptancesOf(t)[r]
    <2>1. AsOfBegin(t)[r] = [old EXCEPT !.lapsed = old.lapsed /\ r \notin txn[t].unseen]
        BY DEF AsOfBegin
    <2>2. old \in AcceptanceRows
        BY <1>1
    <2> HIDE DEF old
    <2>3. [old EXCEPT !.lapsed = old.lapsed /\ r \notin txn[t].unseen] = old
        BY <2>2 DEF AcceptanceRows
    <2> QED BY <2>1, <2>3 DEF old
<1>3. AsOfBegin(t) = [r \in Acceptances |-> AsOfBegin(t)[r]]
    BY DEF AsOfBegin
<1>4. AcceptancesOf(t) = [r \in Acceptances |-> AcceptancesOf(t)[r]]
    BY DEF AcceptancesOf
<1>5. AsOfBegin(t) = AcceptancesOf(t)
    BY <1>2, <1>3, <1>4
<1>6. acceptance \in [Acceptances -> AcceptanceRows]
    BY DEF TxIInv, IInv, TypeOK
<1>7. txn[t].rows = {} => AcceptancesOf(t) = acceptance
    BY <1>6 DEF AcceptancesOf
<1> QED BY <1>5, <1>7

LEMMA WriteActionStill ==
    ASSUME TxIInv, TypeOK', StillInv, NEW t \in Txns, WriteAction(t)
    PROVE  StillInv'
<1> DEFINE w == [txn[t] EXCEPT !.at = "written"]
<1>1. txn[t].at = "issued" /\ Step(t, w)
    BY DEF WriteAction
<1>2. Active(t) /\ txn[t] \in TxnRecords
    BY <1>1, ActiveRecord DEF Active, TxIInv
<1>3. w.at = "written" /\ w.unseen = txn[t].unseen /\ w.reopen = txn[t].reopen
    BY <1>2 DEF TxnRecords
<1> HIDE DEF w
<1>4. txn'[t] = w
    BY <1>1 DEF Step, TxIInv, TxTypes
<1>5. txn[t].unseen = {} /\ txn[t].reopen = FALSE
    BY <1>1, <1>2 DEF StillInv, AsIfAtomic, Decided
<1>6. AsIfAtomic(t)'
    BY <1>3, <1>4, <1>5 DEF AsIfAtomic, Decided
<1> QED BY <1>1, <1>6, StillStep

LEMMA LockFindingStill ==
    ASSUME TxIInv, TypeOK', StillInv, NEW t \in Txns, LockFinding(t)
    PROVE  StillInv'
<1> DEFINE at == IF Op(t) = "patch" THEN "locked" ELSE "set"
           row == Prepared(t)
           w == [txn[t] EXCEPT !.at = at, !.row = row]
<1>1. txn[t].at = "written" /\ Step(t, w)
    BY DEF LockFinding
<1>2. Active(t) /\ txn[t] \in TxnRecords
    BY <1>1, ActiveRecord DEF Active, TxIInv
<1>3. at \in {"locked", "set"} /\ (at = "locked" <=> Op(t) = "patch")
    OBVIOUS
<1>4. Op(t) # "patch" => row = DecidedRow(t)
    BY DEF DecidedRow
<1> HIDE DEF at, row
<1>5. /\ w.at = at /\ w.row = row /\ w.unseen = txn[t].unseen /\ w.reopen = txn[t].reopen
      /\ w.request = txn[t].request /\ w.rows = txn[t].rows
    BY <1>2 DEF TxnRecords
<1> HIDE DEF w
<1>6. txn[t].unseen = {} /\ txn[t].reopen = FALSE
    BY <1>1, <1>2 DEF StillInv, AsIfAtomic, Decided
<1>7. txn'[t] = w /\ Op(t)' = Op(t) /\ DecidedRow(t)' = DecidedRow(t)
    BY <1>1, <1>2, <1>5, OwnView
<1>8. AsIfAtomic(t)'
    BY <1>3, <1>4, <1>5, <1>6, <1>7 DEF AsIfAtomic, Decided
<1> QED BY <1>1, <1>8, StillStep

LEMMA WritePatchStill ==
    ASSUME TxIInv, TypeOK', StillInv, NEW t \in Txns, WritePatch(t)
    PROVE  StillInv'
<1> DEFINE transition == PatchTransition(t)
           written    == IF txn[t].request.legacy = Unset THEN finding
                         ELSE ApplyLegacyStatus(finding, txn[t].request.legacy, AsOfBegin(t), Caller(t))
           reopen     == (transition = "reopen")
           row        == ApplyDecision(written, transition, txn[t].request.target)
           w          == [txn[t] EXCEPT !.at = "set", !.reopen = reopen, !.row = row]
<1>1. /\ txn[t].at = "locked" /\ Step(t, w) /\ ~PatchRefused(t) /\ AxesAgree(written.operational, written.status)
    BY DEF WritePatch
<1>2. Active(t) /\ Holding(t) /\ txn[t] \in TxnRecords
    BY <1>1, ActiveRecord DEF Holding, TxIInv
<1>3. Op(t) = "patch" /\ txn[t].rows = {} /\ txn[t].unseen = {}
    <2>1. StageChecked(t) /\ RowsChecked(t)
        BY <1>2 DEF TxIInv, TxnGood
    <2> QED BY <1>1, <1>2, <2>1 DEF StageChecked, RowsChecked, StillInv, AsIfAtomic
<1>4. AsOfBegin(t) = acceptance
    BY <1>2, <1>3, AsOfBeginIsNow
<1>5. written = PatchedRow(t)
    BY <1>4 DEF PatchedRow
<1>6. PatchAllowed(t) /\ row = DecidedRow(t)
    <2> HIDE DEF written
    <2> QED BY <1>1, <1>3, <1>4, <1>5 DEF PatchAllowed, PatchRefused, DecidedRow
<1> HIDE DEF row, written
<1>7. /\ w.at = "set" /\ w.row = row /\ w.unseen = txn[t].unseen /\ w.reopen = reopen
      /\ w.request = txn[t].request /\ w.rows = txn[t].rows
    <2> HIDE DEF reopen
    <2> QED BY <1>2 DEF TxnRecords
<1> HIDE DEF w
<1>8. /\ txn'[t] = w /\ Op(t)' = Op(t) /\ DecidedRow(t)' = DecidedRow(t)
      /\ PatchTransition(t)' = transition /\ PatchAllowed(t)'
    BY <1>1, <1>2, <1>6, <1>7, OwnView
<1>9. AsIfAtomic(t)'
    BY <1>3, <1>6, <1>7, <1>8 DEF AsIfAtomic, Decided
<1> QED BY <1>1, <1>9, StillStep

LEMMA ReadActionsStill ==
    ASSUME TxIInv, TypeOK', StillInv, NEW t \in Txns, ReadActions(t)
    PROVE  StillInv'
<1> DEFINE acts == ActionsOf(t)
           w == [txn[t] EXCEPT !.at = "read", !.acts = acts]
<1>1. txn[t].at = "set" /\ Step(t, w)
    BY DEF ReadActions
<1>2. Active(t) /\ Decided(t) /\ txn[t] \in TxnRecords /\ AsIfAtomic(t)
    BY <1>1, ActiveRecord DEF Decided, TxIInv, StillInv
<1> HIDE DEF acts
<1>3. /\ w.at = "read" /\ w.acts = acts /\ w.row = txn[t].row /\ w.unseen = txn[t].unseen
      /\ w.reopen = txn[t].reopen /\ w.request = txn[t].request /\ w.rows = txn[t].rows
    BY <1>2 DEF TxnRecords
<1> HIDE DEF w
<1>4. /\ txn'[t] = w /\ Op(t)' = Op(t) /\ DecidedRow(t)' = DecidedRow(t) /\ ActionsOf(t)' = acts
      /\ PatchTransition(t)' = PatchTransition(t) /\ PatchAllowed(t)' <=> PatchAllowed(t)
    BY <1>1, <1>2, <1>3, OwnView DEF acts
<1>5. AsIfAtomic(t)'
    BY <1>1, <1>2, <1>3, <1>4 DEF AsIfAtomic, Decided
<1> QED BY <1>1, <1>5, StillStep

LEMMA DeriveStill ==
    ASSUME TxIInv, TypeOK', StillInv, NEW t \in Txns, Derive(t)
    PROVE  StillInv'
<1> DEFINE row == RecomputeFindingOperationalStatus(txn[t].row, txn[t].acts, EvidenceOf(t), AsOfBegin(t),
                                                    Caller(t), txn[t].reopen)
           w == [txn[t] EXCEPT !.at = "derived", !.acts = <<>>, !.row = row]
<1>1. txn[t].at = "read" /\ Step(t, w)
    BY DEF Derive
<1>2. Active(t) /\ Decided(t) /\ txn[t] \in TxnRecords /\ AsIfAtomic(t)
    BY <1>1, ActiveRecord DEF Decided, TxIInv, StillInv
<1>3. AsOfBegin(t) = AcceptancesOf(t)
    BY <1>2, AsOfBeginIsNow DEF AsIfAtomic
<1>4. row = RecomputedRow(t, ActionsOf(t))
    BY <1>1, <1>2, <1>3 DEF AsIfAtomic, RecomputedRow
<1> HIDE DEF row
<1>5. /\ w.at = "derived" /\ w.row = row /\ w.unseen = txn[t].unseen
      /\ w.reopen = txn[t].reopen /\ w.request = txn[t].request /\ w.rows = txn[t].rows
    BY <1>2 DEF TxnRecords
<1> HIDE DEF w
<1>6. /\ txn'[t] = w /\ Op(t)' = Op(t) /\ ActionsOf(t)' = ActionsOf(t)
      /\ PatchTransition(t)' = PatchTransition(t) /\ PatchAllowed(t)' <=> PatchAllowed(t)
      /\ \A acts : RecomputedRow(t, acts)' = RecomputedRow(t, acts)
    BY <1>1, <1>2, <1>5, OwnView
<1>7. RecomputedRow(t, ActionsOf(t))' = RecomputedRow(t, ActionsOf(t))
    BY <1>6 DEF RecomputedRow
<1>8. AsIfAtomic(t)'
    BY <1>1, <1>2, <1>4, <1>5, <1>6, <1>7 DEF AsIfAtomic, Decided
<1> QED BY <1>1, <1>8, StillStep

LEMMA CommitStill ==
    ASSUME TxIInv, TypeOK', StillInv, NEW t \in Txns, Commit(t)
    PROVE  StillInv'
<1>1. TxTypes /\ Locks /\ txn' = [txn EXCEPT ![t] = Idle] /\ policy' = policy
    BY CommitFacts DEF TxIInv
<1>2. AsIfAtomic(t)'
    BY <1>1 DEF AsIfAtomic, Active, Idle, TxTypes
<1>3. ASSUME NEW u \in Txns \ {t} PROVE AsIfAtomic(u)'
    <2>1. txn'[u] = txn[u]
        BY <1>1 DEF TxTypes
    <2>2. Stays(u) /\ txn'[u].unseen = txn[u].unseen
        BY <2>1 DEF Stays
    <2>3. ASSUME Holding(u) PROVE Quiet(u)
        <3>1. ~Holding(t) /\ HasWritten(u) /\ HasWritten(t)
            BY <1>1, <2>3, ActiveRecord, CommitFacts DEF Locks, FindingLock
        <3>2. /\ UNCHANGED <<finding, action, hasEvidence>>
              /\ \A r \in txn[t].rows : acceptance[r].kind # "acceptance"
            BY <3>1, CommitFacts
        <3>3. \A r \in Acceptances : r \in txn[t].rows => r \notin txn[u].rows
            BY <1>1, <3>1 DEF Locks, RowLocks
        <3> QED BY <1>1, <3>2, <3>3, CommitFacts DEF Quiet
    <2> QED BY <2>2, <2>3, StillOther DEF StillInv
<1> QED BY <1>1, <1>2, <1>3 DEF StillInv

LEMMA UnlockedStill ==
    ASSUME HeldStill, TxIInv, TypeOK', StillInv, Unlocked
    PROVE  StillInv'
<1>1. txn' = txn /\ UNCHANGED <<finding, action, hasEvidence, policy>>
    BY DEF Unlocked, HeldStill, PutRiskSettings, Propose, StillInv
<1>2. ASSUME NEW b \in Acceptances
      PROVE  \/ acceptance'[b] = acceptance[b]
             \/ acceptance[b].state = "none" /\ acceptance'[b].state = "proposed"
    <2>1. CASE \E p \in Policies : PutRiskSettings(p)
        BY <2>1 DEF PutRiskSettings
    <2>2. CASE \E r \in Acceptances, k \in {"acceptance", "exception"}, u \in Users, l \in BOOLEAN : Propose(r, k, u, l)
        BY <2>2 DEF Propose, TxIInv, IInv, TypeOK
    <2> QED BY <2>1, <2>2 DEF Unlocked, HeldStill
<1>3. ASSUME NEW u \in Txns PROVE AsIfAtomic(u)'
    <2>1. Stays(u) /\ txn'[u].unseen = txn[u].unseen /\ Quiet(u)
        BY <1>1, <1>2 DEF Stays, Quiet
    <2> QED BY <2>1, StillOther DEF StillInv
<1> QED BY <1>1, <1>3 DEF StillInv

LEMMA NextStill ==
    ASSUME HeldStill, TxIInv, StillInv, [TxNext]_txVars
    PROVE  StillInv'
<1>1. TypeOK'
    BY NextTxIInv DEF TxIInv, IInv
<1>2. ASSUME NEW t \in Txns, Begin(t) PROVE StillInv'
    BY <1>1, <1>2, BeginStill
<1>3. ASSUME NEW t \in Txns, LockFinding(t) PROVE StillInv'
    BY <1>1, <1>3, LockFindingStill
<1>4. ASSUME NEW t \in Txns, WriteAction(t) PROVE StillInv'
    BY <1>1, <1>4, WriteActionStill
<1>5. ASSUME NEW t \in Txns, RefusePatch(t) \/ Abort(t) PROVE StillInv'
    BY <1>1, <1>5, AbortStill DEF RefusePatch, Abort
<1>6. ASSUME NEW t \in Txns, WritePatch(t) PROVE StillInv'
    BY <1>1, <1>6, WritePatchStill
<1>7. ASSUME NEW t \in Txns, ReadActions(t) PROVE StillInv'
    BY <1>1, <1>7, ReadActionsStill
<1>8. ASSUME NEW t \in Txns, Derive(t) PROVE StillInv'
    BY <1>1, <1>8, DeriveStill
<1>9. ASSUME NEW t \in Txns, Commit(t) PROVE StillInv'
    BY <1>1, <1>9, CommitStill
<1>10. CASE Unlocked
    BY <1>1, <1>10, UnlockedStill
<1>11. CASE \E r \in Acceptances : Midnight(r)
    BY <1>11 DEF Midnight, HeldStill
<1>12. CASE UNCHANGED txVars
    <2>1. UNCHANGED <<finding, action, hasEvidence, acceptance, policy, txn>>
        BY <1>12 DEF txVars
    <2>2. \A u \in Txns : Stays(u) /\ txn'[u].unseen = txn[u].unseen /\ Quiet(u)
        BY <2>1 DEF Stays, Quiet
    <2> QED BY <1>1, <2>1, <2>2, StillOther DEF StillInv
<1> QED
    BY <1>2, <1>3, <1>4, <1>5, <1>6, <1>7, <1>8, <1>9, <1>10, <1>11, <1>12 DEF TxNext, Progress

-----------------------------------------------------------------------------
\* The refinement.

\* The requests are those FindingGovernance makes of its handlers.
RequestsOfNext ==
    \A request \in Requests :
        /\ request.op = "attach_evidence" => request.caller \in EvidenceCallers
        /\ request.op = "patch" => request.legacy \in LegacyWrites \cup {Unset} /\ request.target \in DecisionWrites

Atomic == Next \/ \E rows \in SUBSET Due : ExpireRows(rows)

\* What a commit under the finding's lock leaves.
LEMMA CommittedRow ==
    ASSUME TxIInv, StillInv, NEW t \in Txns, Commit(t), txn[t].at = "derived"
    PROVE  /\ finding' = RecomputeFindingOperationalStatus(DecidedRow(t), action', hasEvidence', acceptance',
                                                           Caller(t), Op(t) = "patch" /\ PatchTransition(t) = "reopen")
           /\ Op(t) = "patch" => PatchAllowed(t)
           /\ txn[t].rows = {} => acceptance' = acceptance
           /\ Op(t) \notin ActionOps => action' = action
           /\ Op(t) # "attach_evidence" => hasEvidence' = hasEvidence
           /\ policy' = policy
           /\ StageChecked(t)
<1>1. Active(t) /\ Decided(t) /\ AsIfAtomic(t)
    BY ActiveRecord DEF Decided, TxIInv, StillInv
<1>2. /\ txn[t].row = RecomputedRow(t, ActionsOf(t))
      /\ txn[t].reopen = (Op(t) = "patch" /\ PatchTransition(t) = "reopen")
      /\ txn[t].unseen = {}
      /\ Op(t) = "patch" => PatchAllowed(t)
    BY <1>1 DEF AsIfAtomic
<1>3. /\ finding' = txn[t].row /\ policy' = policy
      /\ action' = ActionsOf(t) /\ hasEvidence' = EvidenceOf(t) /\ acceptance' = AcceptancesOf(t)
    BY DEF Commit
<1>4. txn[t].rows = {} => acceptance' = acceptance
    BY <1>1, <1>2, <1>3, AsOfBeginIsNow
<1>5. StageChecked(t) /\ hasEvidence \in BOOLEAN
    BY <1>1 DEF TxIInv, TxnGood, IInv, TypeOK
<1>6. Op(t) \notin ActionOps => action' = action
    BY <1>3 DEF ActionsOf
<1>7. Op(t) # "attach_evidence" => hasEvidence' = hasEvidence
    BY <1>3, <1>5 DEF EvidenceOf
<1>8. finding' = RecomputeFindingOperationalStatus(DecidedRow(t), action', hasEvidence', acceptance',
                                                   Caller(t), Op(t) = "patch" /\ PatchTransition(t) = "reopen")
    BY <1>2, <1>3 DEF RecomputedRow
<1> QED BY <1>2, <1>3, <1>4, <1>5, <1>6, <1>7, <1>8

LEMMA CommitIsAtomic ==
    ASSUME HeldStill, RequestsOfNext, TxIInv, StillInv, NEW t \in Txns, Commit(t)
    PROVE  Atomic
<1> DEFINE request == txn[t].request
<1>1. /\ request \in Requests /\ ActionChecked(t) /\ RowsChecked(t) /\ HasWritten(t) /\ TypeOK
      /\ action' = ActionsOf(t) /\ hasEvidence' = EvidenceOf(t) /\ acceptance' = AcceptancesOf(t)
    BY CommitFacts, ActiveRecord DEF TxIInv, IInv
<1>2. /\ Op(t) \in ActionOps \cup {"attach_evidence", "approve", "reject", "withdraw", "sweep", "patch"}
      /\ Caller(t) \in Callers
      /\ Op(t) \in ActionOps => request.action \in Actions
      /\ Op(t) = "update_action" => request.status \in ActionStatuses
      /\ Op(t) \in {"approve", "reject", "withdraw"} => request.acceptance \in Acceptances
      /\ Op(t) \in {"approve", "reject"} => Caller(t) \in Users
      /\ Op(t) = "sweep" => Caller(t) = NoOne
    BY <1>1, RequestFacts DEF Op, Caller
<1>3. CASE txn[t].at = "written" /\ ~TouchesFinding(t) /\ finding' = finding
    <2>1. /\ Op(t) = "sweep" /\ ~(\E r \in txn[t].rows : acceptance[r].kind = "acceptance")
        BY <1>3 DEF TouchesFinding
    <2>2. /\ txn[t].rows \in SUBSET Due /\ txn[t].rows # {} /\ AcceptanceWorkflow
        BY <1>1, <2>1, ActiveRecord, CommitFacts DEF RowsChecked, Due, TxIInv, TxnRecords
    <2>3. UNCHANGED <<action, hasEvidence, policy>>
        BY <1>1, <2>1, CommitFacts DEF ActionsOf, EvidenceOf, ActionOps, TypeOK
    <2>4. acceptance' = [a \in Acceptances |->
                            IF a \in txn[t].rows THEN [acceptance[a] EXCEPT !.state = "expired"] ELSE acceptance[a]]
        BY <1>1, <2>1 DEF AcceptancesOf, EndState
    <2>5. ExpireRows(txn[t].rows)
        BY <1>3, <2>1, <2>2, <2>3, <2>4 DEF ExpireRows
    <2> QED BY <2>2, <2>5 DEF Atomic
<1>4. CASE txn[t].at = "derived"
    <2>1. /\ finding' = RecomputeFindingOperationalStatus(DecidedRow(t), action', hasEvidence', acceptance',
                                                          Caller(t), Op(t) = "patch" /\ PatchTransition(t) = "reopen")
          /\ Op(t) = "patch" => PatchAllowed(t)
          /\ txn[t].rows = {} => acceptance' = acceptance
          /\ Op(t) \notin ActionOps => action' = action
          /\ Op(t) # "attach_evidence" => hasEvidence' = hasEvidence
          /\ policy' = policy
          /\ StageChecked(t)
        BY <1>4, CommittedRow
    <2>2. CASE Op(t) \in ActionOps \cup {"attach_evidence"}
        <3>1. DecidedRow(t) = finding /\ acceptance' = acceptance /\ (Op(t) = "patch") = FALSE
            BY <1>1, <2>1, <2>2 DEF DecidedRow, Prepared, EndOps, RowsChecked, ActionOps
        <3>2. Cascade(Caller(t))
            BY <2>1, <3>1 DEF Cascade
        <3>3. CASE Op(t) = "create_action"
            <4>1. action' = [action EXCEPT ![request.action] = "open"]
                BY <1>1, <3>3 DEF ActionsOf, ActionOps, NewActionStatus, Op
            <4>2. CreateAction(request.action, Caller(t))
                BY <1>1, <2>1, <3>1, <3>2, <3>3, <4>1 DEF CreateAction, ActionChecked
            <4> QED BY <1>2, <3>3, <4>2 DEF Atomic, Next, ActionOps
        <3>4. CASE Op(t) = "update_action"
            <4>1. action' = [action EXCEPT ![request.action] = request.status]
                BY <1>1, <3>4 DEF ActionsOf, ActionOps, NewActionStatus, Op
            <4>2. UpdateAction(request.action, request.status, Caller(t))
                BY <1>1, <2>1, <3>1, <3>2, <3>4, <4>1 DEF UpdateAction, ActionChecked
            <4> QED BY <1>2, <3>4, <4>2 DEF Atomic, Next, ActionOps
        <3>5. CASE Op(t) = "unblock_action"
            <4>1. action' = [action EXCEPT ![request.action] = "in_progress"]
                BY <1>1, <3>5 DEF ActionsOf, ActionOps, NewActionStatus, Op
            <4>2. UnblockAction(request.action, Caller(t))
                BY <1>1, <2>1, <3>1, <3>2, <3>5, <4>1 DEF UnblockAction, ActionChecked
            <4> QED BY <1>2, <3>5, <4>2 DEF Atomic, Next, ActionOps
        <3>6. CASE Op(t) = "attach_evidence"
            <4>1. hasEvidence' = TRUE /\ action' = action
                BY <1>1, <2>1, <3>6 DEF EvidenceOf, ActionOps
            <4>2. AttachEvidence(Caller(t))
                BY <2>1, <3>1, <3>2, <4>1 DEF AttachEvidence
            <4>3. Caller(t) \in EvidenceCallers
                BY <1>1, <3>6 DEF RequestsOfNext, Op, Caller
            <4> QED BY <4>2, <4>3 DEF Atomic, Next
        <3> QED BY <2>2, <3>3, <3>4, <3>5, <3>6 DEF ActionOps
    <2>3. CASE Op(t) \in {"approve", "reject", "withdraw"}
        <3> DEFINE a == request.acceptance
        <3>1. /\ txn[t].rows = {a} /\ a \in Acceptances /\ AcceptanceWorkflow
              /\ acceptance[a].state \in LiveStates
              /\ Op(t) \in {"approve", "reject"} =>
                    acceptance[a].state = "proposed" /\ acceptance[a].requester # Caller(t)
            BY <1>1, <1>2, <2>3 DEF RowsChecked
        <3>2. /\ UNCHANGED <<action, hasEvidence, policy>>
              /\ (Op(t) = "patch" /\ PatchTransition(t) = "reopen") = FALSE
              /\ DecidedRow(t) = Prepared(t)
            BY <2>1, <2>3 DEF ActionOps, DecidedRow
        <3>3. acceptance' = [acceptance EXCEPT ![a].state = EndState(Op(t))]
            <4> DEFINE state == EndState(Op(t))
            <4>1. acceptance' = [r \in Acceptances |->
                                    IF r \in {a} THEN [acceptance[r] EXCEPT !.state = state] ELSE acceptance[r]]
                BY <1>1, <3>1 DEF AcceptancesOf
            <4> HIDE DEF state, a
            <4>2. acceptance \in [Acceptances -> AcceptanceRows]
                BY <1>1 DEF TypeOK
            <4>3. acceptance' = [acceptance EXCEPT ![a].state = state]
                BY <4>1, <4>2
            <4> QED BY <4>3 DEF state
        <3>4. finding' = RecomputeFindingOperationalStatus(Prepared(t), action, hasEvidence, acceptance', Caller(t), FALSE)
            BY <2>1, <3>2
        <3>5. CASE Op(t) = "approve"
            <4>1. Prepared(t) = AcceptRisk(finding, acceptance[a].kind) /\ EndState(Op(t)) = "approved"
                BY <3>5 DEF Prepared, EndOps, EndState
            <4> HIDE DEF a
            <4>2. Approve(a, Caller(t))
                BY <3>1, <3>2, <3>3, <3>4, <3>5, <4>1 DEF Approve
            <4> QED BY <1>2, <3>1, <3>5, <4>2 DEF Atomic, Next
        <3>6. CASE Op(t) = "reject"
            <4>1. Reject(a, Caller(t))
                BY <3>1, <3>2, <3>3, <3>4, <3>6
                   DEF Reject, EndState, Prepared, EndOps, ReopenFindingAfterAcceptanceEnded
            <4> QED BY <1>2, <3>6, <4>1 DEF Atomic, Next
        <3>7. CASE Op(t) = "withdraw"
            <4>1. Withdraw(a, Caller(t))
                BY <3>1, <3>2, <3>3, <3>4, <3>7
                   DEF Withdraw, EndState, Prepared, EndOps, ReopenFindingAfterAcceptanceEnded
            <4> QED BY <1>2, <3>7, <4>1 DEF Atomic, Next
        <3> QED BY <2>3, <3>5, <3>6, <3>7
    <2>4. CASE Op(t) = "sweep"
        <3>1. /\ txn[t].rows \in SUBSET Due /\ txn[t].rows # {} /\ AcceptanceWorkflow
            BY <1>1, <2>4, ActiveRecord, CommitFacts DEF RowsChecked, Due, TxIInv, TxnRecords
        <3>2. \E r \in txn[t].rows : acceptance[r].kind = "acceptance"
            BY <1>4, <2>1, <2>4 DEF StageChecked, Holding, TouchesFinding
        <3>3. acceptance' = [a \in Acceptances |->
                                IF a \in txn[t].rows THEN [acceptance[a] EXCEPT !.state = "expired"] ELSE acceptance[a]]
            BY <1>1, <2>4 DEF AcceptancesOf, EndState
        <3>4. /\ UNCHANGED <<action, hasEvidence, policy>>
              /\ (Op(t) = "patch" /\ PatchTransition(t) = "reopen") = FALSE
              /\ DecidedRow(t) = ReleaseClosure(finding) /\ Caller(t) = NoOne
            BY <1>2, <2>1, <2>4 DEF ActionOps, DecidedRow, Prepared, EndOps
        <3>5. finding' = ReopenFindingAfterAcceptanceEnded(finding, acceptance', NoOne)
            BY <2>1, <3>4 DEF ReopenFindingAfterAcceptanceEnded
        <3>6. ExpireRows(txn[t].rows)
            BY <3>1, <3>2, <3>3, <3>4, <3>5 DEF ExpireRows
        <3> QED BY <3>1, <3>6 DEF Atomic
    <2>5. CASE Op(t) = "patch"
        <3>1. UNCHANGED <<action, hasEvidence, acceptance, policy>>
            BY <1>1, <2>1, <2>5 DEF ActionOps, RowsChecked
        <3>2. finding' = RecomputeFindingOperationalStatus(
                             ApplyDecision(PatchedRow(t), PatchTransition(t), request.target), action, hasEvidence,
                             acceptance, Caller(t), PatchTransition(t) = "reopen")
            BY <2>1, <2>5, <3>1 DEF DecidedRow
        <3>3. PatchFinding(Caller(t), request.legacy, request.target)
            BY <2>1, <2>5, <3>1, <3>2 DEF PatchFinding, PatchAllowed, PatchedRow, PatchTransition, StageChecked
        <3>4. request.legacy \in LegacyWrites \cup {Unset} /\ request.target \in DecisionWrites
            BY <1>1, <2>5 DEF RequestsOfNext, Op
        <3> QED BY <1>2, <3>3, <3>4 DEF Atomic, Next
    <2> QED BY <1>2, <2>2, <2>3, <2>4, <2>5
<1> QED BY <1>3, <1>4 DEF Commit

LEMMA StepIsAtomic ==
    ASSUME HeldStill, RequestsOfNext, TxIInv, StillInv, [TxNext]_txVars
    PROVE  [Atomic]_vars
<1>1. ASSUME NEW t \in Txns, Begin(t) PROVE UNCHANGED vars
    BY <1>1 DEF Begin, IssueUpdate, BeginActionRow, BeginEvidence, BeginAcceptance, BeginSweep, BeginPatch, Step
<1>2. ASSUME NEW t \in Txns, \/ LockFinding(t) \/ WriteAction(t) \/ RefusePatch(t) \/ WritePatch(t)
                             \/ ReadActions(t) \/ Derive(t) \/ Abort(t)
      PROVE  UNCHANGED vars
    BY <1>2 DEF LockFinding, WriteAction, RefusePatch, WritePatch, ReadActions, Derive, Abort, Step
<1>3. ASSUME NEW t \in Txns, Commit(t) PROVE Atomic
    BY <1>3, CommitIsAtomic
<1>4. CASE Unlocked
    BY <1>4 DEF Unlocked, Atomic, Next
<1>5. CASE \E r \in Acceptances : Midnight(r)
    BY <1>5 DEF Midnight, HeldStill
<1>6. CASE UNCHANGED txVars
    BY <1>6 DEF txVars, vars
<1> QED BY <1>1, <1>2, <1>3, <1>4, <1>5, <1>6 DEF TxNext, Progress

LEMMA InitStill == TxInit => StillInv
BY DEF TxInit, Init, StillInv, AsIfAtomic, Active, Idle

\* With the three inputs that no lock orders held still, the transactions
\* implement the handlers: whatever is committed, in whatever interleaving, is
\* a step of FindingGovernance, or a sweep of rows that were due.
THEOREM TransactionsAreHandlers ==
    ASSUME HeldStill, RequestsOfNext
    PROVE  TxSpec => Serializable
<1>1. TxInit => TxIInv /\ StillInv /\ Init
    BY InitTxIInv, InitStill DEF TxInit
<1>2. TxIInv /\ StillInv /\ [TxNext]_txVars => TxIInv' /\ StillInv' /\ [Atomic]_vars
    BY NextTxIInv, NextStill, StepIsAtomic
<1>3. [Atomic]_vars <=> [Next \/ \E rows \in SUBSET Due : ExpireRows(rows)]_vars
    BY DEF Atomic
<1> QED BY <1>1, <1>2, <1>3, PTL DEF TxSpec, Serializable
=============================================================================
