----------------------- MODULE MCFindingTransactions -----------------------
(* Instances of FindingTransactions for TLC: what is asked of two connections. *)
EXTENDS FindingTransactions, TLC

CONSTANTS a1, r1, r2, u1, u2, t1, t2

LenientOnly  == {[evidenceGate |-> FALSE, closureSod |-> FALSE]}
GateMayChange == {[evidenceGate |-> e, closureSod |-> FALSE] : e \in BOOLEAN}

Symmetry == Permutations(Txns) \cup Permutations(Acceptances)

Update(a, s)   == [op |-> "update_action", action |-> a, status |-> s, caller |-> u1]
Patch(l, d)    == [op |-> "patch", legacy |-> l, target |-> d, caller |-> u2]
Approval(r)    == [op |-> "approve", acceptance |-> r, caller |-> u2]
Withdrawal(r)  == [op |-> "withdraw", acceptance |-> r, caller |-> u1]

\* Actions, decisions and acceptances against one another.
CloseAndWork ==
    {[op |-> "create_action", action |-> a1, caller |-> u1], Update(a1, "blocked"),
     [op |-> "unblock_action", action |-> a1, caller |-> u1],
     Patch(Unset, "resolved"), Patch(Unset, "needs_review"), Patch("open", Unset),
     [op |-> "sweep", caller |-> NoOne]}
        \cup {Approval(r) : r \in Acceptances} \cup {Withdrawal(r) : r \in Acceptances}

\* A few of them, while the generated action is linked, the date moves and
\* the evidence policy changes.
ShortRequests ==
    {Update(a1, "closed"), Patch("closed", Unset), Approval(r1), [op |-> "attach_evidence", caller |-> u1]}

=============================================================================
