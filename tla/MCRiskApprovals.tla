--------------------------- MODULE MCRiskApprovals ---------------------------
(***************************************************************************)
(* Instances of RiskApprovals: two administrators, who exchange freely, so *)
(* do the connections and the ids of rows.                                 *)
(***************************************************************************)
EXTENDS RiskApprovals, TLC

Symmetry == Permutations(Admins) \cup Permutations(Requests) \cup Permutations(Approvals)

=============================================================================
