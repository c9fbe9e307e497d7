---------------------- MODULE MCFindingGovernance -----------------------
(* Finite instances of FindingGovernance for TLC. *)
EXTENDS FindingGovernance

\* risk_settings: the defaults, separation of duties alone, and both policies on.
Lenient   == [evidenceGate |-> FALSE, closureSod |-> FALSE]
Separated == [evidenceGate |-> FALSE, closureSod |-> TRUE]
Strict    == [evidenceGate |-> TRUE,  closureSod |-> TRUE]

PolicyMayChange == {Lenient, Strict}
SeparatedOnly   == {Separated}

=============================================================================
