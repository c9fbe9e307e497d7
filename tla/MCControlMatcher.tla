-------------------------- MODULE MCControlMatcher --------------------------
(* Instances of ControlMatcher for TLC. *)
EXTENDS ControlMatcher

CONSTANTS j1, j2, w1, w2

=============================================================================
