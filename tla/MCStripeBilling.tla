---------------------------- MODULE MCStripeBilling ----------------------------
(***************************************************************************)
(* Instances of StripeBilling for TLC.                                     *)
(***************************************************************************)
EXTENDS StripeBilling, TLC

CONSTANTS s1, s2, h1, h2

\* A Brief, a Platform subscription, and a move from the one to the other.
Brief    == [s \in Subs |-> "professional"]
Platform == [s \in Subs |-> "platform"]
Upgrade  == [s \in Subs |-> IF s = s1 THEN "professional" ELSE "platform"]

Alike == Permutations(Handlers)
=============================================================================
