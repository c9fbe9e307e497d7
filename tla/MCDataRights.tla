----------------------------- MODULE MCDataRights -----------------------------
(***************************************************************************)
(* DataRights for TLC.                                                     *)
(***************************************************************************)
EXTENDS DataRights

CONSTANTS e1, r1, w1, w2, s1

=============================================================================
