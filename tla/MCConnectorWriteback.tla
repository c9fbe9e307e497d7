-------------------------- MODULE MCConnectorWriteback --------------------------
(***************************************************************************)
(* Instances of ConnectorWriteback for TLC.                                *)
(***************************************************************************)
EXTENDS ConnectorWriteback

CONSTANTS i1, i2, v1, v2, w1, w2, r1

OneRecord == [i \in Intents |-> r1]
=============================================================================
