----------------------------- MODULE MCHACluster -----------------------------
(* Small instances of HACluster for TLC. *)
EXTENDS HACluster

CONSTANTS n1, n2, w1, w2
=============================================================================
