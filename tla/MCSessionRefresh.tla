--------------------------- MODULE MCSessionRefresh ---------------------------
(* A small browser for TLC; its constants are given in the configuration.   *)
EXTENDS SessionRefresh
=============================================================================
