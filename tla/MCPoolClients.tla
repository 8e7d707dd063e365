---------------------------- MODULE MCPoolClients ----------------------------
(* Instances of PoolClients for TLC.                                       *)
EXTENDS PoolClients
=============================================================================
