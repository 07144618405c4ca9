------------------------------- MODULE MCTcp -------------------------------
(* One flow, both of whose streams wrap within the run.                      *)
EXTENDS TcpClaims
=============================================================================
