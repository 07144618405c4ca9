------------------------------- MODULE MCLapm -------------------------------
(* Both directions wrap within the run.                                      *)
EXTENDS LapmClaims
=============================================================================
