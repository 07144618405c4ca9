------------------------------ MODULE LinkPipe ------------------------------
(***************************************************************************)
(* One direction of a link that may be set up anew: within a connection it  *)
(* is a pipe; a new connection starts with nothing taken, and what the old  *)
(* one had not delivered is lost.                                          *)
(***************************************************************************)
EXTENDS BytePipe

Restart == taken' = << >> /\ offered' \in {0, offered}

LinkNext == Next \/ Restart

LinkSpec == Init /\ [][LinkNext]_vars
=============================================================================
