------------------------------- MODULE Screen -------------------------------
(***************************************************************************)
(* What frame control owes the player: the scenes the guest closes are      *)
(* drawn and shown one after the other, each once and none before it is     *)
(* drawn; a scene is closed when the one before it has been on the screen.  *)
(***************************************************************************)
EXTENDS Naturals

VARIABLES closed, rendered, shown   \* scenes closed, the last one drawn, the one on the screen

vars == <<closed, rendered, shown>>

Init == closed = 0 /\ rendered = 0 /\ shown = 0

(* One command of the guest may close a scene, draw it and show it.         *)
Next ==
  /\ closed' = closed \/ (shown = closed /\ closed' = closed + 1)
  /\ rendered' \in {rendered, closed'}
  /\ shown' \in {shown, rendered'}

ScreenSpec == Init /\ [][Next]_vars
=============================================================================
