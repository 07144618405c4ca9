------------------------------- MODULE MCPvr -------------------------------
(* A frame of two or three lines; a render takes longer than a frame or not. *)
EXTENDS PvrClaims

Options(c, s, y, p) ==
  [clock |-> c, scheduled |-> s, forward |-> FALSE, hostsync |-> FALSE, style |-> y, polls |-> p, sleeps |-> FALSE,
   masks |-> [r \in Rows |-> IF r = 1 THEN Events ELSE {}], levels |-> {0}, lines |-> {2}]

TwoRows == [r \in Rows |-> CASE r = 0 -> {"vblank"} [] r = 2 -> {"done"} [] OTHER -> {}]

MCSetups ==
  { [Options(TRUE, TRUE, "careful", FALSE) EXCEPT !.masks = TwoRows, !.levels = {0, 4}],
    [Options(TRUE, TRUE, "careful", TRUE) EXCEPT !.forward = TRUE, !.hostsync = TRUE],
    [Options(TRUE, TRUE, "careful", TRUE) EXCEPT !.forward = TRUE, !.sleeps = TRUE],
    [Options(TRUE, FALSE, "careful", FALSE) EXCEPT !.forward = TRUE, !.lines = {1, 2}],
    Options(FALSE, TRUE, "careful", TRUE),
    Options(FALSE, FALSE, "careful", TRUE),
    Options(FALSE, FALSE, "probe", TRUE) }
MCQuick == {[Options(TRUE, TRUE, "quick", FALSE) EXCEPT !.levels = {0, 4}]}
=============================================================================
