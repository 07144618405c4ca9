------------------------------ MODULE PvrClaims ------------------------------
(* What frame control should do.                                            *)
EXTENDS Pvr

(***************************************************************************)
(* The player sees every scene once and in order, whatever options drive    *)
(* the clocks and however a guest that waits for render-done and then for   *)
(* vblank is delayed, masked, put to sleep or fast-forwarded.               *)
(***************************************************************************)
Player == INSTANCE Screen WITH closed <- pvr.closed, rendered <- pvr.rendered, shown <- pvr.present
ShowsScenesInOrder == Player!ScreenSpec

(***************************************************************************)
(* No event is late by a batch of cycles or more: a fast-forward stops at   *)
(* the end of the render and at the vblank, however the two clocks and the  *)
(* pending cycles stand.  (A sleep moves the device clock alone, and may    *)
(* end past a vblank that pending cycles were to stop at.)                  *)
(***************************************************************************)
EventsOnTime ==
  /\ pvr.done_pending => clk.pending - pvr.due < Batch
  /\ clk.pvr_started /\ ~setup.sleeps => clk.pending - clk.target < Batch

(***************************************************************************)
(* A guest that waits for the end of a render, with or without a scene, and *)
(* for the vblank after it, goes on, and what it started is on the screen:  *)
(* no event is lost between the tick that raises it, the masks and the      *)
(* acknowledgement.                                                        *)
(***************************************************************************)
WaitsEnd == guest.wait # "no" ~> guest.wait = "no" /\ pvr.present = pvr.closed

(***************************************************************************)
(* A vblank swaps the completed render buffer into the present buffer: what *)
(* is on the screen has been rendered.                                      *)
(***************************************************************************)
PresentIsRendered == pvr.present <= pvr.rendered
=============================================================================
