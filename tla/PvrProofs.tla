----------------------------- MODULE PvrProofs -----------------------------
(***************************************************************************)
(* Types, the due times, and the stages of a scene.  Each function of frame *)
(* control is described once, field by field; what a step does to the       *)
(* stages then follows from the functions it calls.                        *)
(***************************************************************************)
EXTENDS PvrClaims, TLAPS

States ==
  [fb : Nat, render : Nat, present : Nat, geometry : BOOLEAN, rtt : BOOLEAN, pending : BOOLEAN, busy : BOOLEAN,
   completed : BOOLEAN, context : BOOLEAN, done_pending : BOOLEAN, due : Int, list_init : BOOLEAN, polls : Nat,
   holly : SUBSET Events, closed : Nat, started : Nat, rendered : Nat]

Clocks ==
  [pending : Nat, raster : Int, lines : Nat \ {0}, pvr_started : BOOLEAN, target : Int,
   status : Int, since : Int, repeats : Int]

Guests == [wait : {"no", "done", "frame", "vblank"}, imask : 0..15, irq : Rows \cup {None}]

TypeOK == setup \in Setups /\ pvr \in States /\ clk \in Clocks /\ guest \in Guests

-----------------------------------------------------------------------------
(* Least and greatest elements of the small sets the module takes them of.  *)

LEMMA MinOfTwo ==
  ASSUME NEW a \in Int, NEW b \in Int
  PROVE  Min({a, b}) \in {a, b} /\ Min({a, b}) <= a /\ Min({a, b}) <= b
<1>1. \E x \in {a, b} : \A y \in {a, b} : x <= y
  OBVIOUS
<1> QED
  BY <1>1 DEF Min

LEMMA MinOfFive ==
  ASSUME NEW a \in Int, NEW b \in Int, NEW c \in Int, NEW d \in Int, NEW e \in Int, NEW S, S = {a, b, c, d, e}
  PROVE  Min(S) \in Int /\ Min(S) <= c /\ Min(S) <= d
<1>1. PICK x \in {a, b} : \A y \in {a, b} : x <= y
  OBVIOUS
<1>2. PICK z \in {c, d, e} : \A y \in {c, d, e} : z <= y
  OBVIOUS
<1>3. \E w \in S : \A y \in S : w <= y
  <2>1. CASE x <= z
    BY <1>1, <1>2, <2>1
  <2>2. CASE z <= x
    BY <1>1, <1>2, <2>2
  <2> QED
    BY <2>1, <2>2
<1>4. Min(S) \in S /\ \A y \in S : Min(S) <= y
  BY <1>3 DEF Min
<1> QED
  BY <1>4

LEMMA MaxOfRows ==
  ASSUME NEW S \in SUBSET Rows, S # {}
  PROVE  Max(S) \in S
<1>1. \E x \in S : \A y \in S : x >= y
  <2>1. CASE 2 \in S
    BY <2>1 DEF Rows
  <2>2. CASE 2 \notin S /\ 1 \in S
    BY <2>2 DEF Rows
  <2>3. CASE 2 \notin S /\ 1 \notin S
    <3>1. \A x \in S : x = 0
      BY <2>3 DEF Rows
    <3> QED
      BY <3>1
  <2> QED
    BY <2>1, <2>2, <2>3
<1> QED
  BY <1>1 DEF Max

-----------------------------------------------------------------------------
(* Frame control, field by field.                                          *)

(* What only commands of the guest change.                                 *)
SameScene(q, p) ==
  /\ q.fb = p.fb /\ q.geometry = p.geometry /\ q.rtt = p.rtt /\ q.closed = p.closed /\ q.started = p.started
  /\ q.context = p.context /\ q.pending = p.pending /\ q.list_init = p.list_init

LEMMA VblankTick ==
  ASSUME NEW p \in States, NEW q, q = pvr_vblank_tick(p)
  PROVE  /\ q \in States /\ SameScene(q, p) /\ q.rendered = p.rendered /\ q.busy = p.busy
         /\ q.done_pending = p.done_pending /\ q.due = p.due
         /\ q.completed = FALSE /\ q.holly = p.holly \cup {"vblank"}
         /\ p.completed => q.present = p.render /\ q.render = p.present
         /\ ~p.completed => q.present = p.present /\ q.render = p.render
<1> DEFINE holly == p.holly \cup {"vblank"}
<1>1. holly \in SUBSET Events
  BY DEF States, Events
<1>2. CASE p.completed
  <2>1. q = [p EXCEPT !.holly = holly, !.present = p.render, !.render = p.present, !.completed = FALSE]
    BY <1>2 DEF pvr_vblank_tick, States
  <2> HIDE DEF holly
  <2>2. /\ q \in States /\ SameScene(q, p) /\ q.rendered = p.rendered /\ q.busy = p.busy
        /\ q.done_pending = p.done_pending /\ q.due = p.due /\ q.completed = FALSE /\ q.holly = holly
        /\ q.present = p.render /\ q.render = p.present
    BY <1>1, <2>1 DEF States, SameScene
  <2> QED
    BY <1>2, <2>2 DEF holly
<1>3. CASE ~p.completed
  <2>1. q = [p EXCEPT !.holly = holly]
    BY <1>3 DEF pvr_vblank_tick
  <2> HIDE DEF holly
  <2>2. /\ q \in States /\ SameScene(q, p) /\ q.rendered = p.rendered /\ q.busy = p.busy
        /\ q.done_pending = p.done_pending /\ q.due = p.due /\ q.completed = p.completed /\ q.holly = holly
        /\ q.present = p.present /\ q.render = p.render
    BY <1>1, <2>1 DEF States, SameScene
  <2>3. p.completed = FALSE
    BY <1>3 DEF States
  <2> QED
    BY <1>3, <2>2, <2>3 DEF holly
<1> QED
  BY <1>2, <1>3

LEMMA CompleteRender ==
  ASSUME NEW p \in States, NEW q, q = pvr_complete_render(p)
  PROVE  /\ q \in States /\ SameScene(q, p) /\ q.present = p.present /\ q.render = p.render
         /\ q.busy = FALSE /\ q.done_pending = FALSE /\ q.holly = p.holly \cup {"done"}
         /\ p.context => q.completed = TRUE /\ q.rendered = p.started
         /\ ~p.context => q.completed = p.completed /\ q.rendered = p.rendered
<1> DEFINE holly == p.holly \cup {"done"}
           completed == p.completed \/ p.context
           rendered == IF p.context THEN p.started ELSE p.rendered
<1>1. holly \in SUBSET Events /\ completed \in BOOLEAN /\ rendered \in Nat
  BY DEF States, Events
<1> DEFINE half == [p EXCEPT !.done_pending = FALSE, !.due = 0, !.busy = FALSE]
<1>2. q = [half EXCEPT !.completed = completed, !.holly = holly, !.rendered = rendered]
  BY DEF pvr_complete_render
<1>3. /\ p.context => completed = TRUE /\ rendered = p.started
      /\ ~p.context => completed = p.completed /\ rendered = p.rendered
  BY DEF States
<1>4. holly = p.holly \cup {"done"}
  OBVIOUS
<1> HIDE DEF holly, completed, rendered
<1>5. half \in States
  <2>1. 0 \in Int
    OBVIOUS
  <2> QED
    BY <2>1, Zenon DEF States
<1>6. /\ SameScene(half, p) /\ half.present = p.present /\ half.render = p.render
      /\ half.busy = FALSE /\ half.done_pending = FALSE
  BY DEF States, SameScene
<1> HIDE DEF half
<1>7. /\ q \in States /\ SameScene(q, half) /\ q.present = half.present /\ q.render = half.render
      /\ q.busy = half.busy /\ q.done_pending = half.done_pending
      /\ q.holly = holly /\ q.completed = completed /\ q.rendered = rendered
  BY <1>1, <1>2, <1>5 DEF States, SameScene
<1> QED
  BY <1>3, <1>4, <1>6, <1>7 DEF SameScene

(* What the start of a render leaves alone.                                *)
SameBuffers(q, p) ==
  /\ q.fb = p.fb /\ q.geometry = p.geometry /\ q.rtt = p.rtt /\ q.closed = p.closed
  /\ q.list_init = p.list_init /\ q.present = p.present /\ q.render = p.render

LEMMA RefuseRender ==
  ASSUME NEW p \in States, NEW start, NEW time, p.busy \/ (~p.pending /\ ~start)
  PROVE  pvr_begin_render(p, start, time) = p
BY DEF pvr_begin_render

(* What it does when it is not refused.                                    *)
Begun(q, p) ==
  /\ q \in States /\ SameBuffers(q, p) /\ q.pending = FALSE /\ q.context = p.pending
  /\ setup.scheduled =>
       /\ q.busy = TRUE /\ q.done_pending = TRUE /\ q.due > clk.pending
       /\ q.completed = p.completed /\ q.holly = p.holly /\ q.rendered = p.rendered
       /\ p.pending => q.started = p.render
  /\ ~setup.scheduled =>
       /\ q.busy = FALSE /\ q.done_pending = FALSE /\ q.holly = p.holly \cup {"done"}
       /\ p.pending => q.completed = TRUE /\ q.rendered = p.render
       /\ ~p.pending => q.completed = p.completed /\ q.rendered = p.rendered

LEMMA BeginRender ==
  ASSUME NEW p \in States, NEW start, NEW time \in RenderTimes, setup \in Setups, clk \in Clocks,
         ~p.busy, p.pending \/ start
  PROVE  Begun(pvr_begin_render(p, start, time), p)
<1> DEFINE q == pvr_begin_render(p, start, time)
<1> SUFFICES Begun(q, p)
  OBVIOUS
<1> DEFINE started == IF p.pending THEN p.render ELSE p.started
           cost == IF p.pending THEN time ELSE CommandTime
           due == clk.pending + cost
           busy == [p EXCEPT !.busy = TRUE, !.pending = FALSE, !.context = p.pending, !.started = started]
           timed == [busy EXCEPT !.done_pending = TRUE, !.due = due]
<1>1. started \in Nat /\ (p.pending => started = p.render)
  BY DEF States
<1>2. due \in Int /\ due > clk.pending
  <2>1. time \in Nat \ {0} /\ CommandTime \in Nat \ {0} /\ clk.pending \in Nat
    BY PvrAssumption DEF Clocks
  <2>2. cost \in Nat \ {0}
    BY <2>1
  <2> HIDE DEF cost
  <2> QED
    BY <2>1, <2>2
<1>3. q = IF setup.scheduled THEN timed ELSE pvr_complete_render(busy)
  BY DEF pvr_begin_render
<1> HIDE DEF started, due, q
<1>4. busy \in States
  BY <1>1, Zenon DEF States
<1>5. /\ SameBuffers(busy, p) /\ busy.pending = FALSE /\ busy.context = p.pending /\ busy.busy = TRUE
      /\ busy.completed = p.completed /\ busy.holly = p.holly /\ busy.rendered = p.rendered
      /\ busy.started = started
  BY DEF States, SameBuffers
<1> HIDE DEF busy
<1>6. CASE setup.scheduled
  <2>1. timed \in States
    BY <1>2, <1>4, Zenon DEF States
  <2>2. /\ SameBuffers(timed, busy) /\ timed.pending = busy.pending /\ timed.context = busy.context
        /\ timed.busy = busy.busy /\ timed.completed = busy.completed /\ timed.holly = busy.holly
        /\ timed.rendered = busy.rendered /\ timed.started = busy.started
        /\ timed.done_pending = TRUE /\ timed.due = due
    BY <1>4 DEF States, SameBuffers
  <2>3. q = timed
    BY <1>3, <1>6
  <2> HIDE DEF timed
  <2> QED
    BY <1>1, <1>2, <1>5, <1>6, <2>1, <2>2, <2>3 DEF SameBuffers, Begun
<1>7. CASE ~setup.scheduled
  <2>1. q = pvr_complete_render(busy)
    BY <1>3, <1>7
  <2>2. /\ q \in States /\ SameScene(q, busy) /\ q.present = busy.present /\ q.render = busy.render
        /\ q.busy = FALSE /\ q.done_pending = FALSE /\ q.holly = busy.holly \cup {"done"}
        /\ busy.context => q.completed = TRUE /\ q.rendered = busy.started
        /\ ~busy.context => q.completed = busy.completed /\ q.rendered = busy.rendered
    BY <1>4, <2>1, CompleteRender
  <2> QED
    BY <1>1, <1>5, <1>7, <2>2 DEF SameScene, SameBuffers, Begun
<1> QED
  BY <1>6, <1>7

(* What closing a scene leaves alone.                                      *)
SameRender(q, p) ==
  /\ q.present = p.present /\ q.busy = p.busy /\ q.completed = p.completed /\ q.context = p.context
  /\ q.done_pending = p.done_pending /\ q.due = p.due /\ q.holly = p.holly /\ q.started = p.started
  /\ q.rendered = p.rendered

Textured(p) == [p EXCEPT !.geometry = FALSE, !.rtt = FALSE, !.fb = 0]

LEMMA CloseTexture ==
  ASSUME NEW p, p.rtt, NEW start, NEW time
  PROVE  pvr_finalize_logical_frame(p, start, time) = Textured(p)
BY DEF pvr_finalize_logical_frame, Textured

LEMMA TextureTyped ==
  ASSUME NEW p \in States, NEW q, q = Textured(p)
  PROVE  /\ q \in States /\ SameRender(q, p) /\ q.pending = p.pending /\ q.render = p.render
         /\ q.closed = p.closed /\ q.geometry = FALSE
<1>1. q = [p EXCEPT !.geometry = FALSE, !.rtt = FALSE, !.fb = 0]
  BY DEF Textured
<1>2. q \in States
  <2>1. 0 \in Nat
    OBVIOUS
  <2> QED
    BY <1>1, <2>1, Zenon DEF States
<1>3. /\ SameRender(q, p) /\ q.pending = p.pending /\ q.render = p.render
      /\ q.closed = p.closed /\ q.geometry = FALSE
  BY <1>1 DEF States, SameRender
<1> QED
  BY <1>2, <1>3

Handed(p) == [p EXCEPT !.render = p.fb, !.fb = 0, !.pending = TRUE, !.geometry = FALSE, !.closed = @ + 1]

LEMMA HandOver ==
  ASSUME NEW p \in States, NEW q, q = Handed(p)
  PROVE  /\ q \in States /\ SameRender(q, p) /\ q.pending = TRUE /\ q.render = p.fb
         /\ q.closed = p.closed + 1 /\ q.geometry = FALSE
<1> DEFINE closed == p.closed + 1
           half == [p EXCEPT !.render = p.fb, !.fb = 0]
<1>1. closed \in Nat /\ 0 \in Nat
  BY DEF States
<1>2. q = [half EXCEPT !.pending = TRUE, !.geometry = FALSE, !.closed = closed]
  <2>1. half.closed = p.closed
    BY Zenon DEF States
  <2> QED
    BY <2>1 DEF Handed
<1> HIDE DEF closed
<1>3. half \in States
  BY <1>1, Zenon DEF States
<1>4. SameRender(half, p) /\ half.render = p.fb
  BY DEF States, SameRender
<1> HIDE DEF half
<1>5. q \in States
  BY <1>1, <1>2, <1>3, Zenon DEF States
<1>6. SameRender(q, half) /\ q.pending = TRUE /\ q.render = half.render /\ q.closed = closed /\ q.geometry = FALSE
  BY <1>2, <1>3 DEF States, SameRender
<1> QED
  BY <1>4, <1>5, <1>6 DEF SameRender, closed

LEMMA CloseScene ==
  ASSUME NEW p \in States, ~p.rtt, ~p.completed, NEW time
  PROVE  /\ pvr_finalize_logical_frame(p, FALSE, time) = Handed(p)
         /\ pvr_finalize_logical_frame(p, TRUE, time) = TickIfUnclocked(pvr_begin_render(Handed(p), FALSE, time))
BY Zenon DEF pvr_finalize_logical_frame, Handed

-----------------------------------------------------------------------------
(* The stages of a scene.                                                  *)

Quiet(p) == ~p.busy /\ ~p.completed /\ p.present = p.closed /\ p.rendered = p.closed

Commanded(p) == p.busy /\ ~p.context /\ ~p.completed /\ p.present = p.closed /\ p.rendered = p.closed

Drawing(p) ==
  /\ p.busy /\ p.context /\ ~p.completed /\ p.started = p.closed /\ p.render = p.closed
  /\ p.rendered = p.present /\ p.closed = p.present + 1

Drawn(p) ==
  /\ ~p.busy /\ p.rendered = p.closed
  /\ p.completed => p.render = p.closed
  /\ ~p.completed => p.present = p.closed

Staged(p, wait) ==
  /\ ~p.pending /\ p.busy = p.done_pending
  /\ p.geometry /\ ~p.rtt => p.fb = p.closed + 1
  /\ wait = "no" => Quiet(p) /\ (setup.style = "probe" \/ "done" \notin p.holly)
  /\ wait = "done" => ("done" \notin p.holly /\ Commanded(p)) \/ ("done" \in p.holly /\ Quiet(p))
  /\ wait = "frame" => ("done" \notin p.holly /\ Drawing(p)) \/ ("done" \in p.holly /\ Drawn(p))
  /\ wait = "vblank" => Drawn(p) /\ "done" \notin p.holly /\ ("vblank" \in p.holly => ~p.completed)

Waits == {"no", "done", "frame", "vblank"}

Scenes == setup.style # "quick" /\ (setup.style = "probe" => guest.wait = "no") /\ Staged(pvr, guest.wait)

(* A step of the devices on the scenes.                                    *)
Moves(p, q) ==
  q.closed = p.closed /\ q.rendered \in {p.rendered, q.closed} /\ q.present \in {p.present, q.rendered}

LEMMA TickStaged ==
  ASSUME NEW p \in States, NEW wait \in Waits, Staged(p, wait), NEW q, q = pvr_vblank_tick(p)
  PROVE  Staged(q, wait) /\ q \in States /\ q.closed = p.closed /\ q.rendered = p.rendered
         /\ q.present \in {p.present, q.rendered}
<1>1. /\ q \in States /\ SameScene(q, p) /\ q.rendered = p.rendered /\ q.busy = p.busy
      /\ q.done_pending = p.done_pending
      /\ q.completed = FALSE /\ q.holly = p.holly \cup {"vblank"}
      /\ p.completed => q.present = p.render /\ q.render = p.present
      /\ ~p.completed => q.present = p.present /\ q.render = p.render
  BY VblankTick
<1>2. "done" \in q.holly <=> "done" \in p.holly
  BY <1>1
<1>3. Drawn(p) => Drawn(q) /\ q.present \in {p.present, q.rendered}
  BY <1>1 DEF Drawn, SameScene
<1>4. Quiet(p) => Quiet(q) /\ q.present = p.present
  BY <1>1 DEF Quiet, SameScene
<1>5. Commanded(p) => Commanded(q) /\ q.present = p.present
  BY <1>1 DEF Commanded, SameScene
<1>6. Drawing(p) => Drawing(q) /\ q.present = p.present
  BY <1>1 DEF Drawing, SameScene
<1>7. Drawn(p) \/ Quiet(p) \/ Commanded(p) \/ Drawing(p)
  BY DEF Staged, Waits
<1>8. Staged(q, wait)
  BY <1>1, <1>2, <1>3, <1>4, <1>5, <1>6 DEF Staged, SameScene
<1> QED
  BY <1>1, <1>3, <1>4, <1>5, <1>6, <1>7, <1>8 DEF SameScene

LEMMA CompleteStaged ==
  ASSUME NEW p \in States, NEW wait \in Waits, Staged(p, wait), p.done_pending, NEW q, q = pvr_complete_render(p)
  PROVE  Staged(q, wait) /\ q \in States /\ q.closed = p.closed /\ q.present = p.present
         /\ q.rendered \in {p.rendered, q.closed}
<1>1. /\ q \in States /\ SameScene(q, p) /\ q.present = p.present /\ q.render = p.render
      /\ q.busy = FALSE /\ q.done_pending = FALSE /\ q.holly = p.holly \cup {"done"}
      /\ p.context => q.completed = TRUE /\ q.rendered = p.started
      /\ ~p.context => q.completed = p.completed /\ q.rendered = p.rendered
  BY CompleteRender
<1>2. "done" \in q.holly
  BY <1>1
<1>3. p.busy
  BY DEF Staged, States
<1>4. (wait = "done" /\ Commanded(p)) \/ (wait = "frame" /\ Drawing(p))
  BY <1>3 DEF Staged, Waits, Quiet, Drawn
<1>5. CASE wait = "done" /\ Commanded(p)
  <2>1. Quiet(q)
    BY <1>1, <1>5 DEF Commanded, Quiet, SameScene
  <2> QED
    BY <1>1, <1>2, <1>5, <2>1 DEF Staged, Commanded, SameScene
<1>6. CASE wait = "frame" /\ Drawing(p)
  <2>1. Drawn(q) /\ q.rendered = q.closed
    BY <1>1, <1>6 DEF Drawing, Drawn, SameScene
  <2> QED
    BY <1>1, <1>2, <1>6, <2>1 DEF Staged, SameScene
<1> QED
  BY <1>4, <1>5, <1>6

-----------------------------------------------------------------------------
(* Every step is well typed.                                               *)

LEMMA SinceTyped ==
  ASSUME clk \in Clocks, NEW cycles \in Int
  PROVE  Since(cycles) \in Int
<1>1. clk.since + cycles \in Int /\ Window + 1 \in Int
  BY PvrAssumption DEF Clocks
<1>2. Min({clk.since + cycles, Window + 1}) \in Int
  BY <1>1, MinOfTwo
<1> QED
  BY <1>2 DEF Since

LEMMA FrameTyped ==
  ASSUME clk \in Clocks
  PROVE  FrameCycles \in Nat \ {0} /\ FrameCycles \in Int /\ 0 < FrameCycles
<1>1. clk.lines \in Nat \ {0} /\ LineCycles \in Nat \ {0}
  BY PvrAssumption DEF Clocks
<1>2. \A a \in Nat \ {0}, b \in Nat \ {0} : a * b \in Nat \ {0}
  OBVIOUS
<1> QED
  BY <1>1, <1>2 DEF FrameCycles

(* A vblank that is owed is given before anything else sees the clock.      *)
LEMMA TargetAhead ==
  ASSUME clk \in Clocks, NEW left \in Int
  PROVE  NextTarget(left) \in Int /\ NextTarget(left) >= 1 /\ (left > 0 => NextTarget(left) = left)
<1> DEFINE f == FrameCycles
<1>1. f \in Nat \ {0}
  BY FrameTyped
<1>2. NextTarget(left) = IF left <= 0 THEN ((left - 1) % f) + 1 ELSE left
  BY DEF NextTarget
<1> HIDE DEF f
<1>3. (left - 1) % f \in 0..f - 1
  BY <1>1
<1> QED
  BY <1>1, <1>2, <1>3

LEMMA LeftTyped ==
  ASSUME clk \in Clocks, NEW cycles \in Int
  PROVE  Left(cycles) \in Int
<1>1. FrameCycles \in Int
  BY FrameTyped
<1> QED
  BY <1>1 DEF Left, Clocks

LEMMA ScannedTyped ==
  ASSUME NEW p \in States, NEW left
  PROVE  Scanned(p, left) \in States
BY VblankTick DEF Scanned

LEMMA HollyTyped ==
  ASSUME guest \in Guests, NEW holly
  PROVE  /\ sh4_try_holly_interrupt(holly) \in Guests
         /\ sh4_try_holly_interrupt(holly).wait = guest.wait
<1> DEFINE rows == {r \in Rows : Priority(r) > guest.imask /\ holly \cap setup.masks[r] # {}}
<1>1. rows # {} => Max(rows) \in Rows
  BY MaxOfRows
<1>2. sh4_try_holly_interrupt(holly) = IF guest.irq # None \/ rows = {} THEN guest ELSE [guest EXCEPT !.irq = Max(rows)]
  BY DEF sh4_try_holly_interrupt
<1> HIDE DEF rows
<1>3. CASE guest.irq # None \/ rows = {}
  BY <1>2, <1>3
<1>4. CASE ~(guest.irq # None \/ rows = {})
  <2> DEFINE row == Max(rows)
  <2>1. row \in Rows
    BY <1>1, <1>4
  <2>2. sh4_try_holly_interrupt(holly) = [guest EXCEPT !.irq = row]
    BY <1>2, <1>4
  <2> HIDE DEF row
  <2> QED
    BY <2>1, <2>2 DEF Guests
<1> QED
  BY <1>3, <1>4

(* The tick: what the render and the vblank leave of frame control.         *)
Served(cycles) ==
  IF ~pvr.done_pending THEN pvr
  ELSE IF cycles >= pvr.due THEN pvr_complete_render(pvr) ELSE [pvr EXCEPT !.due = @ - cycles]

Ticked(cycles) == IF setup.clock THEN Scanned(Served(cycles), Left(cycles)) ELSE Served(cycles)

TickedClock(cycles) ==
  [clk EXCEPT !.pending = 0, !.raster = (@ + cycles) % FrameCycles, !.since = Since(cycles - clk.pending),
              !.pvr_started = setup.clock, !.target = IF setup.clock THEN NextTarget(Left(cycles)) ELSE 0]

LEMMA FullTick ==
  ASSUME NEW cycles, dc_runtime_tick_full(cycles)
  PROVE  /\ pvr' = Ticked(cycles) /\ clk' = TickedClock(cycles)
         /\ guest' = sh4_try_holly_interrupt(Ticked(cycles).holly)
BY Zenon DEF dc_runtime_tick_full, Ticked, Served, TickedClock

LEMMA ServedTyped ==
  ASSUME pvr \in States, NEW cycles \in Nat
  PROVE  /\ Served(cycles) \in States
         /\ Served(cycles).done_pending => pvr.done_pending /\ Served(cycles).due >= 1
<1>1. CASE ~pvr.done_pending
  BY <1>1 DEF Served
<1>2. CASE pvr.done_pending /\ cycles >= pvr.due
  <2>1. Served(cycles) = pvr_complete_render(pvr)
    BY <1>2 DEF Served
  <2> QED
    BY <2>1, CompleteRender
<1>3. CASE pvr.done_pending /\ ~(cycles >= pvr.due)
  <2> DEFINE due == pvr.due - cycles
             p == [pvr EXCEPT !.due = due]
  <2>1. due \in Int /\ due >= 1
    BY <1>3 DEF States
  <2>2. Served(cycles) = p
    BY <1>3 DEF Served
  <2> HIDE DEF due
  <2>3. p \in States /\ p.due = due
    BY <2>1 DEF States
  <2> QED
    BY <1>3, <2>1, <2>2, <2>3
<1> QED
  BY <1>1, <1>2, <1>3

LEMMA TickedClockTyped ==
  ASSUME setup \in Setups, clk \in Clocks, NEW cycles \in Nat
  PROVE  /\ TickedClock(cycles) \in Clocks /\ TickedClock(cycles).pending = 0
         /\ TickedClock(cycles).pvr_started => TickedClock(cycles).target >= 1
<1> DEFINE raster == (clk.raster + cycles) % FrameCycles
           since == Since(cycles - clk.pending)
           target == IF setup.clock THEN NextTarget(Left(cycles)) ELSE 0
           half == [clk EXCEPT !.pending = 0, !.raster = raster]
           whole == [half EXCEPT !.since = since, !.pvr_started = setup.clock, !.target = target]
<1>1. raster \in Int
  <2> DEFINE f == FrameCycles
             now == clk.raster + cycles
  <2>1. f \in Nat \ {0} /\ now \in Int
    BY FrameTyped DEF Clocks
  <2> HIDE DEF f, now
  <2>2. now % f \in Int
    BY <2>1
  <2> QED
    BY <2>2 DEF f, now
<1>2. since \in Int
  <2>1. cycles - clk.pending \in Int
    BY DEF Clocks
  <2> QED
    BY <2>1, SinceTyped
<1>3. target \in Int /\ (setup.clock => target >= 1)
  BY TargetAhead, LeftTyped
<1>4. setup.clock \in BOOLEAN
  BY PvrAssumption DEF Setup
<1>5. TickedClock(cycles) = whole
  BY Zenon DEF TickedClock
<1> HIDE DEF raster, since, target
<1>6. half \in Clocks /\ half.pending = 0
  BY <1>1 DEF Clocks
<1> HIDE DEF half
<1>7. whole \in Clocks
  BY <1>2, <1>3, <1>4, <1>6, Zenon DEF Clocks
<1>8. whole.pending = 0 /\ whole.pvr_started = setup.clock /\ whole.target = target
  BY <1>6 DEF Clocks
<1> QED
  BY <1>3, <1>5, <1>7, <1>8

-----------------------------------------------------------------------------
(* Due times.                                                              *)

OnTime(p) == p.done_pending => p.due >= 1 /\ clk.pending - p.due < Batch

ClockOnTime == clk.pvr_started => clk.target >= 1 /\ (~setup.sleeps => clk.pending - clk.target < Batch)

Timed == TypeOK /\ OnTime(pvr) /\ ClockOnTime

LEMMA UnclockedOnTime ==
  ASSUME NEW p \in States, OnTime(p)
  PROVE  TickIfUnclocked(p) \in States /\ OnTime(TickIfUnclocked(p))
<1>1. pvr_vblank_tick(p) \in States /\ OnTime(pvr_vblank_tick(p))
  BY VblankTick DEF OnTime
<1> QED
  BY <1>1 DEF TickIfUnclocked

LEMMA BeginOnTime ==
  ASSUME setup \in Setups, clk \in Clocks, NEW p \in States, OnTime(p), NEW start, NEW time \in RenderTimes
  PROVE  pvr_begin_render(p, start, time) \in States /\ OnTime(pvr_begin_render(p, start, time))
<1>1. CASE p.busy \/ (~p.pending /\ ~start)
  BY <1>1, RefuseRender
<1>2. CASE ~p.busy /\ (p.pending \/ start)
  <2> DEFINE q == pvr_begin_render(p, start, time)
  <2>1. Begun(q, p)
    BY <1>2, BeginRender
  <2> HIDE DEF q
  <2>2. clk.pending \in Nat /\ q \in States /\ q.due \in Int /\ Batch \in Nat \ {0}
    BY <2>1, PvrAssumption DEF Clocks, States, Begun
  <2>3. OnTime(q)
    BY <2>1, <2>2 DEF OnTime, Begun
  <2> QED
    BY <2>2, <2>3 DEF q
<1> QED
  BY <1>1, <1>2

LEMMA HandedOnTime ==
  ASSUME NEW p \in States, OnTime(p)
  PROVE  Handed(p) \in States /\ OnTime(Handed(p))
BY HandOver DEF OnTime, SameRender

LEMMA FinalizeOnTime ==
  ASSUME setup \in Setups, clk \in Clocks, NEW p \in States, OnTime(p), NEW start, NEW time \in RenderTimes
  PROVE  /\ pvr_finalize_logical_frame(p, start, time) \in States
         /\ OnTime(pvr_finalize_logical_frame(p, start, time))
<1>1. CASE p.rtt
  <2>1. pvr_finalize_logical_frame(p, start, time) = Textured(p)
    BY <1>1, CloseTexture
  <2>2. Textured(p) \in States /\ SameRender(Textured(p), p)
    BY TextureTyped
  <2>3. OnTime(Textured(p))
    BY <2>2 DEF OnTime, SameRender
  <2> QED
    BY <2>1, <2>2, <2>3
<1>2. CASE ~p.rtt
  <2> DEFINE shown == IF p.completed THEN TickIfUnclocked(p) ELSE p
             handed == [shown EXCEPT !.render = p.fb, !.fb = 0, !.pending = TRUE, !.geometry = FALSE, !.closed = @ + 1]
  <2>1. shown \in States /\ OnTime(shown) /\ shown.fb = p.fb
    <3>1. TickIfUnclocked(p) \in States /\ OnTime(TickIfUnclocked(p))
      BY UnclockedOnTime
    <3>2. pvr_vblank_tick(p).fb = p.fb
      BY VblankTick DEF SameScene
    <3>3. TickIfUnclocked(p).fb = p.fb
      BY <3>2, Zenon DEF TickIfUnclocked
    <3> QED
      BY <3>1, <3>3
  <2>2. handed = Handed(shown)
    BY <2>1, Zenon DEF Handed
  <2>3. pvr_finalize_logical_frame(p, start, time)
          = IF start THEN TickIfUnclocked(pvr_begin_render(handed, FALSE, time)) ELSE handed
    BY <1>2, Zenon DEF pvr_finalize_logical_frame
  <2> HIDE DEF shown, handed
  <2>4. handed \in States /\ OnTime(handed)
    BY <2>1, <2>2, HandedOnTime
  <2>5. pvr_begin_render(handed, FALSE, time) \in States /\ OnTime(pvr_begin_render(handed, FALSE, time))
    BY <2>4, BeginOnTime
  <2>6. /\ TickIfUnclocked(pvr_begin_render(handed, FALSE, time)) \in States
        /\ OnTime(TickIfUnclocked(pvr_begin_render(handed, FALSE, time)))
    BY <2>5, UnclockedOnTime
  <2> QED
    BY <2>3, <2>4, <2>6
<1> QED
  BY <1>1, <1>2

LEMMA ScannedOnTime ==
  ASSUME NEW p \in States, NEW left
  PROVE  /\ Scanned(p, left).done_pending = p.done_pending /\ Scanned(p, left).due = p.due
BY VblankTick DEF Scanned

LEMMA RunTimed ==
  ASSUME Timed, NEW cycles \in 1..Block, Run(cycles)
  PROVE  Timed'
<1>1. cycles \in Nat /\ clk.pending \in Nat /\ Batch \in Nat \ {0}
  BY PvrAssumption DEF Timed, TypeOK, Clocks
<1>2. CASE clk.pending + cycles < Batch
  <2> DEFINE pending == clk.pending + cycles
             since == Since(cycles)
  <2>1. clk' = [clk EXCEPT !.pending = pending, !.since = since] /\ pvr' = pvr /\ guest' = guest /\ setup' = setup
    BY <1>2, Zenon DEF Run
  <2>2. pending \in Nat /\ pending < Batch /\ since \in Int
    BY <1>1, <1>2, SinceTyped DEF Timed, TypeOK
  <2> HIDE DEF pending, since
  <2>3. clk' \in Clocks /\ clk'.pending = pending /\ clk'.target = clk.target /\ clk'.pvr_started = clk.pvr_started
    BY <2>1, <2>2 DEF Timed, TypeOK, Clocks
  <2>4. clk'.target \in Int /\ pvr.due \in Int
    BY <2>3 DEF Timed, TypeOK, Clocks, States
  <2>5. OnTime(pvr)'
    BY <1>1, <2>1, <2>2, <2>3, <2>4 DEF Timed, OnTime
  <2>6. ClockOnTime'
    BY <1>1, <2>1, <2>2, <2>3, <2>4 DEF Timed, ClockOnTime
  <2> QED
    BY <2>1, <2>3, <2>5, <2>6 DEF Timed, TypeOK
<1>3. CASE ~(clk.pending + cycles < Batch)
  <2> DEFINE n == clk.pending + cycles
  <2>1. dc_runtime_tick_full(n) /\ setup' = setup
    BY <1>3 DEF Run
  <2>2. n \in Nat
    BY <1>1
  <2> HIDE DEF n
  <2>3. /\ pvr' = Ticked(n) /\ clk' = TickedClock(n) /\ guest' = sh4_try_holly_interrupt(Ticked(n).holly)
    BY <2>1, FullTick
  <2>4. Served(n) \in States /\ (Served(n).done_pending => Served(n).due >= 1)
    BY <2>2, ServedTyped DEF Timed, TypeOK
  <2>5. Ticked(n) \in States /\ (Ticked(n).done_pending => Ticked(n).due >= 1)
    BY <2>4, ScannedTyped, ScannedOnTime DEF Ticked
  <2>6. clk' \in Clocks /\ clk'.pending = 0 /\ (clk'.pvr_started => clk'.target >= 1)
    BY <2>2, <2>3, TickedClockTyped DEF Timed, TypeOK
  <2>7. guest' \in Guests
    BY <2>3, HollyTyped DEF Timed, TypeOK
  <2>8. clk'.target \in Int /\ Ticked(n).due \in Int
    BY <2>5, <2>6 DEF Clocks, States
  <2>9. OnTime(pvr)' /\ ClockOnTime'
    BY <1>1, <2>3, <2>5, <2>6, <2>8 DEF OnTime, ClockOnTime
  <2> QED
    BY <2>1, <2>3, <2>5, <2>6, <2>7, <2>9 DEF Timed, TypeOK
<1> QED
  BY <1>2, <1>3

LEMMA SleepTimed ==
  ASSUME Timed, Sleep(Nap)
  PROVE  Timed'
<1> DEFINE target == NextTarget(Left(Nap))
<1>1. Nap \in Int
  BY PvrAssumption
<1>2. target \in Int /\ target >= 1
  BY <1>1, LeftTyped, TargetAhead DEF Timed, TypeOK
<1>3. /\ setup.sleeps /\ setup' = setup /\ guest' = guest /\ pvr' = Scanned(pvr, Left(Nap))
      /\ clk' = [clk EXCEPT !.pvr_started = TRUE, !.target = target]
  BY Zenon DEF Sleep
<1> HIDE DEF target
<1>4. clk' \in Clocks /\ clk'.pending = clk.pending /\ clk'.target = target
  BY <1>2, <1>3 DEF Timed, TypeOK, Clocks
<1>5. pvr' \in States /\ pvr'.done_pending = pvr.done_pending /\ pvr'.due = pvr.due
  BY <1>3, ScannedTyped, ScannedOnTime DEF Timed, TypeOK
<1> QED
  BY <1>2, <1>3, <1>4, <1>5 DEF Timed, TypeOK, OnTime, ClockOnTime

(* A skip ends before the end of the render and before the vblank.          *)
LEMMA SkipBound ==
  ASSUME pvr \in States, clk \in Clocks, NEW sync \in Nat
  PROVE  /\ Min(Limits(sync)) \in Int
         /\ pvr.done_pending => Min(Limits(sync)) <= pvr.due - clk.pending
         /\ clk.pvr_started => Min(Limits(sync)) <= clk.target - clk.pending
<1> DEFINE a == LineCycles - (Elapsed % LineCycles)
           due == pvr.due - clk.pending
           vblank == clk.target - clk.pending
           c == IF pvr.done_pending THEN due ELSE a
           d == IF clk.pvr_started THEN vblank ELSE a
           e == IF setup.hostsync THEN sync ELSE a
<1>1. a \in Int
  <2>1. Elapsed \in Nat /\ LineCycles \in Nat \ {0}
    <3>1. clk.raster + clk.pending \in Int
      BY DEF Clocks
    <3> QED
      BY <3>1, PvrAssumption DEF Elapsed
  <2>2. Elapsed % LineCycles \in Int
    BY <2>1
  <2> QED
    BY <2>1, <2>2
<1>2. due \in Int /\ vblank \in Int /\ sync \in Int /\ MaxSkip \in Int
  BY PvrAssumption DEF States, Clocks
<1>3. Limits(sync) = {a, MaxSkip} \cup (IF pvr.done_pending THEN {due} ELSE {})
                      \cup (IF clk.pvr_started THEN {vblank} ELSE {}) \cup (IF setup.hostsync THEN {sync} ELSE {})
  BY Zenon DEF Limits
<1> HIDE DEF a, due, vblank
<1>4. Limits(sync) = {a, MaxSkip, c, d, e}
  BY <1>3
<1>5. c \in Int /\ d \in Int /\ e \in Int
  BY <1>1, <1>2
<1>6. /\ pvr.done_pending => c = due
      /\ clk.pvr_started => d = vblank
  OBVIOUS
<1> HIDE DEF c, d, e
<1>7. Min(Limits(sync)) \in Int /\ Min(Limits(sync)) <= c /\ Min(Limits(sync)) <= d
  BY <1>1, <1>2, <1>4, <1>5, MinOfFive
<1>8. /\ Min(Limits(sync)) \in Int
      /\ pvr.done_pending => Min(Limits(sync)) <= due
      /\ clk.pvr_started => Min(Limits(sync)) <= vblank
  BY <1>6, <1>7
<1> QED
  BY <1>8 DEF due, vblank

LEMMA ReadTimed ==
  ASSUME Timed, NEW sync \in Nat, ReadStatus(sync)
  PROVE  Timed'
<1> DEFINE same == clk.status = Scanline /\ clk.since <= Window
           repeats == IF same THEN Min({clk.repeats + 1, Repeats}) ELSE 0
           skip == Min(Limits(sync))
           wait == /\ setup.clock /\ repeats = Repeats /\ pvr.holly = {}
                   /\ clk.pending < MaxPending /\ skip >= MinSkip
           line == Scanline
           watched == IF wait THEN 0 ELSE repeats
           since == IF wait THEN Min({skip, Window + 1}) ELSE 0
           pending == IF wait THEN clk.pending + skip ELSE clk.pending
           half == [clk EXCEPT !.status = line, !.repeats = watched]
           whole == [half EXCEPT !.since = since, !.pending = pending]
<1>1. pvr \in States /\ clk \in Clocks /\ OnTime(pvr) /\ ClockOnTime
  BY DEF Timed, TypeOK
<1>2. clk' = whole /\ pvr' = pvr /\ guest' = guest /\ setup' = setup
  BY Zenon DEF ReadStatus, pvr_spg_maybe_fast_forward_wait, Clocks
<1>3. line \in Int
  <2> DEFINE f == FrameCycles
             n == Elapsed % f
  <2>1. clk.raster + clk.pending \in Int
    BY <1>1 DEF Clocks
  <2>2. Elapsed \in Nat
    BY <2>1 DEF Elapsed
  <2>3. f \in Nat \ {0}
    BY <1>1, FrameTyped
  <2> HIDE DEF f
  <2>4. n \in Nat
    BY <2>2, <2>3
  <2> HIDE DEF n
  <2>5. LineCycles \in Nat \ {0}
    BY PvrAssumption
  <2>6. n \div LineCycles \in Int
    BY <2>4, <2>5
  <2> QED
    BY <2>6 DEF n, f, Scanline
<1>4. repeats \in Int
  <2>1. clk.repeats + 1 \in Int /\ Repeats \in Int
    BY <1>1, PvrAssumption DEF Clocks
  <2>2. Min({clk.repeats + 1, Repeats}) \in Int
    BY <2>1, MinOfTwo
  <2> QED
    BY <2>2
<1>5. /\ skip \in Int
      /\ pvr.done_pending => skip <= pvr.due - clk.pending
      /\ clk.pvr_started => skip <= clk.target - clk.pending
  BY <1>1, SkipBound
<1>6. wait => skip >= MinSkip
  OBVIOUS
<1> HIDE DEF skip, repeats, line, wait
<1>7. MinSkip \in Nat /\ Window + 1 \in Int /\ Batch \in Nat \ {0} /\ clk.pending \in Nat
  BY <1>1, PvrAssumption DEF Clocks
<1>8. since \in Int
  <2>1. Min({skip, Window + 1}) \in Int
    BY <1>5, <1>7, MinOfTwo
  <2> QED
    BY <2>1
<1>9. pending \in Nat /\ (wait => pending = clk.pending + skip) /\ (~wait => pending = clk.pending)
  BY <1>5, <1>6, <1>7
<1>10. watched \in Int
  BY <1>4
<1> HIDE DEF since, pending, watched
<1>11. half \in Clocks /\ half.target = clk.target /\ half.pvr_started = clk.pvr_started
  BY <1>1, <1>3, <1>10 DEF Clocks
<1> HIDE DEF half
<1>12. whole \in Clocks /\ whole.target = clk.target /\ whole.pvr_started = clk.pvr_started /\ whole.pending = pending
  BY <1>8, <1>9, <1>11 DEF Clocks
<1>13. clk.target \in Int /\ pvr.due \in Int
  BY <1>1 DEF Clocks, States
<1> HIDE DEF whole
<1>14. OnTime(pvr)'
  <2>1. pvr.done_pending => pvr.due >= 1 /\ pending - pvr.due < Batch
    BY <1>1, <1>5, <1>7, <1>9, <1>13 DEF OnTime
  <2> QED
    BY <1>2, <1>12, <2>1 DEF OnTime
<1>15. ClockOnTime'
  <2>1. clk.pvr_started => clk.target >= 1 /\ (~setup.sleeps => pending - clk.target < Batch)
    BY <1>1, <1>5, <1>7, <1>9, <1>13 DEF ClockOnTime
  <2> QED
    BY <1>2, <1>12, <2>1 DEF ClockOnTime
<1> QED
  BY <1>2, <1>12, <1>14, <1>15 DEF Timed, TypeOK

LEMMA TimingTimed ==
  ASSUME Timed, NEW lines \in setup.lines, WriteTiming(lines)
  PROVE  Timed'
<1> DEFINE raster == -clk.pending
           half == [clk EXCEPT !.lines = lines, !.raster = raster]
           whole == [half EXCEPT !.pvr_started = FALSE, !.target = 0]
<1>1. lines \in Nat \ {0} /\ 0 \in Int
  BY PvrAssumption DEF Timed, TypeOK, Setup
<1>2. clk' = whole /\ pvr' = pvr /\ guest' = guest /\ setup' = setup
  BY Zenon DEF WriteTiming
<1>3. clk \in Clocks /\ raster \in Int
  BY DEF Timed, TypeOK, Clocks
<1> HIDE DEF raster
<1>4. half \in Clocks /\ half.pending = clk.pending
  BY <1>1, <1>3 DEF Clocks
<1> HIDE DEF half
<1>5. whole \in Clocks /\ whole.pending = clk.pending /\ whole.pvr_started = FALSE
  BY <1>1, <1>4 DEF Clocks
<1> HIDE DEF whole
<1> QED
  BY <1>2, <1>5 DEF Timed, TypeOK, OnTime, ClockOnTime

(* A command of the guest, which leaves the clock alone.                    *)
LEMMA CommandTimed ==
  ASSUME Timed, setup' = setup, clk' = clk, pvr' \in States, OnTime(pvr'), guest' \in Guests
  PROVE  Timed'
BY DEF Timed, TypeOK, OnTime, ClockOnTime

Registered(p, rtt) == [p EXCEPT !.geometry = TRUE, !.rtt = rtt, !.fb = IF rtt THEN 0 ELSE p.closed + 1]

LEMMA RegisterTyped ==
  ASSUME NEW p \in States, NEW rtt \in BOOLEAN, NEW q, q = Registered(p, rtt)
  PROVE  /\ q \in States /\ SameRender(q, p) /\ q.pending = p.pending /\ q.render = p.render
         /\ q.closed = p.closed /\ q.rtt = rtt
         /\ ~rtt => q.fb = p.closed + 1
<1> DEFINE fb == IF rtt THEN 0 ELSE p.closed + 1
<1>1. fb \in Nat /\ (~rtt => fb = p.closed + 1)
  BY DEF States
<1> HIDE DEF fb
<1>2. q = [p EXCEPT !.geometry = TRUE, !.rtt = rtt, !.fb = fb]
  BY DEF fb, Registered
<1>3. q \in States
  BY <1>1, <1>2, Zenon DEF States
<1>4. SameRender(q, p) /\ q.pending = p.pending /\ q.render = p.render /\ q.closed = p.closed
      /\ q.rtt = rtt /\ q.fb = fb
  BY <1>2 DEF States, SameRender
<1> QED
  BY <1>1, <1>3, <1>4

LEMMA RegisterTimed ==
  ASSUME Timed, NEW rtt \in BOOLEAN, Register(rtt)
  PROVE  Timed'
<1>1. pvr' = Registered(pvr, rtt) /\ UNCHANGED <<setup, clk, guest>>
  BY Zenon DEF Register, Registered
<1>2. pvr' \in States /\ SameRender(pvr', pvr)
  BY <1>1, RegisterTyped DEF Timed, TypeOK
<1> QED
  BY <1>1, <1>2, CommandTimed DEF Timed, TypeOK, OnTime, SameRender

(* TA_LIST_INIT on a state without a scene.                                 *)
Listed(p) == [p EXCEPT !.list_init = TRUE]

LEMMA ListedTyped ==
  ASSUME NEW p \in States
  PROVE  /\ Listed(p) \in States /\ SameRender(Listed(p), p) /\ Listed(p).pending = p.pending
         /\ Listed(p).render = p.render /\ Listed(p).closed = p.closed /\ Listed(p).geometry = p.geometry
         /\ Listed(p).rtt = p.rtt /\ Listed(p).fb = p.fb
BY DEF Listed, States, SameRender

LEMMA ClearedTyped ==
  ASSUME NEW p \in States, NEW q, q = [p EXCEPT !.fb = 0]
  PROVE  /\ q \in States /\ SameRender(q, p) /\ q.pending = p.pending /\ q.render = p.render
         /\ q.closed = p.closed /\ q.geometry = p.geometry
BY DEF States, SameRender

LEMMA ListInitTimed ==
  ASSUME Timed, NEW time \in RenderTimes, ListInit(time)
  PROVE  Timed'
<1>1. /\ pvr' = IF Listed(pvr).geometry THEN pvr_finalize_logical_frame(Listed(pvr), TRUE, time)
                ELSE [Listed(pvr) EXCEPT !.fb = 0]
      /\ UNCHANGED <<setup, clk, guest>>
  BY Zenon DEF ListInit, Listed
<1>2. Listed(pvr) \in States /\ OnTime(Listed(pvr))
  BY ListedTyped DEF Timed, TypeOK, OnTime, SameRender
<1>3. CASE Listed(pvr).geometry
  <2>1. pvr' = pvr_finalize_logical_frame(Listed(pvr), TRUE, time)
    BY <1>1, <1>3
  <2>2. pvr' \in States /\ OnTime(pvr')
    BY <1>2, <2>1, FinalizeOnTime DEF Timed, TypeOK
  <2> QED
    BY <1>1, <2>2, CommandTimed DEF Timed, TypeOK
<1>4. CASE ~Listed(pvr).geometry
  <2>1. pvr' = [Listed(pvr) EXCEPT !.fb = 0]
    BY <1>1, <1>4
  <2>2. pvr' \in States /\ OnTime(pvr')
    BY <1>2, <2>1, ClearedTyped DEF OnTime, SameRender
  <2> QED
    BY <1>1, <2>2, CommandTimed DEF Timed, TypeOK
<1> QED
  BY <1>3, <1>4

LEMMA WrapListsTimed ==
  ASSUME Timed, NEW time \in RenderTimes, WrapLists(time)
  PROVE  Timed'
<1>1. pvr' = pvr_finalize_logical_frame(pvr, TRUE, time) /\ UNCHANGED <<setup, clk, guest>>
  BY DEF WrapLists
<1>2. pvr' \in States /\ OnTime(pvr')
  BY <1>1, FinalizeOnTime DEF Timed, TypeOK
<1> QED
  BY <1>1, <1>2, CommandTimed DEF Timed, TypeOK

(* What STARTRENDER starts.                                                *)
Closing(time) == IF pvr.geometry THEN pvr_finalize_logical_frame(pvr, FALSE, time) ELSE pvr

LEMMA StartRenderTimed ==
  ASSUME Timed, NEW time \in RenderTimes, StartRender(time)
  PROVE  Timed'
<1> DEFINE p == Closing(time)
           q == pvr_begin_render(p, TRUE, time)
           wait == IF p.pending THEN "frame" ELSE "done"
<1>1. /\ pvr' = TickIfUnclocked(q)
      /\ guest' = [guest EXCEPT !.wait = wait]
      /\ UNCHANGED <<setup, clk>>
  BY Zenon DEF StartRender, Closing
<1>2. p \in States /\ OnTime(p)
  BY FinalizeOnTime DEF Timed, TypeOK, Closing
<1>3. wait \in {"no", "done", "frame", "vblank"}
  OBVIOUS
<1> HIDE DEF p, wait
<1>4. q \in States /\ OnTime(q)
  BY <1>2, BeginOnTime DEF Timed, TypeOK
<1> HIDE DEF q
<1>5. pvr' \in States /\ OnTime(pvr')
  BY <1>1, <1>4, UnclockedOnTime
<1>6. guest' \in Guests
  BY <1>1, <1>3 DEF Timed, TypeOK, Guests
<1> QED
  BY <1>1, <1>5, <1>6, CommandTimed

(* The guest looks: what it waits for next and what it acknowledges.        *)
Woken(seen) ==
  CASE guest.wait = "frame" /\ "done" \in seen -> (IF setup.style = "quick" /\ "vblank" \in seen THEN "no" ELSE "vblank")
    [] guest.wait \in seen -> "no"
    [] OTHER -> guest.wait

Acked(seen) == IF setup.style = "careful" /\ Woken(seen) # guest.wait THEN Events ELSE seen

LEMMA WokenTyped ==
  ASSUME guest \in Guests, NEW seen
  PROVE  Woken(seen) \in Waits
BY DEF Woken, Waits, Guests

(* What an acknowledgement leaves alone.                                   *)
SameButHolly(q, p) ==
  /\ SameScene(q, p) /\ q.present = p.present /\ q.render = p.render /\ q.busy = p.busy
  /\ q.completed = p.completed /\ q.done_pending = p.done_pending /\ q.due = p.due /\ q.rendered = p.rendered

LEMMA SeeTyped ==
  ASSUME NEW p \in States, guest \in Guests, NEW seen \in SUBSET Events, See(p, seen)
  PROVE  /\ pvr' \in States /\ guest' \in Guests /\ SameButHolly(pvr', p)
         /\ pvr'.holly = p.holly \ Acked(seen) /\ guest'.wait = Woken(seen)
         /\ UNCHANGED <<setup, clk>>
<1> DEFINE holly == p.holly \ Acked(seen)
           wait == Woken(seen)
<1>1. /\ pvr' = [p EXCEPT !.holly = holly] /\ guest' = [guest EXCEPT !.wait = wait, !.irq = None]
      /\ UNCHANGED <<setup, clk>>
  BY Zenon DEF See, Woken, Acked
<1>2. holly \in SUBSET Events
  BY DEF States
<1>3. wait \in Waits
  BY WokenTyped
<1>4. None \in Rows \cup {None}
  OBVIOUS
<1> HIDE DEF holly, wait
<1>5. pvr' \in States /\ SameButHolly(pvr', p) /\ pvr'.holly = holly
  BY <1>1, <1>2 DEF States, SameButHolly, SameScene
<1>6. guest' \in Guests /\ guest'.wait = wait
  BY <1>1, <1>3, <1>4 DEF Guests, Waits
<1> QED
  BY <1>1, <1>5, <1>6 DEF holly, wait

LEMMA SeeTimed ==
  ASSUME Timed, NEW p \in States, OnTime(p), NEW seen \in SUBSET Events, See(p, seen)
  PROVE  Timed'
<1>1. /\ pvr' \in States /\ guest' \in Guests /\ SameButHolly(pvr', p) /\ UNCHANGED <<setup, clk>>
  BY SeeTyped DEF Timed, TypeOK
<1>2. OnTime(pvr')
  BY <1>1 DEF OnTime, SameButHolly
<1> QED
  BY <1>1, <1>2, CommandTimed

(* The state a poll looks at.                                              *)
Counted == [pvr EXCEPT !.polls = (pvr.polls + 1) % PollsPerVblank]

Polled ==
  IF "vblank" \in pvr.holly THEN pvr
  ELSE IF (pvr.polls + 1) % PollsPerVblank = 0 THEN TickIfUnclocked(Counted) ELSE Counted

LEMMA CountedTyped ==
  ASSUME pvr \in States
  PROVE  Counted \in States /\ SameButHolly(Counted, pvr) /\ Counted.holly = pvr.holly
<1> DEFINE polls == (pvr.polls + 1) % PollsPerVblank
<1>1. polls \in Nat
  BY PvrAssumption DEF States
<1> HIDE DEF polls
<1>2. Counted = [pvr EXCEPT !.polls = polls]
  BY DEF Counted, polls
<1> QED
  BY <1>1, <1>2 DEF States, SameButHolly, SameScene

LEMMA PollSees ==
  ASSUME Poll
  PROVE  See(Polled, Polled.holly) /\ setup.polls
BY Zenon DEF Poll, Polled, Counted

LEMMA PollTimed ==
  ASSUME Timed, Poll
  PROVE  Timed'
<1>1. Counted \in States /\ OnTime(Counted)
  BY CountedTyped DEF Timed, TypeOK, OnTime, SameButHolly
<1>2. Polled \in States /\ OnTime(Polled)
  <2>1. TickIfUnclocked(Counted) \in States /\ OnTime(TickIfUnclocked(Counted))
    BY <1>1, UnclockedOnTime
  <2> QED
    BY <1>1, <2>1 DEF Polled, Timed, TypeOK
<1>3. Polled.holly \in SUBSET Events
  BY <1>2 DEF States
<1>4. See(Polled, Polled.holly)
  BY PollSees
<1> QED
  BY <1>2, <1>3, <1>4, SeeTimed

LEMMA HandleTimed ==
  ASSUME Timed, Handle
  PROVE  Timed'
<1>1. See(pvr, pvr.holly \cap setup.masks[guest.irq])
  BY DEF Handle
<1>2. pvr.holly \cap setup.masks[guest.irq] \in SUBSET Events
  BY DEF Timed, TypeOK, States
<1> QED
  BY <1>1, <1>2, SeeTimed DEF Timed, TypeOK

LEMMA SetMaskTimed ==
  ASSUME Timed, NEW level \in setup.levels, SetMask(level)
  PROVE  Timed' /\ guest'.wait = guest.wait
<1>1. level \in 0..15
  BY PvrAssumption DEF Timed, TypeOK, Setup
<1>2. guest' = [guest EXCEPT !.imask = level] /\ UNCHANGED <<setup, pvr, clk>>
  BY DEF SetMask
<1>3. guest' \in Guests /\ guest'.wait = guest.wait
  BY <1>1, <1>2 DEF Timed, TypeOK, Guests
<1> QED
  BY <1>2, <1>3, CommandTimed DEF Timed, TypeOK

LEMMA InitTimed ==
  Init => Timed
<1> SUFFICES ASSUME Init PROVE Timed
  OBVIOUS
<1>1. PICK lines \in setup.lines :
        clk = [pending |-> 0, raster |-> 0, lines |-> lines, pvr_started |-> FALSE, target |-> 0,
               status |-> None, since |-> 0, repeats |-> 0]
  BY DEF Init
<1>2. setup \in Setups /\ lines \in Nat \ {0}
  BY PvrAssumption DEF Init, Setup
<1>3. clk \in Clocks /\ clk.pvr_started = FALSE
  BY <1>1, <1>2 DEF Clocks, None
<1>4. pvr \in States /\ pvr.done_pending = FALSE
  BY DEF Init, States
<1>5. guest \in Guests
  BY DEF Init, Guests
<1> QED
  BY <1>2, <1>3, <1>4, <1>5 DEF Timed, TypeOK, OnTime, ClockOnTime

LEMMA NextTimed ==
  Timed /\ [Next]_vars => Timed'
<1> SUFFICES ASSUME Timed, [Next]_vars PROVE Timed'
  OBVIOUS
<1>1. CASE Runs
  BY <1>1, RunTimed DEF Runs
<1>2. CASE Sleep(Nap)
  BY <1>2, SleepTimed
<1>3. CASE Reads
  <2>1. PICK sync \in 0..LineCycles : ReadStatus(sync)
    BY <1>3 DEF Reads
  <2>2. sync \in Nat
    BY PvrAssumption
  <2> QED
    BY <2>1, <2>2, ReadTimed
<1>4. CASE Works
  BY <1>4, RegisterTimed, ListInitTimed, WrapListsTimed, StartRenderTimed DEF Works
<1>5. CASE Poll
  BY <1>5, PollTimed
<1>6. CASE Handle
  BY <1>6, HandleTimed
<1>7. CASE \E lines \in setup.lines : WriteTiming(lines)
  BY <1>7, TimingTimed
<1>8. CASE \E level \in setup.levels : SetMask(level)
  BY <1>8, SetMaskTimed
<1>9. CASE UNCHANGED vars
  BY <1>9 DEF vars, Timed, TypeOK, OnTime, ClockOnTime
<1> QED
  BY <1>1, <1>2, <1>3, <1>4, <1>5, <1>6, <1>7, <1>8, <1>9 DEF Next

LEMMA AlwaysTimed == Spec => []Timed
<1>1. Init => Timed
  BY InitTimed
<1>2. Timed /\ [Next]_vars => Timed'
  BY NextTimed
<1> QED
  BY <1>1, <1>2, PTL DEF Spec

(* Frame control, the clocks and the guest keep their types.               *)
THEOREM TypeCorrect == Spec => []TypeOK
<1>1. Timed => TypeOK
  BY DEF Timed
<1> QED
  BY <1>1, AlwaysTimed, PTL

(* A render that is over and a vblank that is owed are given at the next    *)
(* full tick: neither the pending cycles nor a fast-forward of an SPG wait   *)
(* can carry the clocks a batch past them, for every batch size, line       *)
(* length, render time and host option.                                    *)
THEOREM OnTimeCorrect == Spec => []EventsOnTime
<1>1. Timed => EventsOnTime
  BY DEF Timed, OnTime, ClockOnTime, EventsOnTime
<1> QED
  BY <1>1, AlwaysTimed, PTL

-----------------------------------------------------------------------------
(* Every step keeps the stages, and is a step of the screen.                *)

Shown == Player!Next \/ UNCHANGED <<pvr.closed, pvr.rendered, pvr.present>>

LEMMA DeviceStep ==
  ASSUME setup' = setup, Scenes, guest'.wait = guest.wait, Staged(pvr', guest.wait), Moves(pvr, pvr')
  PROVE  Scenes' /\ Shown
<1>1. Scenes'
  BY DEF Scenes, Staged, Quiet, Commanded, Drawing, Drawn
<1>2. Player!Next
  BY DEF Moves, Player!Next
<1> QED
  BY <1>1, <1>2 DEF Shown

(* A command may close a scene once the one before it is on the screen.     *)
Closes(p, q) ==
  /\ q.closed = p.closed \/ (p.present = p.closed /\ q.closed = p.closed + 1)
  /\ q.rendered \in {p.rendered, q.closed}
  /\ q.present \in {p.present, q.rendered}

LEMMA GuestStep ==
  ASSUME setup' = setup, setup.style # "quick", setup.style = "probe" => guest'.wait = "no",
         Staged(pvr', guest'.wait), Closes(pvr, pvr')
  PROVE  Scenes' /\ Shown
<1>1. Scenes'
  BY DEF Scenes, Staged, Quiet, Commanded, Drawing, Drawn
<1>2. Player!Next
  BY DEF Closes, Player!Next
<1> QED
  BY <1>1, <1>2 DEF Shown

LEMMA StayStep ==
  ASSUME Scenes, setup' = setup, pvr' = pvr, guest'.wait = guest.wait
  PROVE  Scenes' /\ Shown
<1>1. Scenes'
  BY DEF Scenes, Staged, Quiet, Commanded, Drawing, Drawn
<1> QED
  BY <1>1 DEF Shown

LEMMA ScannedStaged ==
  ASSUME NEW p \in States, NEW wait \in Waits, Staged(p, wait), NEW left
  PROVE  Staged(Scanned(p, left), wait) /\ Moves(p, Scanned(p, left))
BY TickStaged DEF Scanned, Moves

LEMMA ServedStaged ==
  ASSUME pvr \in States, NEW wait \in Waits, Staged(pvr, wait), NEW cycles \in Nat
  PROVE  Staged(Served(cycles), wait) /\ Moves(pvr, Served(cycles)) /\ Served(cycles).present = pvr.present
<1>1. CASE ~pvr.done_pending
  BY <1>1 DEF Served, Moves
<1>2. CASE pvr.done_pending /\ cycles >= pvr.due
  <2>1. Served(cycles) = pvr_complete_render(pvr)
    BY <1>2 DEF Served
  <2> QED
    BY <1>2, <2>1, CompleteStaged DEF Moves
<1>3. CASE pvr.done_pending /\ ~(cycles >= pvr.due)
  <2> DEFINE due == pvr.due - cycles
             p == [pvr EXCEPT !.due = due]
  <2>1. Served(cycles) = p
    BY <1>3 DEF Served
  <2> HIDE DEF due
  <2>2. /\ SameScene(p, pvr) /\ p.present = pvr.present /\ p.render = pvr.render /\ p.busy = pvr.busy
        /\ p.completed = pvr.completed /\ p.done_pending = pvr.done_pending /\ p.holly = pvr.holly
        /\ p.rendered = pvr.rendered
    BY DEF States, SameScene
  <2> HIDE DEF p
  <2>3. Staged(p, wait)
    BY <2>2 DEF Staged, SameScene, Quiet, Commanded, Drawing, Drawn
  <2> QED
    BY <2>1, <2>2, <2>3 DEF Moves, SameScene
<1> QED
  BY <1>1, <1>2, <1>3

LEMMA RunStaged ==
  ASSUME Timed, Scenes, NEW cycles \in 1..Block, Run(cycles)
  PROVE  Scenes' /\ Shown
<1>1. guest.wait \in Waits /\ pvr \in States /\ Staged(pvr, guest.wait)
  BY DEF Timed, TypeOK, Guests, Waits, Scenes
<1>2. CASE clk.pending + cycles < Batch
  <2>1. pvr' = pvr /\ guest' = guest /\ setup' = setup
    BY <1>2 DEF Run
  <2> QED
    BY <2>1, StayStep
<1>3. CASE ~(clk.pending + cycles < Batch)
  <2> DEFINE n == clk.pending + cycles
  <2>1. dc_runtime_tick_full(n) /\ setup' = setup
    BY <1>3 DEF Run
  <2>2. n \in Nat
    BY DEF Timed, TypeOK, Clocks
  <2> HIDE DEF n
  <2>3. pvr' = Ticked(n) /\ guest' = sh4_try_holly_interrupt(Ticked(n).holly)
    BY <2>1, FullTick
  <2>4. Served(n) \in States
    BY <1>1, <2>2, ServedTyped
  <2>5. /\ Staged(Served(n), guest.wait) /\ Moves(pvr, Served(n)) /\ Served(n).present = pvr.present
    BY <1>1, <2>2, ServedStaged
  <2>6. Staged(Ticked(n), guest.wait) /\ Moves(pvr, Ticked(n))
    <3>1. CASE setup.clock
      <4> DEFINE q == Scanned(Served(n), Left(n))
      <4>1. Staged(q, guest.wait) /\ Moves(Served(n), q)
        BY <1>1, <2>4, <2>5, ScannedStaged
      <4>2. Ticked(n) = q
        BY <3>1 DEF Ticked
      <4> HIDE DEF q
      <4>3. q.closed = pvr.closed /\ q.rendered \in {pvr.rendered, q.closed} /\ q.present \in {pvr.present, q.rendered}
        BY <2>5, <4>1 DEF Moves
      <4> QED
        BY <4>1, <4>2, <4>3 DEF Moves
    <3>2. CASE ~setup.clock
      BY <2>5, <3>2 DEF Ticked
    <3> QED
      BY <3>1, <3>2
  <2>7. guest'.wait = guest.wait
    BY <2>3, HollyTyped DEF Timed, TypeOK
  <2> QED
    BY <2>1, <2>3, <2>6, <2>7, DeviceStep
<1> QED
  BY <1>2, <1>3

LEMMA SleepStaged ==
  ASSUME Timed, Scenes, Sleep(Nap)
  PROVE  Scenes' /\ Shown
<1>1. pvr' = Scanned(pvr, Left(Nap)) /\ guest' = guest /\ setup' = setup
  BY Zenon DEF Sleep
<1>2. guest.wait \in Waits /\ pvr \in States /\ Staged(pvr, guest.wait)
  BY DEF Timed, TypeOK, Guests, Waits, Scenes
<1>3. Staged(pvr', guest.wait) /\ Moves(pvr, pvr')
  BY <1>1, <1>2, ScannedStaged
<1> QED
  BY <1>1, <1>3, DeviceStep

LEMMA RegisterStaged ==
  ASSUME Timed, Scenes, NEW rtt \in BOOLEAN, Register(rtt)
  PROVE  Scenes' /\ Shown
<1>0. pvr \in States
  BY DEF Timed, TypeOK
<1>1. pvr' = Registered(pvr, rtt) /\ UNCHANGED <<setup, clk, guest>>
  BY Zenon DEF Register, Registered
<1>2. /\ pvr' \in States /\ SameRender(pvr', pvr) /\ pvr'.pending = pvr.pending /\ pvr'.render = pvr.render
      /\ pvr'.closed = pvr.closed /\ pvr'.rtt = rtt /\ (~rtt => pvr'.fb = pvr.closed + 1)
  BY <1>0, <1>1, RegisterTyped
<1>3. Staged(pvr', guest.wait) /\ Moves(pvr, pvr')
  BY <1>2 DEF Scenes, Staged, SameRender, Quiet, Commanded, Drawing, Drawn, Moves
<1> QED
  BY <1>1, <1>3, DeviceStep

(* A guest without STARTRENDER: neither clock nor scheduled render, so that *)
(* a scene is drawn and shown as it is closed.                             *)
LEMMA ProbeFrame ==
  ASSUME setup \in Setups, clk \in Clocks, setup.style = "probe", NEW p \in States, p.geometry, Staged(p, "no"),
         NEW time \in RenderTimes
  PROVE  LET q == pvr_finalize_logical_frame(p, TRUE, time) IN Staged(q, "no") /\ Closes(p, q)
<1> DEFINE q == pvr_finalize_logical_frame(p, TRUE, time)
<1>0. q = pvr_finalize_logical_frame(p, TRUE, time)
  OBVIOUS
<1> HIDE DEF q
<1>1. ~setup.clock /\ ~setup.scheduled
  BY PvrAssumption
<1>2. Quiet(p) /\ ~p.pending
  BY DEF Staged
<1>3. CASE p.rtt
  <2>0. q = Textured(p)
    BY <1>0, <1>3, CloseTexture
  <2>1. /\ SameRender(q, p) /\ q.pending = p.pending /\ q.render = p.render /\ q.closed = p.closed
        /\ q.geometry = FALSE
    BY <2>0, TextureTyped
  <2>2. Staged(q, "no") /\ Closes(p, q)
    BY <2>1 DEF Staged, SameRender, Quiet, Closes
  <2> QED
    BY <1>0, <2>2
<1>4. CASE ~p.rtt
  <2> DEFINE h == Handed(p)
             b == pvr_begin_render(h, FALSE, time)
  <2>1. q = TickIfUnclocked(b)
    BY <1>0, <1>2, <1>4, CloseScene DEF Quiet
  <2>2. h \in States /\ SameRender(h, p) /\ h.pending = TRUE /\ h.closed = p.closed + 1 /\ h.render = p.fb /\ h.geometry = FALSE
    BY HandOver
  <2> HIDE DEF h
  <2>3. ~h.busy /\ (h.pending \/ FALSE)
    BY <1>2, <2>2 DEF Quiet, SameRender
  <2>4. Begun(b, h)
    BY <2>2, <2>3, BeginRender
  <2> HIDE DEF b
  <2>5. /\ b \in States /\ SameBuffers(b, h) /\ b.pending = FALSE /\ b.busy = FALSE /\ b.done_pending = FALSE
        /\ b.completed = TRUE /\ b.rendered = h.render
    BY <1>1, <2>2, <2>4 DEF Begun
  <2>6. q = pvr_vblank_tick(b)
    BY <1>1, <2>1 DEF TickIfUnclocked
  <2>7. /\ SameScene(q, b) /\ q.rendered = b.rendered /\ q.busy = b.busy /\ q.done_pending = b.done_pending
        /\ q.completed = FALSE /\ q.present = b.render
    BY <2>5, <2>6, VblankTick
  <2> HIDE DEF q
  <2>8. /\ q.closed = p.closed + 1 /\ q.geometry = FALSE /\ q.pending = FALSE /\ q.busy = FALSE
        /\ q.done_pending = FALSE /\ q.completed = FALSE /\ q.rendered = p.fb /\ q.present = p.fb
    BY <2>2, <2>5, <2>7 DEF SameScene, SameBuffers
  <2>9. p.fb = p.closed + 1 /\ p.present = p.closed
    BY <1>2, <1>4 DEF Staged, Quiet
  <2>10. Staged(q, "no") /\ Closes(p, q)
    BY <2>8, <2>9 DEF Staged, Quiet, Closes
  <2> QED
    BY <1>0, <2>10
<1> QED
  BY <1>3, <1>4

LEMMA ProbeStep ==
  ASSUME Timed, Scenes, setup.style = "probe", NEW p \in States, p.geometry, Staged(p, "no"), Closes(p, p),
         p.closed = pvr.closed, p.rendered = pvr.rendered, p.present = pvr.present,
         NEW time \in RenderTimes, pvr' = pvr_finalize_logical_frame(p, TRUE, time), UNCHANGED <<setup, clk, guest>>
  PROVE  Scenes' /\ Shown
<1>1. setup \in Setups /\ clk \in Clocks /\ guest.wait = "no"
  BY DEF Timed, TypeOK, Scenes
<1>2. Staged(pvr', "no") /\ Closes(p, pvr')
  BY <1>1, ProbeFrame
<1>3. Closes(pvr, pvr')
  BY <1>2 DEF Closes
<1> QED
  BY <1>1, <1>2, <1>3, GuestStep DEF Scenes

LEMMA WrapListsStaged ==
  ASSUME Timed, Scenes, NEW time \in RenderTimes, WrapLists(time)
  PROVE  Scenes' /\ Shown
<1>1. pvr.geometry /\ setup.style = "probe" /\ pvr' = pvr_finalize_logical_frame(pvr, TRUE, time) /\ UNCHANGED <<setup, clk, guest>>
  BY DEF WrapLists
<1>2. pvr \in States /\ Staged(pvr, "no") /\ Closes(pvr, pvr)
  BY <1>1 DEF Timed, TypeOK, Scenes, Closes
<1> QED
  BY <1>1, <1>2, ProbeStep

LEMMA ListInitStaged ==
  ASSUME Timed, Scenes, NEW time \in RenderTimes, ListInit(time)
  PROVE  Scenes' /\ Shown
<1> DEFINE p == Listed(pvr)
<1>1. /\ pvr' = IF p.geometry THEN pvr_finalize_logical_frame(p, TRUE, time) ELSE [p EXCEPT !.fb = 0]
      /\ UNCHANGED <<setup, clk, guest>>
      /\ setup.style = "probe" \/ ~pvr.geometry
  BY Zenon DEF ListInit, Listed
<1>2. /\ p \in States /\ SameRender(p, pvr) /\ p.pending = pvr.pending /\ p.render = pvr.render
      /\ p.closed = pvr.closed /\ p.geometry = pvr.geometry /\ p.rtt = pvr.rtt /\ p.fb = pvr.fb
  BY ListedTyped DEF Timed, TypeOK
<1> HIDE DEF p
<1>3. CASE p.geometry
  <2>1. setup.style = "probe" /\ guest.wait = "no" /\ pvr' = pvr_finalize_logical_frame(p, TRUE, time)
    BY <1>1, <1>2, <1>3 DEF Scenes
  <2>2. Staged(p, "no") /\ Closes(p, p)
    BY <1>2, <2>1 DEF Scenes, Staged, SameRender, Quiet, Closes
  <2> QED
    BY <1>1, <1>2, <1>3, <2>1, <2>2, ProbeStep DEF SameRender
<1>4. CASE ~p.geometry
  <2>1. pvr' = [p EXCEPT !.fb = 0]
    BY <1>1, <1>4
  <2>2. /\ SameRender(pvr', p) /\ pvr'.pending = p.pending /\ pvr'.render = p.render /\ pvr'.closed = p.closed
        /\ pvr'.geometry = p.geometry
    BY <1>2, <2>1, ClearedTyped
  <2>3. Staged(pvr', guest.wait) /\ Moves(pvr, pvr')
    BY <1>2, <1>4, <2>2 DEF Scenes, Staged, SameRender, Quiet, Commanded, Drawing, Drawn, Moves
  <2> QED
    BY <1>1, <2>3, DeviceStep
<1> QED
  BY <1>3, <1>4

(* The start of a render, with a scene (p.pending) or without.              *)
LEMMA StartedStaged ==
  ASSUME setup \in Setups, clk \in Clocks, setup.style = "careful", NEW p \in States, NEW time \in RenderTimes,
         ~p.busy, ~p.completed, "done" \notin p.holly, ~p.geometry,
         p.pending => p.render = p.closed /\ p.rendered = p.present /\ p.closed = p.present + 1,
         ~p.pending => p.present = p.closed /\ p.rendered = p.closed,
         NEW q, q = pvr_begin_render(p, TRUE, time)
  PROVE  /\ Staged(q, IF p.pending THEN "frame" ELSE "done") /\ q \in States
         /\ q.closed = p.closed /\ q.present = p.present /\ q.rendered \in {p.rendered, p.closed}
<1>1. Begun(q, p)
  BY BeginRender
<1>2. /\ q \in States /\ SameBuffers(q, p) /\ q.pending = FALSE /\ q.context = p.pending
  BY <1>1 DEF Begun
<1>3. CASE setup.scheduled /\ p.pending
  <2>1. /\ q.busy = TRUE /\ q.done_pending = TRUE /\ q.completed = p.completed /\ q.holly = p.holly
        /\ q.rendered = p.rendered /\ q.started = p.render
    BY <1>1, <1>3 DEF Begun
  <2>2. Drawing(q)
    BY <1>2, <1>3, <2>1 DEF Drawing, SameBuffers
  <2> QED
    BY <1>2, <1>3, <2>1, <2>2 DEF Staged, SameBuffers
<1>4. CASE setup.scheduled /\ ~p.pending
  <2>1. /\ q.busy = TRUE /\ q.done_pending = TRUE /\ q.completed = p.completed /\ q.holly = p.holly
        /\ q.rendered = p.rendered
    BY <1>1, <1>4 DEF Begun
  <2>2. Commanded(q)
    BY <1>2, <1>4, <2>1 DEF Commanded, SameBuffers
  <2> QED
    BY <1>2, <1>4, <2>1, <2>2 DEF Staged, SameBuffers
<1>5. CASE ~setup.scheduled /\ p.pending
  <2>1. /\ q.busy = FALSE /\ q.done_pending = FALSE /\ "done" \in q.holly /\ q.completed = TRUE
        /\ q.rendered = p.render
    BY <1>1, <1>5 DEF Begun
  <2>2. Drawn(q)
    BY <1>2, <1>5, <2>1 DEF Drawn, SameBuffers
  <2> QED
    BY <1>2, <1>5, <2>1, <2>2 DEF Staged, SameBuffers
<1>6. CASE ~setup.scheduled /\ ~p.pending
  <2>1. /\ q.busy = FALSE /\ q.done_pending = FALSE /\ "done" \in q.holly /\ q.completed = p.completed
        /\ q.rendered = p.rendered
    BY <1>1, <1>6 DEF Begun
  <2>2. Quiet(q)
    BY <1>2, <1>6, <2>1 DEF Quiet, SameBuffers
  <2> QED
    BY <1>2, <1>6, <2>1, <2>2 DEF Staged, SameBuffers
<1> QED
  BY <1>3, <1>4, <1>5, <1>6

(* What it starts from.                                                    *)
LEMMA ClosingStaged ==
  ASSUME Timed, Scenes, setup.style # "probe", guest.wait = "no", NEW time
  PROVE  /\ Closing(time) \in States
         /\ ~Closing(time).busy /\ ~Closing(time).completed /\ "done" \notin Closing(time).holly
         /\ ~Closing(time).geometry
         /\ Closing(time).present = pvr.present /\ Closing(time).rendered = pvr.rendered
         /\ Closing(time).pending =>
              Closing(time).render = Closing(time).closed /\ Closing(time).closed = pvr.closed + 1
         /\ ~Closing(time).pending => Closing(time).closed = pvr.closed
<1>1. pvr \in States /\ Quiet(pvr) /\ ~pvr.pending /\ "done" \notin pvr.holly
      /\ (pvr.geometry /\ ~pvr.rtt => pvr.fb = pvr.closed + 1)
  BY DEF Timed, TypeOK, Scenes, Staged
<1>2. CASE ~pvr.geometry
  BY <1>1, <1>2 DEF Closing, Quiet
<1>3. CASE pvr.geometry /\ pvr.rtt
  <2>1. Closing(time) = Textured(pvr)
    BY <1>3, CloseTexture DEF Closing
  <2>2. /\ Textured(pvr) \in States /\ SameRender(Textured(pvr), pvr) /\ Textured(pvr).pending = pvr.pending
        /\ Textured(pvr).closed = pvr.closed /\ Textured(pvr).geometry = FALSE
    BY <1>1, TextureTyped
  <2> QED
    BY <1>1, <2>1, <2>2 DEF SameRender, Quiet
<1>4. CASE pvr.geometry /\ ~pvr.rtt
  <2>1. Closing(time) = Handed(pvr)
    BY <1>1, <1>4, CloseScene DEF Closing, Quiet
  <2>2. /\ Handed(pvr) \in States /\ SameRender(Handed(pvr), pvr) /\ Handed(pvr).pending = TRUE
        /\ Handed(pvr).render = pvr.fb /\ Handed(pvr).closed = pvr.closed + 1 /\ Handed(pvr).geometry = FALSE
    BY <1>1, HandOver
  <2> QED
    BY <1>1, <1>4, <2>1, <2>2 DEF SameRender, Quiet
<1> QED
  BY <1>2, <1>3, <1>4

LEMMA StartRenderStaged ==
  ASSUME Timed, Scenes, NEW time \in RenderTimes, StartRender(time)
  PROVE  Scenes' /\ Shown
<1> DEFINE p == Closing(time)
           q == pvr_begin_render(p, TRUE, time)
           wait == IF p.pending THEN "frame" ELSE "done"
<1>1. /\ pvr' = TickIfUnclocked(q) /\ guest' = [guest EXCEPT !.wait = wait]
      /\ UNCHANGED <<setup, clk>> /\ setup.style # "probe" /\ guest.wait = "no"
  BY Zenon DEF StartRender, Closing
<1>2. setup \in Setups /\ clk \in Clocks /\ guest \in Guests /\ setup.style = "careful"
  BY <1>1, PvrAssumption DEF Timed, TypeOK, Scenes, Setup
<1>3. Quiet(pvr)
  BY <1>1 DEF Scenes, Staged
<1>4. /\ p \in States /\ ~p.busy /\ ~p.completed /\ "done" \notin p.holly /\ ~p.geometry
      /\ p.present = pvr.present /\ p.rendered = pvr.rendered
      /\ p.pending => p.render = p.closed /\ p.closed = pvr.closed + 1
      /\ ~p.pending => p.closed = pvr.closed
  BY <1>1, ClosingStaged
<1> HIDE DEF p
<1>5. /\ p.pending => p.render = p.closed /\ p.rendered = p.present /\ p.closed = p.present + 1
      /\ ~p.pending => p.present = p.closed /\ p.rendered = p.closed
  BY <1>3, <1>4 DEF Quiet
<1>6. q = pvr_begin_render(p, TRUE, time)
  OBVIOUS
<1> HIDE DEF q
<1>7. /\ Staged(q, wait) /\ q \in States
      /\ q.closed = p.closed /\ q.present = p.present /\ q.rendered \in {p.rendered, p.closed}
  BY <1>2, <1>4, <1>5, <1>6, StartedStaged
<1>8. wait \in Waits
  BY DEF Waits
<1>9. guest'.wait = wait
  BY <1>1, <1>2 DEF Guests
<1> HIDE DEF wait
<1>10. Staged(pvr', wait) /\ pvr'.closed = q.closed /\ pvr'.rendered = q.rendered
       /\ pvr'.present \in {q.present, q.rendered}
  BY <1>1, <1>7, <1>8, TickStaged DEF TickIfUnclocked
<1>11. Closes(pvr, pvr')
  BY <1>3, <1>4, <1>7, <1>10 DEF Closes, Quiet
<1> QED
  BY <1>1, <1>2, <1>9, <1>10, <1>11, GuestStep

(* The guest goes on only from the end of the stage it waits for, and a     *)
(* careful one leaves no event of that stage behind.                       *)
LEMMA SeeStaged ==
  ASSUME Timed, Scenes, NEW p \in States, Staged(p, guest.wait), Closes(pvr, p), p.closed = pvr.closed,
         NEW seen \in SUBSET Events, seen \subseteq p.holly, See(p, seen)
  PROVE  Scenes' /\ Shown
<1>1. /\ pvr' \in States /\ SameButHolly(pvr', p) /\ pvr'.holly = p.holly \ Acked(seen)
      /\ guest'.wait = Woken(seen) /\ UNCHANGED <<setup, clk>>
  BY SeeTyped DEF Timed, TypeOK
<1>2. setup.style \in {"probe", "careful"} /\ guest.wait \in Waits /\ p.holly \in SUBSET Events
  BY PvrAssumption DEF Timed, TypeOK, Scenes, Setup, Guests, Waits, States
<1>3. Closes(pvr, pvr')
  BY <1>1 DEF Closes, SameButHolly, SameScene
<1>4. /\ Quiet(p) => Quiet(pvr')
      /\ Commanded(p) => Commanded(pvr')
      /\ Drawing(p) => Drawing(pvr')
      /\ Drawn(p) => Drawn(pvr')
  BY <1>1 DEF Quiet, Commanded, Drawing, Drawn, SameButHolly, SameScene
<1>5. /\ ~pvr'.pending /\ pvr'.busy = pvr'.done_pending
      /\ pvr'.geometry /\ ~pvr'.rtt => pvr'.fb = pvr'.closed + 1
  BY <1>1 DEF Staged, SameButHolly, SameScene
<1>6. seen \subseteq {"done", "vblank"}
  BY DEF Events
<1>7. setup.style = "probe" => Woken(seen) = "no" /\ guest.wait = "no"
  BY <1>6 DEF Scenes, Woken
<1> SUFFICES Staged(pvr', guest'.wait)
  BY <1>1, <1>3, <1>7, GuestStep DEF Scenes
<1>8. CASE Woken(seen) = guest.wait
  <2>1. pvr'.holly = p.holly \ seen
    BY <1>1, <1>8 DEF Acked
  <2>2. CASE guest.wait = "no"
    BY <1>1, <1>4, <1>5, <1>8, <2>1, <2>2 DEF Staged
  <2>3. CASE guest.wait = "done"
    <3>1. "done" \notin seen
      BY <1>8, <2>3 DEF Woken
    <3> QED
      BY <1>1, <1>4, <1>5, <1>8, <2>1, <2>3, <3>1 DEF Staged
  <2>4. CASE guest.wait = "frame"
    <3>1. "done" \notin seen
      BY <1>2, <1>8, <2>4 DEF Woken
    <3> QED
      BY <1>1, <1>4, <1>5, <1>8, <2>1, <2>4, <3>1 DEF Staged
  <2>5. CASE guest.wait = "vblank"
    BY <1>1, <1>4, <1>5, <1>8, <2>1, <2>5 DEF Staged, SameButHolly
  <2> QED
    BY <1>2, <2>2, <2>3, <2>4, <2>5 DEF Waits
<1>9. CASE Woken(seen) # guest.wait
  <2>1. setup.style = "careful"
    BY <1>2, <1>9, <1>7
  <2>2. pvr'.holly = {}
    BY <1>1, <1>2, <1>9, <2>1 DEF Acked
  <2>3. CASE guest.wait = "frame"
    <3>1. "done" \in seen /\ Woken(seen) = "vblank"
      BY <1>6, <1>9, <2>1, <2>3 DEF Woken
    <3>2. Drawn(p)
      BY <2>3, <3>1 DEF Staged
    <3> QED
      BY <1>1, <1>4, <1>5, <2>2, <3>1, <3>2 DEF Staged
  <2>4. CASE guest.wait # "frame"
    <3>1. guest.wait \in seen /\ Woken(seen) = "no"
      BY <1>9, <2>4 DEF Woken
    <3>2. Quiet(p)
      <4>1. guest.wait \in {"done", "vblank"}
        BY <1>6, <3>1
      <4>2. CASE guest.wait = "done"
        BY <3>1, <4>2 DEF Staged
      <4>3. CASE guest.wait = "vblank"
        BY <3>1, <4>3 DEF Staged, Drawn, Quiet
      <4> QED
        BY <4>1, <4>2, <4>3
    <3> QED
      BY <1>1, <1>4, <1>5, <2>2, <3>1, <3>2 DEF Staged
  <2> QED
    BY <2>3, <2>4
<1> QED
  BY <1>8, <1>9

LEMMA PollStaged ==
  ASSUME Timed, Scenes, Poll
  PROVE  Scenes' /\ Shown
<1>1. See(Polled, Polled.holly)
  BY PollSees
<1>2. pvr \in States /\ guest.wait \in Waits /\ Staged(pvr, guest.wait)
  BY DEF Timed, TypeOK, Scenes, Guests, Waits
<1>3. Counted \in States /\ SameButHolly(Counted, pvr) /\ Counted.holly = pvr.holly
  BY <1>2, CountedTyped
<1>4. Staged(Counted, guest.wait)
  BY <1>2, <1>3 DEF Staged, SameButHolly, SameScene, Quiet, Commanded, Drawing, Drawn
<1>5. Staged(TickIfUnclocked(Counted), guest.wait) /\ TickIfUnclocked(Counted) \in States /\ Moves(Counted, TickIfUnclocked(Counted))
  BY <1>2, <1>3, <1>4, TickStaged DEF TickIfUnclocked, Moves
<1>6. Moves(pvr, TickIfUnclocked(Counted)) /\ Moves(pvr, Counted) /\ Moves(pvr, pvr)
  BY <1>3, <1>5 DEF Moves, SameButHolly, SameScene
<1>7. Polled \in States /\ Staged(Polled, guest.wait) /\ Moves(pvr, Polled)
  BY <1>2, <1>3, <1>4, <1>5, <1>6 DEF Polled
<1>8. Closes(pvr, Polled) /\ Polled.closed = pvr.closed
  BY <1>7 DEF Moves, Closes
<1>9. Polled.holly \in SUBSET Events /\ Polled.holly \subseteq Polled.holly
  BY <1>7 DEF States
<1> QED
  BY <1>1, <1>7, <1>8, <1>9, SeeStaged

LEMMA HandleStaged ==
  ASSUME Timed, Scenes, Handle
  PROVE  Scenes' /\ Shown
<1> DEFINE seen == pvr.holly \cap setup.masks[guest.irq]
<1>1. See(pvr, seen)
  BY DEF Handle
<1>2. pvr \in States /\ Staged(pvr, guest.wait) /\ Closes(pvr, pvr)
  BY DEF Timed, TypeOK, Scenes, Closes
<1>3. seen \in SUBSET Events /\ seen \subseteq pvr.holly
  BY <1>2 DEF States
<1> HIDE DEF seen
<1> QED
  BY <1>1, <1>2, <1>3, SeeStaged

LEMMA NextStaged ==
  ASSUME Timed, Scenes, Next
  PROVE  Scenes' /\ Shown
<1>1. CASE Runs
  BY <1>1, RunStaged DEF Runs
<1>2. CASE Sleep(Nap)
  BY <1>2, SleepStaged
<1>3. CASE Reads
  <2>1. UNCHANGED <<setup, pvr, guest>>
    BY <1>3 DEF Reads, ReadStatus
  <2> QED
    BY <2>1, StayStep
<1>4. CASE Works
  BY <1>4, RegisterStaged, ListInitStaged, WrapListsStaged, StartRenderStaged DEF Works
<1>5. CASE Poll
  BY <1>5, PollStaged
<1>6. CASE Handle
  BY <1>6, HandleStaged
<1>7. CASE \E lines \in setup.lines : WriteTiming(lines)
  <2>1. UNCHANGED <<setup, pvr, guest>>
    BY <1>7 DEF WriteTiming
  <2> QED
    BY <2>1, StayStep
<1>8. CASE \E level \in setup.levels : SetMask(level)
  <2>1. PICK level \in setup.levels : SetMask(level)
    BY <1>8
  <2>2. guest'.wait = guest.wait /\ setup' = setup /\ pvr' = pvr
    BY <2>1, SetMaskTimed DEF SetMask
  <2> QED
    BY <2>2, StayStep
<1> QED
  BY <1>1, <1>2, <1>3, <1>4, <1>5, <1>6, <1>7, <1>8 DEF Next

(* Frame control implements the screen for every guest that waits for a     *)
(* vblank raised after it saw its render done: each scene it closes is drawn *)
(* and shown once, in order, whatever options drive the clocks, and the      *)
(* next is closed only when it is on the screen.                           *)
THEOREM ScreenCorrect ==
  ASSUME \A s \in Setups : s.style # "quick"
  PROVE  Spec => ShowsScenesInOrder
<1>1. Init => Scenes /\ Player!Init
  <2> SUFFICES ASSUME Init PROVE Scenes /\ Player!Init
    OBVIOUS
  <2>1. guest.wait = "no" /\ setup \in Setups
    BY DEF Init
  <2>2. /\ ~pvr.pending /\ ~pvr.busy /\ pvr.done_pending = FALSE /\ pvr.busy = FALSE /\ ~pvr.completed /\ ~pvr.geometry
        /\ pvr.closed = 0 /\ pvr.rendered = 0 /\ pvr.present = 0 /\ pvr.holly = {}
    BY DEF Init
  <2> QED
    BY <2>1, <2>2 DEF Scenes, Staged, Quiet, Player!Init
<1>2. Timed /\ Scenes /\ [Next]_vars => Scenes' /\ [Player!Next]_(Player!vars)
  <2>1. CASE Next
    BY <2>1, NextStaged DEF Shown, Player!vars
  <2>2. CASE UNCHANGED vars
    BY <2>2, StayStep DEF vars, Shown, Player!vars
  <2> QED
    BY <2>1, <2>2
<1> QED
  BY <1>1, <1>2, AlwaysTimed, PTL DEF Spec, ShowsScenesInOrder, Player!ScreenSpec
=============================================================================
