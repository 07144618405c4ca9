-------------------------------- MODULE Pvr --------------------------------
(***************************************************************************)
(* Frame control of the PVR (dc_runtime.cpp): scenes go from registration   *)
(* to rendering to scanout through three buffers that are swapped; a render  *)
(* ends at once or some cycles after STARTRENDER; vblank comes with the      *)
(* cycles of the device clock, or without it when the guest polls; both      *)
(* raise Holly events, which the full tick turns into an interrupt.  A loop  *)
(* on SPG_STATUS is fast-forwarded by adding cycles to the pending tick.     *)
(*                                                                         *)
(* Both clocks count up for ever and are compared only with due times, so   *)
(* due times are kept as the cycles left.  A buffer holds the number of the  *)
(* scene its pixels show.  All three render-done bits are one event, for     *)
(* they are raised together.  The guest is external: it waits for the end   *)
(* of what it started.                                                     *)
(***************************************************************************)
EXTENDS Integers, FiniteSetsExt

CONSTANTS
  Setups,        \* bound: combinations of host options and guests
  LineCycles,    \* SH-4 cycles of a line
  RenderTimes,   \* cycles of a scene: 450000..1500000 by its TA bytes
  CommandTime,   \* 4096: cycles of a STARTRENDER without a scene
  PollsPerVblank,\* 263
  Batch,         \* sh4_tick_batch_cycles
  Window,        \* 256: cycles between two reads of one wait
  Repeats,       \* 4: reads that make a wait
  MaxPending,    \* 256: no skip on top of so many pending cycles
  MinSkip,       \* 32
  MaxSkip,       \* 0x40000
  Block,         \* bound: the most cycles of one executed block
  Nap,           \* bound: cycles of one sleep
  MaxScenes      \* bound: scenes for the screen

Events == {"done", "vblank"}
Rows == 0..2
None == -1
Priority(row) == 2 * (row + 1)

(* A probe never writes STARTRENDER; the others wait for the end of what     *)
(* they start: a careful guest for a vblank after the render was seen done,  *)
(* a quick one is content with a vblank seen together with it.  Lines are   *)
(* the line counts it programs, levels the interrupt masks it uses.         *)
Setup ==
  [clock : BOOLEAN, scheduled : BOOLEAN, forward : BOOLEAN, hostsync : BOOLEAN,
   style : {"probe", "careful", "quick"}, polls : BOOLEAN, sleeps : BOOLEAN,
   masks : [Rows -> SUBSET Events], levels : SUBSET (0..15), lines : SUBSET (Nat \ {0})]

ASSUME PvrAssumption ==
  /\ {LineCycles, CommandTime, PollsPerVblank, Batch, Window, Repeats, MinSkip, MaxSkip, Block, Nap} \subseteq Nat \ {0}
  /\ RenderTimes \subseteq Nat \ {0} /\ RenderTimes # {}
  /\ MaxPending \in Nat /\ MaxScenes \in Nat
  /\ Setups \subseteq Setup
  /\ \A s \in Setups : s.style = "probe" => ~s.clock /\ ~s.scheduled

VARIABLES
  setup,   \* chosen once
  pvr,     \* frame control, ghosts closed, started and rendered: scenes closed, in the renderer, drawn last
  clk,     \* pending cycles; the raster since its epoch; the next vblank; the watch on SPG_STATUS reads
  guest    \* what it waits for, SR.IMASK, the row of the interrupt it serves

vars == <<setup, pvr, clk, guest>>

Init ==
  /\ setup \in Setups
  /\ pvr = [fb |-> 0, render |-> 0, present |-> 0, geometry |-> FALSE, rtt |-> FALSE, pending |-> FALSE,
            busy |-> FALSE, completed |-> FALSE, context |-> FALSE, done_pending |-> FALSE, due |-> 0,
            list_init |-> FALSE, polls |-> 0, holly |-> {}, closed |-> 0, started |-> 0, rendered |-> 0]
  /\ \E lines \in setup.lines :
       clk = [pending |-> 0, raster |-> 0, lines |-> lines, pvr_started |-> FALSE, target |-> 0,
              status |-> None, since |-> 0, repeats |-> 0]
  /\ guest = [wait |-> "no", imask |-> 0, irq |-> None]

-----------------------------------------------------------------------------
(* Frame control, as functions of its state.                               *)

pvr_vblank_tick(p) ==
  LET q == [p EXCEPT !.holly = @ \cup {"vblank"}]
  IN  IF p.completed THEN [q EXCEPT !.present = p.render, !.render = p.present, !.completed = FALSE] ELSE q

TickIfUnclocked(p) == IF setup.clock THEN p ELSE pvr_vblank_tick(p)

CompleteAndFlip(p) ==
  [p EXCEPT !.done_pending = FALSE, !.due = 0, !.busy = FALSE, !.completed = TRUE,
            !.holly = @ \cup {"done"}, !.rendered = IF p.context THEN p.started ELSE @]

pvr_complete_render(p) ==
  [p EXCEPT !.done_pending = FALSE, !.due = 0, !.busy = FALSE, !.completed = @ \/ p.context,
            !.holly = @ \cup {"done"}, !.rendered = IF p.context THEN p.started ELSE @]

BeginWithScene(p, guest_start, time) ==
  IF p.busy \/ ~p.pending THEN p
  ELSE LET q == [p EXCEPT !.busy = TRUE, !.pending = FALSE, !.context = TRUE, !.started = p.render]
       IN  IF setup.scheduled THEN [q EXCEPT !.done_pending = TRUE, !.due = clk.pending + time]
           ELSE pvr_complete_render(q)

pvr_begin_render(p, guest_start, time) ==
  IF p.busy \/ (~p.pending /\ ~guest_start) THEN p
  ELSE LET q == [p EXCEPT !.busy = TRUE, !.pending = FALSE, !.context = p.pending,
                          !.started = IF p.pending THEN p.render ELSE @]
       IN  IF setup.scheduled
           THEN [q EXCEPT !.done_pending = TRUE, !.due = clk.pending + (IF p.pending THEN time ELSE CommandTime)]
           ELSE pvr_complete_render(q)

(* A scene for a texture is drawn into VRAM and shows nothing.              *)
pvr_finalize_logical_frame(p, autostart, time) ==
  IF p.rtt THEN [p EXCEPT !.geometry = FALSE, !.rtt = FALSE, !.fb = 0]
  ELSE LET shown == IF p.completed THEN TickIfUnclocked(p) ELSE p
           handed == [shown EXCEPT !.render = p.fb, !.fb = 0, !.pending = TRUE, !.geometry = FALSE, !.closed = @ + 1]
       IN  IF autostart THEN TickIfUnclocked(pvr_begin_render(handed, FALSE, time)) ELSE handed

-----------------------------------------------------------------------------
(* Time.                                                                   *)

FrameCycles == clk.lines * LineCycles

(* device_clock_run_pvr_cycles, left cycles before the next vblank: every    *)
(* one that is owed, of which the second and later ones change nothing.     *)
Scanned(p, left) == IF left <= 0 THEN pvr_vblank_tick(p) ELSE p
NextTarget(left) == IF left <= 0 THEN ((left - 1) % FrameCycles) + 1 ELSE left
Left(cycles) == IF clk.pvr_started THEN clk.target - cycles ELSE FrameCycles

sh4_try_holly_interrupt(holly) ==
  LET rows == {r \in Rows : Priority(r) > guest.imask /\ holly \cap setup.masks[r] # {}}
  IN  IF guest.irq # None \/ rows = {} THEN guest ELSE [guest EXCEPT !.irq = Max(rows)]

Since(cycles) == IF setup.forward THEN Min({clk.since + cycles, Window + 1}) ELSE 0

dc_runtime_tick_full(cycles) ==
  LET served == IF ~pvr.done_pending THEN pvr
                ELSE IF cycles >= pvr.due THEN pvr_complete_render(pvr) ELSE [pvr EXCEPT !.due = @ - cycles]
      ticked == IF setup.clock THEN Scanned(served, Left(cycles)) ELSE served
  IN  /\ pvr' = ticked
      /\ clk' = [clk EXCEPT !.pending = 0, !.raster = (@ + cycles) % FrameCycles,
                            !.since = Since(cycles - clk.pending),
                            !.pvr_started = setup.clock, !.target = IF setup.clock THEN NextTarget(Left(cycles)) ELSE 0]
      /\ guest' = sh4_try_holly_interrupt(ticked.holly)

(* dc_runtime_tick_fast: a block of code has run.                           *)
Run(cycles) ==
  /\ IF clk.pending + cycles < Batch
     THEN /\ clk' = [clk EXCEPT !.pending = @ + cycles, !.since = Since(cycles)]
          /\ UNCHANGED <<pvr, guest>>
     ELSE dc_runtime_tick_full(clk.pending + cycles)
  /\ UNCHANGED setup

(* dc_device_clock_advance_ms: a sleep moves the device clock alone.        *)
Sleep(cycles) ==
  /\ setup.sleeps /\ setup.clock
  /\ pvr' = Scanned(pvr, Left(cycles))
  /\ clk' = [clk EXCEPT !.pvr_started = TRUE, !.target = NextTarget(Left(cycles))]
  /\ UNCHANGED <<setup, guest>>

-----------------------------------------------------------------------------
(* Reading SPG_STATUS, and the fast-forward of a loop on it.                *)

Elapsed == IF clk.raster + clk.pending >= 0 THEN clk.raster + clk.pending ELSE 0
Scanline == (Elapsed % FrameCycles) \div LineCycles

LimitsOfVblank(sync) ==
  {LineCycles - (Elapsed % LineCycles), MaxSkip}
  \cup (IF clk.pvr_started THEN {clk.target - clk.pending} ELSE {})
  \cup (IF setup.hostsync THEN {sync} ELSE {})

(* Cycles until the next event; the host may owe a sync at any of them.     *)
Limits(sync) ==
  {LineCycles - (Elapsed % LineCycles), MaxSkip}
  \cup (IF pvr.done_pending THEN {pvr.due - clk.pending} ELSE {})
  \cup (IF clk.pvr_started THEN {clk.target - clk.pending} ELSE {})
  \cup (IF setup.hostsync THEN {sync} ELSE {})

pvr_spg_maybe_fast_forward_wait(sync) ==
  LET same == clk.status = Scanline /\ clk.since <= Window
      repeats == IF same THEN Min({clk.repeats + 1, Repeats}) ELSE 0
      skip == Min(Limits(sync))
      wait == /\ setup.clock /\ repeats = Repeats /\ pvr.holly = {}
              /\ clk.pending < MaxPending /\ skip >= MinSkip
  IN  clk' = [clk EXCEPT !.status = Scanline, !.repeats = IF wait THEN 0 ELSE repeats,
                         !.since = IF wait THEN Min({skip, Window + 1}) ELSE 0,
                         !.pending = IF wait THEN @ + skip ELSE @]

(* Without the fast-forward a read changes nothing.                         *)
ReadStatus(sync) == setup.forward /\ pvr_spg_maybe_fast_forward_wait(sync) /\ UNCHANGED <<setup, pvr, guest>>

(* A write that changes the timing restarts raster and vblank from now; a    *)
(* guest that waits for them does not.                                     *)
WriteTiming(lines) ==
  /\ lines # clk.lines /\ guest.wait = "no"
  /\ clk' = [clk EXCEPT !.lines = lines, !.raster = -clk.pending, !.pvr_started = FALSE, !.target = 0]
  /\ UNCHANGED <<setup, pvr, guest>>

-----------------------------------------------------------------------------
(* The guest: it registers scenes and starts them.                         *)

Register(rtt) ==
  /\ ~pvr.geometry /\ (rtt \/ pvr.closed < MaxScenes) /\ (setup.style = "probe" \/ pvr.list_init)
  /\ pvr' = [pvr EXCEPT !.geometry = TRUE, !.rtt = rtt, !.fb = IF rtt THEN 0 ELSE pvr.closed + 1]
  /\ UNCHANGED <<setup, clk, guest>>

(* TA_LIST_INIT.  A guest that will write STARTRENDER has done so.          *)
ListInit(time) ==
  /\ setup.style = "probe" \/ ~pvr.geometry
  /\ LET p == [pvr EXCEPT !.list_init = TRUE]
     IN  pvr' = IF p.geometry THEN pvr_finalize_logical_frame(p, TRUE, time) ELSE [p EXCEPT !.fb = 0]
  /\ UNCHANGED <<setup, clk, guest>>

(* Without LIST_INIT a list number that does not grow begins a new scene.   *)
WrapLists(time) ==
  /\ pvr.geometry /\ ~pvr.list_init /\ setup.style = "probe"
  /\ pvr' = pvr_finalize_logical_frame(pvr, TRUE, time)
  /\ UNCHANGED <<setup, clk, guest>>

(* STARTRENDER, with or without a scene.                                    *)
StartRender(time) ==
  /\ setup.style # "probe" /\ guest.wait = "no"
  /\ LET p == IF pvr.geometry THEN pvr_finalize_logical_frame(pvr, FALSE, time) ELSE pvr
     IN  /\ pvr' = TickIfUnclocked(pvr_begin_render(p, TRUE, time))
         /\ guest' = [guest EXCEPT !.wait = IF p.pending THEN "frame" ELSE "done"]
  /\ UNCHANGED <<setup, clk>>

(* The guest looks at events of p and acknowledges them.                    *)
See(p, seen) ==
  LET next == CASE guest.wait = "frame" /\ "done" \in seen ->
                     (IF setup.style = "quick" /\ "vblank" \in seen THEN "no" ELSE "vblank")
                [] guest.wait \in seen -> "no"
                [] OTHER -> guest.wait
      acked == IF setup.style = "careful" /\ next # guest.wait THEN Events ELSE seen
  IN  /\ pvr' = [p EXCEPT !.holly = @ \ acked]
      /\ guest' = [guest EXCEPT !.wait = next, !.irq = None]
      /\ UNCHANGED <<setup, clk>>

(* Reading the pending events of bank A; without device clock polls drive   *)
(* the raster.                                                             *)
Poll ==
  LET polls == (pvr.polls + 1) % PollsPerVblank
      p == IF "vblank" \in pvr.holly THEN pvr
           ELSE LET q == [pvr EXCEPT !.polls = polls] IN IF polls = 0 THEN TickIfUnclocked(q) ELSE q
  IN  setup.polls /\ guest.irq = None /\ See(p, p.holly)

(* The interrupt handler acknowledges the events of its row.                *)
Handle == guest.irq # None /\ See(pvr, pvr.holly \cap setup.masks[guest.irq])

(* A guest that waits lets interrupts in.                                   *)
SetMask(level) ==
  /\ guest.irq = None /\ level # guest.imask /\ (guest.wait = "no" \/ level = 0)
  /\ guest' = [guest EXCEPT !.imask = level] /\ UNCHANGED <<setup, pvr, clk>>

-----------------------------------------------------------------------------
Runs == \E cycles \in 1..Block : Run(cycles)
Works ==
  \/ \E rtt \in BOOLEAN : Register(rtt)
  \/ \E time \in RenderTimes : ListInit(time) \/ WrapLists(time) \/ StartRender(time)
Reads == \E sync \in 0..LineCycles : ReadStatus(sync)

Next ==
  \/ Runs \/ Sleep(Nap) \/ Reads \/ Works \/ Poll \/ Handle
  \/ \E lines \in setup.lines : WriteTiming(lines)
  \/ \E level \in setup.levels : SetMask(level)

(* Blocks keep running, and a guest that waits looks at what it waits for.   *)
Fairness ==
  /\ WF_vars(Runs) /\ WF_vars(Handle) /\ WF_vars(guest.wait # "no" /\ Poll)
  /\ WF_vars(guest.wait # "no" /\ SetMask(0))

Spec == Init /\ [][Next]_vars /\ Fairness
=============================================================================
