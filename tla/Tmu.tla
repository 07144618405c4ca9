-------------------------------- MODULE Tmu --------------------------------
(***************************************************************************)
(* The timer unit of the SH-4 (dc_runtime.cpp, sh4_tmu_tick): the counters  *)
(* that the tick of the runtime moves on by many cycles at once.  A build    *)
(* with DCR_LAZY_TMU0_TPS2 only adds up the cycles of TMU0 while it runs     *)
(* alone, divided by 256 and without interrupt, and settles them when the   *)
(* guest looks at the channel or reprograms it.                             *)
(*                                                                         *)
(* The cycles of executed blocks come in through dc_runtime_tick_fast, which *)
(* hands them on when a batch is full: a register shows the time of the     *)
(* last full tick.  TOCR and the counters kept for diagnostics are left out. *)
(***************************************************************************)
EXTENDS Naturals

CONSTANTS
  Channels,    \* 0..2
  Word,        \* 2^32: a counter holds 0..Word - 1
  Prescalers,  \* values of TCR.TPSC: 0..7
  Clocks,      \* those with an internal clock: 0..4
  Period,      \* [Clocks -> SH-4 cycles of a tick]: 16 * 4^tpsc
  LazyTpsc,    \* 2
  Batch,       \* sh4_tick_batch_cycles
  Block,       \* bound: the most cycles of one executed block
  Written,     \* bound: for each channel the counts the guest writes
  Controlled,  \* bound: and the controls
  MaxLazy      \* bound: cycles left unsettled at once

Controls == [tpsc : Prescalers, unie : BOOLEAN, unf : BOOLEAN]

ASSUME TmuAssumption ==
  /\ {Word, Batch, Block} \subseteq Nat \ {0} /\ MaxLazy \in Nat
  /\ 0 \in Channels /\ 0 \in Prescalers
  /\ Clocks \subseteq Prescalers /\ LazyTpsc \in Clocks
  /\ Period \in [Clocks -> Nat \ {0}]
  /\ Written \in [Channels -> SUBSET (0..Word - 1)]
  /\ Controlled \in [Channels -> SUBSET Controls]

VARIABLES
  lazyBuild,   \* DCR_LAZY_TMU0_TPS2
  pending,     \* sh4_tick_pending_cycles
  tstr,        \* tmu_tstr: the channels that run
  tmu,         \* the channels; rest is cycle_accumulator, lazy is lazy_sh4_cycles
  seen,        \* what the guest's last reads of TCNT and TCR returned
  handed       \* cycles handed to sh4_tmu_tick by this step

vars == <<lazyBuild, pending, tstr, tmu, seen, handed>>

Values == 0..Word - 1

(***************************************************************************)
(* sh4_tmu_advance_channel: underflow by underflow, each of which takes      *)
(* tcnt + 1 ticks.                                                         *)
(***************************************************************************)
AdvanceLate(ch, ticks) ==
  LET count[d \in 0..ticks] == [v \in Values |->
        IF d <= v + 1 THEN IF d = v + 1 THEN 0 ELSE v - d ELSE count[d - (v + 1)][ch.tcor]]
  IN  [ch EXCEPT !.tcnt = count[ticks][@], !.tcr.unf = @ \/ ticks > ch.tcnt]

sh4_tmu_advance_channel(ch, ticks) ==
  LET count[d \in 0..ticks] == [v \in Values |->
        IF d < v + 1 THEN v - d ELSE count[d - (v + 1)][ch.tcor]]
  IN  [ch EXCEPT !.tcnt = count[ticks][@], !.tcr.unf = @ \/ ticks > ch.tcnt]

(* What cycles do to a channel with a clock; the fast paths for a count     *)
(* without underflow have the same effect.                                 *)
Counted(ch, cycles) ==
  LET total == ch.rest + cycles
      period == Period[ch.tcr.tpsc]
  IN  sh4_tmu_advance_channel([ch EXCEPT !.rest = total % period], total \div period)

MaterializeWithoutRest(ch) ==
  IF ch.lazy = 0 THEN ch ELSE Counted([ch EXCEPT !.lazy = 0, !.rest = 0], ch.lazy)

(* Without a clock the cycles would stay in the remainder.                  *)
sh4_tmu_materialize_lazy(ch) ==
  IF ch.lazy = 0 THEN ch
  ELSE IF ch.tcr.tpsc \notin Clocks THEN [ch EXCEPT !.lazy = 0, !.rest = @ + ch.lazy]
  ELSE Counted([ch EXCEPT !.lazy = 0], ch.lazy)

LazyMode == lazyBuild /\ tstr = {0} /\ tmu[0].tcr.tpsc = LazyTpsc /\ ~tmu[0].tcr.unie

sh4_tmu_tick(cycles) ==
  IF LazyMode THEN [tmu EXCEPT ![0].lazy = @ + cycles]
  ELSE [c \in Channels |->
          IF c \in tstr /\ tmu[c].tcr.tpsc \in Clocks THEN Counted(tmu[c], cycles) ELSE tmu[c]]

-----------------------------------------------------------------------------
Init ==
  /\ lazyBuild \in BOOLEAN /\ pending = 0 /\ tstr = {} /\ seen = [tcnt |-> 0, unf |-> FALSE] /\ handed = 0
  /\ tmu = [c \in Channels |->
       [tcor |-> Word - 1, tcnt |-> Word - 1, tcr |-> [tpsc |-> 0, unie |-> FALSE, unf |-> FALSE],
        rest |-> 0, lazy |-> 0]]

(* dc_runtime_tick_fast after a block; a full tick may end with the report   *)
(* of the heartbeat, which settles TMU0.                                    *)
Tick(cycles) ==
  /\ tmu[0].lazy + pending + cycles <= MaxLazy
  /\ IF pending + cycles < Batch
     THEN pending' = pending + cycles /\ handed' = 0 /\ UNCHANGED tmu
     ELSE /\ pending' = 0 /\ handed' = pending + cycles
          /\ LET ticked == sh4_tmu_tick(pending + cycles)
             IN  \/ tmu' = ticked
                 \/ tmu' = [ticked EXCEPT ![0] = sh4_tmu_materialize_lazy(@)]
  /\ UNCHANGED <<lazyBuild, tstr, seen>>

(* sh4_tmu_read32.                                                          *)
Read(c) ==
  /\ tmu' = [tmu EXCEPT ![c] = sh4_tmu_materialize_lazy(@)]
  /\ seen' = [tcnt |-> tmu'[c].tcnt, unf |-> tmu'[c].tcr.unf]
  /\ handed' = 0 /\ UNCHANGED <<lazyBuild, pending, tstr>>

(* sh4_tmu_write32: TSTR, then the registers of a channel.                  *)
WriteTstr(channels) ==
  /\ tstr' = channels
  /\ tmu' = [c \in Channels |-> sh4_tmu_materialize_lazy(tmu[c])]
  /\ handed' = 0 /\ UNCHANGED <<lazyBuild, pending, seen>>

Unsettled(c) == tmu[c]

Settle(c) == sh4_tmu_materialize_lazy(tmu[c])

WriteTcor(c, v) ==
  /\ tmu' = [tmu EXCEPT ![c] = [Settle(c) EXCEPT !.tcor = v]]
  /\ handed' = 0 /\ UNCHANGED <<lazyBuild, pending, tstr, seen>>

WriteTcnt(c, v) ==
  /\ tmu' = [tmu EXCEPT ![c] = [Settle(c) EXCEPT !.tcnt = v, !.rest = 0]]
  /\ handed' = 0 /\ UNCHANGED <<lazyBuild, pending, tstr, seen>>

WriteTcr(c, v) ==
  /\ tmu' = [tmu EXCEPT ![c] = [Settle(c) EXCEPT !.tcr = v]]
  /\ handed' = 0 /\ UNCHANGED <<lazyBuild, pending, tstr, seen>>

Next ==
  \/ \E cycles \in 1..Block : Tick(cycles)
  \/ \E channels \in SUBSET Channels : WriteTstr(channels)
  \/ \E c \in Channels :
       \/ Read(c)
       \/ \E v \in Written[c] : WriteTcor(c, v) \/ WriteTcnt(c, v)
       \/ \E v \in Controlled[c] : WriteTcr(c, v)

Spec == Init /\ [][Next]_vars
-----------------------------------------------------------------------------
(* Properties *)

(***************************************************************************)
(* Cycles are left unsettled only in the one mode whose divisor they will   *)
(* be divided by: no register that would change the meaning of collected    *)
(* cycles is ever written over them, from whichever side it is reached.     *)
(***************************************************************************)
LazyHasOneMeaning ==
  /\ \A c \in Channels \ {0} : tmu[c].lazy = 0
  /\ tmu[0].lazy > 0 => LazyMode

(***************************************************************************)
(* The notes promise that TCNT, UNF and the remainder of a tick remain       *)
(* exact: what the guest reads, in either build and with whatever it writes *)
(* in between, is what a counter that steps tick by tick shows.             *)
(***************************************************************************)
Eager == INSTANCE EagerTimer WITH
  started <- tstr, MaxSlice <- Batch + Block,
  timer <- [c \in Channels |-> LET t == sh4_tmu_materialize_lazy(tmu[c])
                               IN  [tcor |-> t.tcor, tcnt |-> t.tcnt, tcr |-> t.tcr, rest |-> t.rest]]
CountsEagerly == Eager!EagerSpec
=============================================================================
