----------------------------- MODULE EagerTimer -----------------------------
(***************************************************************************)
(* What the guest is promised of a timer unit: every running channel counts *)
(* down by one at each tick of its prescaler, raises its underflow flag and *)
(* reloads when it falls below 0, and keeps what is left of a tick.  A read *)
(* returns the counter of that moment.  handed is 0 but after the step that *)
(* let this many cycles pass.                                              *)
(***************************************************************************)
EXTENDS Naturals

CONSTANTS
  Channels,    \* the channels of the unit
  Word,        \* a counter holds 0..Word - 1
  Prescalers,  \* values of TCR.TPSC
  Clocks,      \* those with an internal clock
  Period,      \* [Clocks -> cycles of a tick]
  MaxSlice     \* the most cycles that pass at once

VARIABLES started, timer, seen, handed

Values == 0..Word - 1

Controls == [tpsc : Prescalers, unie : BOOLEAN, unf : BOOLEAN]

Down(t) ==
  IF t.tcnt = 0 THEN [t EXCEPT !.tcnt = t.tcor, !.tcr.unf = TRUE] ELSE [t EXCEPT !.tcnt = @ - 1]

After(t, ticks) ==
  LET counted[k \in 0..ticks] == IF k = 0 THEN t ELSE Down(counted[k - 1])
  IN  counted[ticks]

Passed(t, cycles) ==
  LET total == t.rest + cycles
  IN  [After(t, total \div Period[t.tcr.tpsc]) EXCEPT !.rest = total % Period[t.tcr.tpsc]]

Init ==
  /\ started = {} /\ handed = 0 /\ seen = [tcnt |-> 0, unf |-> FALSE]
  /\ timer = [c \in Channels |->
       [tcor |-> Word - 1, tcnt |-> Word - 1, tcr |-> [tpsc |-> 0, unie |-> FALSE, unf |-> FALSE], rest |-> 0]]

Pass(cycles) ==
  /\ timer' = [c \in Channels |->
       IF c \in started /\ timer[c].tcr.tpsc \in Clocks THEN Passed(timer[c], cycles) ELSE timer[c]]
  /\ handed' = cycles /\ UNCHANGED <<started, seen>>

Start(channels) == started' = channels /\ handed' = 0 /\ UNCHANGED <<timer, seen>>

Read(c) ==
  /\ seen' = [tcnt |-> timer[c].tcnt, unf |-> timer[c].tcr.unf]
  /\ handed' = 0 /\ UNCHANGED <<started, timer>>

Reload(c, v) == timer' = [timer EXCEPT ![c].tcor = v] /\ handed' = 0 /\ UNCHANGED <<started, seen>>

Count(c, v) == timer' = [timer EXCEPT ![c].tcnt = v, ![c].rest = 0] /\ handed' = 0 /\ UNCHANGED <<started, seen>>

Control(c, v) == timer' = [timer EXCEPT ![c].tcr = v] /\ handed' = 0 /\ UNCHANGED <<started, seen>>

Next ==
  \/ \E n \in 1..MaxSlice : Pass(n)
  \/ handed' = 0 /\ UNCHANGED <<started, timer, seen>>
  \/ \E channels \in SUBSET Channels : Start(channels)
  \/ \E c \in Channels :
       \/ Read(c)
       \/ \E v \in Values : Reload(c, v) \/ Count(c, v)
       \/ \E v \in Controls : Control(c, v)

EagerSpec == Init /\ [][Next]_<<started, timer, seen, handed>>
=============================================================================
