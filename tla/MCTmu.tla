------------------------------- MODULE MCTmu -------------------------------
(* Two clocks and none: a tick of the lazy clock is two of the fast one.     *)
EXTENDS Tmu

MCPeriod == [tpsc \in {0, 2} |-> IF tpsc = 0 THEN 1 ELSE 2]

MCWritten == [c \in {0, 1} |-> IF c = 0 THEN {1} ELSE {0}]

Quiet(tpsc) == [tpsc |-> tpsc, unie |-> FALSE, unf |-> FALSE]

MCControlled ==
  [c \in {0, 1} |-> IF c = 0 THEN {Quiet(0), Quiet(2), [Quiet(2) EXCEPT !.unie = TRUE], Quiet(5)} ELSE {Quiet(0), Quiet(5)}]
=============================================================================
