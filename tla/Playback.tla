------------------------------ MODULE Playback ------------------------------
(***************************************************************************)
(* What live audio playback promises, whatever threads and queues lie      *)
(* between the mixer and the sound device: chunks are heard in the order   *)
(* they were mixed and at most once; one is given up only for Backlog       *)
(* fresher ones, or after the device failed; and playback is over only when *)
(* everything else was heard or the device failed.                         *)
(***************************************************************************)
EXTENDS Integers, Sequences

CONSTANT Backlog   \* at least one

VARIABLES sent, waiting, heard, broken, over

vars == <<sent, waiting, heard, broken, over>>

Init == sent = 0 /\ waiting = {} /\ heard = << >> /\ broken = FALSE /\ over = FALSE

Send ==
  /\ ~over
  /\ sent' = sent + 1
  /\ \/ waiting' = waiting \cup {sent + 1}
     \/ \E c \in waiting : /\ c + Backlog <= sent + 1
                           /\ waiting' = (waiting \ {c}) \cup {sent + 1}
  /\ UNCHANGED <<heard, broken, over>>

Hear ==
  \E c \in waiting :
    /\ \A d \in waiting : c <= d
    /\ waiting' = waiting \ {c}
    /\ heard' = Append(heard, c)
    /\ UNCHANGED <<sent, broken, over>>

(* The device failed: any part of what waits may be lost from now on.        *)
Lose ==
  /\ broken' = TRUE
  /\ waiting' \in SUBSET waiting
  /\ UNCHANGED <<sent, heard, over>>

Close ==
  /\ waiting = {} \/ broken
  /\ over' = TRUE
  /\ waiting' \in SUBSET waiting
  /\ UNCHANGED <<sent, heard, broken>>

Next == Send \/ Hear \/ Lose \/ Close

Spec == Init /\ [][Next]_vars
=============================================================================
