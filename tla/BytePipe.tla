------------------------------ MODULE BytePipe ------------------------------
(***************************************************************************)
(* One direction of a connection, as its two ends see it: the bytes that   *)
(* come out are the bytes that went in, each once, in their order and       *)
(* without a hole.  Byte i of the source is represented by its number i.   *)
(* Until the first byte is out the source may be replaced by a new one.    *)
(***************************************************************************)
EXTENDS Integers, Sequences

VARIABLES offered,   \* how many bytes the source has put in
          taken      \* what came out

vars == <<offered, taken>>

Init == offered = 0 /\ taken = << >>

Offer == offered' \in Nat /\ offered' > offered /\ UNCHANGED taken

Take ==
  /\ Len(taken') \in Len(taken) + 1 .. offered'
  /\ taken' = [i \in 1..Len(taken') |-> i]
  /\ offered' \in Nat /\ offered' >= offered

Replace == taken = << >> /\ offered' = 0 /\ UNCHANGED taken

Next == Offer \/ Take \/ Replace

Spec == Init /\ [][Next]_vars
=============================================================================
