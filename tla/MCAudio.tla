------------------------------ MODULE MCAudio ------------------------------
(* Audio playback on small queues, in the order of the code's own sizes:     *)
(* low water < prefill <= target.                                            *)
EXTENDS AudioStream
=============================================================================
