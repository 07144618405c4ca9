------------------------------ MODULE MCGdRom ------------------------------
(* The drive with a disc of two data sectors followed by two audio sectors   *)
(* (tracks 1 and 2), sectors of two bytes and byte counts modulo eight, so   *)
(* that a transfer is cut inside a sector, leaves the data track, and wraps. *)
EXTENDS GdRom

Ask(c, a, b, r) == [command |-> c, p0 |-> a, p1 |-> b, p2 |-> r]

MCRequests ==
  { Ask("Query", 0, 0, 0), Ask("Scan", 0, 0, 0), Ask("Init", 0, 0, 0), Ask("DmaAbort", 0, 0, 0),
    Ask("Read", 0, 1, 0), Ask("Read", 1, 2, 0),
    Ask("MultiRead", 0, 2, 0), Ask("MultiRead", 1, 2, 0), Ask("MultiRead", 0, 5, 0),
    Ask("PlayTracks", 1, 2, 1), Ask("PlayTracks", 2, 1, 0),
    Ask("PlaySectors", 3, 2, 1), Ask("PlaySectors", 2, 4, 15),
    Ask("Pause", 0, 0, 0), Ask("Release", 0, 0, 0), Ask("Stop", 0, 0, 0), Ask("Seek", 3, 0, 0) }

MCTracks == [t \in 1 .. 2 |-> [start |-> t + 1, end |-> t + 2]]
=============================================================================
