------------------------------ MODULE TcpClaims ------------------------------
(* What the TCP bridge should do.                                            *)
EXTENDS TcpBridge

Flows ==
  [phase : {"none", "connecting", "connected"}, host_fin : BOOLEAN, guest_fin : BOOLEAN,
   guest_next : Numbers, proxy_next : Numbers, pending_tx : Seq(1..GuestBytes)]

Guests ==
  [st : {"syn", "est", "aborted"}, written : 0..GuestBytes, closed : BOOLEAN,
   una : 1..GuestBytes + 2, rcv : Numbers, fin : BOOLEAN]

Segments ==
  [syn : BOOLEAN, fin : BOOLEAN, seq : Numbers, ack : Numbers, len : 0..MaxSegment, from : 0..HostBytes]

(***************************************************************************)
(* Everything stays well typed; sequence numbers are reduced.              *)
(***************************************************************************)
TypeOK ==
  /\ flow \in Flows /\ to_guest \in Seq(Segments)
  /\ h_got \in Seq(1..GuestBytes) /\ h_sent \in 0..HostBytes
  /\ guest \in Guests /\ g_got \in Seq(1..HostBytes) /\ losses \in 0..MaxLosses

(***************************************************************************)
(* Each direction is a pipe: whatever the guest repeats, overlaps or skips, *)
(* and wherever the numbers wrap, the host gets the guest's bytes once, in  *)
(* order and without a hole (the sequence check of tcp_out, the queue of    *)
(* partial writes); and so does the guest with the host's (proxy_next).     *)
(***************************************************************************)
Upward == INSTANCE BytePipe WITH offered <- guest.written, taken <- h_got
UpSpec == Upward!Spec

Downward == INSTANCE BytePipe WITH offered <- h_sent, taken <- g_got
DownSpec == Downward!Spec

(***************************************************************************)
(* While the flow lives and the guest has not closed it, whatever the guest *)
(* has seen acknowledged is with the host or in pending_tx, waiting for the *)
(* socket: an acknowledgement is never ahead of the bytes.                  *)
(***************************************************************************)
AckedIsKept ==
  flow.phase = "connected" /\ ~flow.guest_fin =>
    guest.una <= Len(h_got) + Len(flow.pending_tx) + 1

(***************************************************************************)
(* The guest sees the end of the host's stream only behind its last byte.   *)
(***************************************************************************)
FinIsLast == guest.fin => Len(g_got) = h_sent

(***************************************************************************)
(* Bytes the guest has written reach the host, though segments are lost,    *)
(* the host takes only a part of what is sent, or nothing for a while,      *)
(* unless the flow ends or the guest closes or resets it.                   *)
(***************************************************************************)
Stopped == flow.phase = "none" \/ guest.closed \/ guest.st = "aborted"

BytesReachHost ==
  \A b \in 1..GuestBytes : guest.written >= b ~> Len(h_got) >= b \/ Stopped

-----------------------------------------------------------------------------
(***************************************************************************)
(* RELEASE_NOTES_CPP34O.md: forward gaps are not falsely acknowledged as    *)
(* received.  While the flow lives, every byte the guest has seen           *)
(* acknowledged is with the host or in pending_tx.                          *)
(***************************************************************************)
GapsNotAcknowledged ==
  flow.phase = "connected" =>
    Least(guest.una - 1, guest.written) <= Len(h_got) + Len(flow.pending_tx)
=============================================================================
