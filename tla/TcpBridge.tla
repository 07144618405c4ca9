------------------------------ MODULE TcpBridge ------------------------------
(***************************************************************************)
(* The user-mode TCP bridge of the network plugin (dcr_network.cpp): one   *)
(* flow between the guest's TCP, which speaks segments, and a non-blocking *)
(* socket of the host, which speaks bytes.  The bridge plays the remote    *)
(* TCP towards the guest: tcp_out takes a segment of the guest, poll_tcp    *)
(* moves bytes between the flow and the socket.  Both run on the emulation *)
(* thread, so each call is one step.                                       *)
(*                                                                         *)
(* The guest's TCP and the host are external.  The guest may send any part *)
(* of what it has written and has not seen acknowledged, whole or in       *)
(* pieces, again and again: losses and retransmissions on its way to the   *)
(* bridge are in that choice.  Segments towards the guest queue in         *)
(* to_guest, where MaxLosses of them may be lost (a new SABME drops what    *)
(* the link layer has not delivered).                                      *)
(*                                                                         *)
(* A byte is its number in its stream, from 1.  A sequence number is       *)
(* modulo Modulus (2^32 in the code); the runs start close to it so that   *)
(* both streams wrap.                                                      *)
(***************************************************************************)
EXTENDS Integers, Sequences

CONSTANTS
  Modulus,       \* of sequence numbers
  GuestIsn,      \* the guest's initial sequence number
  ProxyIsn,      \* proxy_isn, a function of the ports and the address
  GuestBytes,    \* bound: bytes the guest writes
  HostBytes,     \* bound: bytes a host connection sends
  MaxSegment,    \* bytes of a segment, 536 towards the guest
  QueueLimit,    \* bound: segments on their way to the guest
  MaxLosses      \* bound: of them lost

ASSUME TcpAssumption ==
  /\ GuestBytes \in Nat /\ HostBytes \in Nat
  /\ MaxSegment \in Nat \ {0} /\ QueueLimit \in Nat /\ MaxLosses \in Nat
  /\ Modulus \in Nat /\ 2 * (GuestBytes + 2) < Modulus /\ HostBytes + 3 < Modulus
  /\ GuestIsn \in 0..Modulus - 1 /\ ProxyIsn \in 0..Modulus - 1

VARIABLES
  flow,       \* the entry of s.tcp: phase "none" when there is none
  to_guest,   \* segments queued by send_tcp_to_guest
  h_got,      \* bytes the socket took
  h_sent,     \* number of bytes recv has returned on this connection
  guest,      \* the guest's TCP
  g_got,      \* bytes the guest's TCP accepted
  losses

vars == <<flow, to_guest, h_got, h_sent, guest, g_got, losses>>

Numbers == 0..Modulus - 1

Wrap(x) == IF x >= Modulus THEN x - Modulus ELSE x

Distance(a, b) == IF b >= a THEN b - a ELSE b - a + Modulus

tcp_seq_before(a, b) == 2 * Distance(b, a) >= Modulus

Least(a, b) == IF a <= b THEN a ELSE b

One(p) == IF p THEN 1 ELSE 0

NoFlow ==
  [phase |-> "none", host_fin |-> FALSE, guest_fin |-> FALSE,
   guest_next |-> 0, proxy_next |-> 0, pending_tx |-> << >>]

(***************************************************************************)
(* send_tcp_to_guest: the segment that leaves and the flow after it.  from *)
(* is the number of its first byte in the host's stream.                   *)
(***************************************************************************)
Segment(f, syn, fin, n, from) ==
  [syn |-> syn, fin |-> fin, seq |-> f.proxy_next, ack |-> f.guest_next, len |-> n, from |-> from]

Sent(f, syn, fin, n) ==
  [f EXCEPT !.proxy_next = Wrap(@ + One(syn) + One(fin) + n)]

Ack(f) == Segment(f, FALSE, FALSE, 0, 0)

-----------------------------------------------------------------------------
(***************************************************************************)
(* tcp_out: a segment of the guest, bytes first .. first + n - 1 of its    *)
(* stream.                                                                 *)
(***************************************************************************)
Number(first) == Wrap(GuestIsn + first)

SkipNone(f, seq, n) == IF seq = f.guest_next \/ tcp_seq_before(seq, f.guest_next) THEN 0 ELSE n

(* What is already there: nothing, a part or all of it; a gap takes nothing. *)
Skip(f, seq, n) ==
  IF tcp_seq_before(seq, f.guest_next)
  THEN Least(n, Distance(seq, f.guest_next))
  ELSE IF seq = f.guest_next THEN 0 ELSE n

TakeAhead(f, first, n) ==
  LET skip == Skip(f, Number(first), n)
  IN  [f EXCEPT !.pending_tx = @ \o [i \in 1..n - skip |-> first + skip + i - 1],
                !.guest_next = Wrap(@ + n)]

TakeData(f, first, n) ==
  LET skip == Skip(f, Number(first), n)
  IN  [f EXCEPT !.pending_tx = @ \o [i \in 1..n - skip |-> first + skip + i - 1],
                !.guest_next = Wrap(@ + (n - skip))]

FinUnwrapped(f, first, n) ==
  [f EXCEPT !.guest_next = IF Number(first + n) = @ THEN @ + 1 ELSE @, !.guest_fin = TRUE]

TakeFin(f, first, n) ==
  LET fin_end == Wrap(Number(first + n) + 1)
  IN  [f EXCEPT !.guest_next =
                  IF Number(first + n) = @ \/ tcp_seq_before(@, fin_end) THEN fin_end ELSE @,
                !.guest_fin = TRUE]

(* Payload is looked at only when the host has answered, a FIN always.      *)
tcp_out(first, n, fin) ==
  /\ flow.phase # "none"
  /\ LET read == n > 0 /\ flow.phase = "connected"
         f == IF read THEN TakeData(flow, first, n) ELSE flow
         g == IF fin THEN TakeFin(f, first, n) ELSE f
     IN  /\ flow' = g
         /\ to_guest' = to_guest \o (IF read THEN <<Ack(f)>> ELSE << >>)
                                 \o (IF fin THEN <<Ack(g)>> ELSE << >>)
  /\ UNCHANGED <<h_got, h_sent>>

Opened(phase) ==
  [NoFlow EXCEPT !.phase = phase, !.guest_next = Number(1), !.proxy_next = ProxyIsn]

(* A SYN without a flow opens one, unless connect fails at once; with one   *)
(* it changes nothing.                                                      *)
tcp_open ==
  /\ flow.phase = "none"
  /\ \/ flow' = Opened("connecting") /\ UNCHANGED to_guest
     \/ /\ flow' = Sent(Opened("connected"), TRUE, FALSE, 0)
        /\ to_guest' = Append(to_guest, Segment(Opened("connected"), TRUE, FALSE, 0, 0))
  /\ h_got' = << >> /\ h_sent' = 0

-----------------------------------------------------------------------------
(***************************************************************************)
(* poll_tcp.  A connecting socket is looked at first; when it has connected *)
(* the same call goes on to send and receive.  The send loop ends because   *)
(* everything is out, the socket would block, or it failed; recv is called  *)
(* once.                                                                   *)
(***************************************************************************)
Connected == IF flow.phase = "connecting"
             THEN Sent([flow EXCEPT !.phase = "connected"], TRUE, FALSE, 0) ELSE flow

SynAck == IF flow.phase = "connecting" THEN <<Segment(flow, TRUE, FALSE, 0, 0)>> ELSE << >>

(* The socket takes k bytes; after the guest's FIN its sending side is shut *)
(* and every send fails.                                                    *)
CanSend(k) == k = 0 \/ ~flow.guest_fin

Blocked(k) == k = Len(flow.pending_tx) \/ ~flow.guest_fin

SendOnce(k) == [Connected EXCEPT !.pending_tx = IF k = 0 THEN @ ELSE << >>]

SendPending(k) == [Connected EXCEPT !.pending_tx = SubSeq(@, k + 1, Len(@))]

HostGets(k) == h_got' = h_got \o SubSeq(flow.pending_tx, 1, k)

(* recv returns n bytes, 0 for nothing yet, or the end of the host's stream. *)
RecvUncounted(f, n) == f

Recv(f, n) == Sent(f, FALSE, FALSE, n)

HostEnds(f) == [Sent(f, FALSE, TRUE, 0) EXCEPT !.host_fin = TRUE]

poll_tcp(k, n, end) ==
  /\ flow.phase # "none" /\ k \in 0..Len(flow.pending_tx) /\ CanSend(k) /\ Blocked(k)
  /\ HostGets(k)
  /\ LET f == SendPending(k)
         fin == end /\ ~f.host_fin
     IN  /\ n > 0 => ~f.host_fin /\ h_sent + n <= HostBytes
         /\ flow' = IF n > 0 THEN Recv(f, n)
                    ELSE IF fin THEN HostEnds(f) ELSE f
         /\ to_guest' = to_guest \o SynAck
                          \o (IF n > 0 THEN <<Segment(f, FALSE, FALSE, n, h_sent + 1)>>
                              ELSE IF fin THEN <<Segment(f, FALSE, TRUE, 0, 0)>> ELSE << >>)
         /\ h_sent' = h_sent + n

(* connect, send or recv failed: the flow is closed and erased, and the     *)
(* guest is not told.                                                       *)
ConnectFails ==
  /\ flow.phase = "connecting"
  /\ flow' = NoFlow
  /\ UNCHANGED <<to_guest, h_got, h_sent>>

PollFails(k) ==
  /\ flow.phase # "none" /\ k \in 0..Len(flow.pending_tx) /\ CanSend(k)
  /\ HostGets(k)
  /\ flow' = NoFlow
  /\ to_guest' = to_guest \o SynAck
  /\ UNCHANGED h_sent

Room(n) == Len(to_guest) + n <= QueueLimit

Poll ==
  /\ Room(2)
  /\ \E k \in 0..GuestBytes, n \in 0..MaxSegment, end \in BOOLEAN : poll_tcp(k, n, end)
  /\ UNCHANGED <<guest, g_got, losses>>

PollErrs ==
  /\ Room(1)
  /\ ConnectFails \/ \E k \in 0..GuestBytes : PollFails(k)
  /\ UNCHANGED <<guest, g_got, losses>>

-----------------------------------------------------------------------------
(***************************************************************************)
(* The guest's TCP.  una: its first unacknowledged byte (written + 2 when  *)
(* the FIN is acknowledged too); rcv: the sequence number it expects.  A    *)
(* SYN is repeated only by a timer that outlasts what is still in to_guest. *)
(***************************************************************************)
GuestSyn ==
  /\ guest.st = "syn" /\ to_guest = << >> /\ Room(1)
  /\ tcp_open
  /\ UNCHANGED <<guest, g_got, losses>>

GuestWrites ==
  /\ guest.st = "est" /\ ~guest.closed
  /\ \/ guest.written < GuestBytes /\ guest' = [guest EXCEPT !.written = @ + 1]
     \/ guest' = [guest EXCEPT !.closed = TRUE]
  /\ UNCHANGED <<flow, to_guest, h_got, h_sent, g_got, losses>>

GuestSends(first, n, fin) ==
  /\ guest.st = "est" /\ Room(2)
  /\ first >= guest.una /\ first + n - 1 <= guest.written
  /\ fin => guest.closed /\ first + n - 1 = guest.written
  /\ n > 0 \/ fin
  /\ tcp_out(first, n, fin)
  /\ UNCHANGED <<guest, g_got, losses>>

GuestResends == \E n \in 1..MaxSegment :
  n = Least(MaxSegment, guest.written + 1 - guest.una) /\ GuestSends(guest.una, n, FALSE)

(* An RST erases the flow.                                                  *)
GuestAborts ==
  /\ guest.st = "est"
  /\ guest' = [guest EXCEPT !.st = "aborted"]
  /\ flow' = NoFlow
  /\ UNCHANGED <<to_guest, h_got, h_sent, g_got, losses>>

GuestReads ==
  /\ to_guest # << >>
  /\ to_guest' = Tail(to_guest)
  /\ LET seg == Head(to_guest)
         una == 1 + Distance(Number(1), seg.ack)
         acked == guest.una <= una /\ una <= guest.written + One(guest.closed) + 1
         next == guest.st = "est" /\ seg.seq = guest.rcv /\ ~seg.syn
     IN  /\ guest' =
              IF guest.st = "syn" /\ seg.syn /\ seg.ack = Number(1)
              THEN [guest EXCEPT !.st = "est", !.rcv = Wrap(seg.seq + 1)]
              ELSE [guest EXCEPT
                      !.una = IF guest.st = "est" /\ acked THEN una ELSE @,
                      !.rcv = IF next THEN Wrap(@ + seg.len + One(seg.fin)) ELSE @,
                      !.fin = @ \/ (next /\ seg.fin)]
         /\ g_got' = IF next THEN g_got \o [i \in 1..seg.len |-> seg.from + i - 1] ELSE g_got
  /\ UNCHANGED <<flow, h_got, h_sent, losses>>

LoseSegment ==
  /\ losses < MaxLosses /\ to_guest # << >>
  /\ to_guest' = Tail(to_guest) /\ losses' = losses + 1
  /\ UNCHANGED <<flow, h_got, h_sent, guest, g_got>>

-----------------------------------------------------------------------------
Init ==
  /\ flow = NoFlow /\ to_guest = << >> /\ h_got = << >> /\ h_sent = 0
  /\ guest = [st |-> "syn", written |-> 0, closed |-> FALSE, una |-> 1, rcv |-> 0, fin |-> FALSE]
  /\ g_got = << >> /\ losses = 0

GuestSegment ==
  \E first \in 1..GuestBytes + 1, n \in 0..MaxSegment, fin \in BOOLEAN : GuestSends(first, n, fin)

Next ==
  \/ GuestSyn \/ GuestWrites \/ GuestSegment \/ GuestAborts \/ GuestReads \/ LoseSegment
  \/ Poll \/ PollErrs

Delivers ==
  /\ Room(2) /\ flow.pending_tx # << >>
  /\ poll_tcp(Len(flow.pending_tx), 0, FALSE)
  /\ UNCHANGED <<guest, g_got, losses>>

(* The plugin polls every millisecond, the host takes bytes again and again, *)
(* and the guest has a retransmission timer and reads its modem.             *)
Fairness == SF_vars(Delivers) /\ SF_vars(GuestResends) /\ WF_vars(GuestReads)

Spec == Init /\ [][Next]_vars /\ Fairness
=============================================================================
