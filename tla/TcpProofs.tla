----------------------------- MODULE TcpProofs -----------------------------
(* The bridge keeps both streams, for every modulus, initial number, segment *)
(* size and bound.                                                           *)
EXTENDS TcpClaims, TLAPS

(***************************************************************************)
(* The next byte the bridge waits for, and the sequence number of a byte of *)
(* the host's stream; the SYN is byte 0.                                    *)
(***************************************************************************)
Taken == Len(h_got) + Len(flow.pending_tx) + 1

HostNumber(x) == Wrap(ProxyIsn + x)

Acked(seg) == 1 + Distance(Number(1), seg.ack)

Alive == flow.phase # "none"

Ended == flow.phase = "none" \/ flow.host_fin

(* Towards the host: the two queues hold the bytes 1, 2, 3, ... and the flow *)
(* expects the next one, or the one behind the FIN.                          *)
UpInv ==
  /\ \A i \in 1..Len(h_got) : h_got[i] = i
  /\ \A i \in 1..Len(flow.pending_tx) : flow.pending_tx[i] = Len(h_got) + i
  /\ Taken <= guest.written + 1
  /\ Alive => flow.guest_next = IF flow.guest_fin THEN Number(guest.written + 2) ELSE Number(Taken)
  /\ flow.guest_fin => guest.closed /\ flow.phase = "connected"
  /\ flow.phase # "connected" => flow.pending_tx = << >>

StartInv ==
  /\ guest.st = "syn" =>
       guest.written = 0 /\ ~guest.closed /\ guest.una = 1 /\ g_got = << >> /\ ~guest.fin
  /\ flow.phase = "connecting" =>
       /\ guest.st = "syn" /\ to_guest = << >> /\ h_sent = 0 /\ ~flow.host_fin
       /\ flow.proxy_next = ProxyIsn

(* Towards the guest: what it expects follows what it has, and the segments *)
(* on their way carry their bytes under their numbers.                       *)
DownInv ==
  /\ flow.phase = "connected" => flow.proxy_next = HostNumber(1 + h_sent + One(flow.host_fin))
  /\ guest.st # "syn" => guest.rcv = HostNumber(1 + Len(g_got) + One(guest.fin))
  /\ Len(g_got) <= h_sent
  /\ \A i \in 1..Len(g_got) : g_got[i] = i
  /\ guest.fin => Len(g_got) = h_sent /\ Ended

UnAcked == flow.phase = "connected" /\ ~flow.guest_fin

Good ==
  {seg \in Segments :
     /\ seg.syn => seg.seq = ProxyIsn /\ seg.len = 0 /\ ~seg.fin
     /\ seg.len > 0 => /\ seg.from >= 1 /\ seg.from + seg.len - 1 <= h_sent
                       /\ seg.seq = HostNumber(seg.from)
     /\ seg.fin => seg.len = 0 /\ seg.seq = HostNumber(1 + h_sent) /\ Ended
     /\ UnAcked => Acked(seg) <= Taken}

QueueInv == to_guest \in Seq(Good) /\ (UnAcked => guest.una <= Taken)

IInv == TypeOK /\ UpInv /\ StartInv /\ DownInv /\ QueueInv

USE TcpAssumption

-----------------------------------------------------------------------------
(* Arithmetic of sequence numbers, for streams shorter than half the range.  *)

LEMMA WrapType == ASSUME NEW x \in 0..2 * Modulus - 1 PROVE Wrap(x) \in Numbers
  BY DEF Wrap, Numbers

LEMMA NumberType == ASSUME NEW x \in 0..GuestBytes + 2 PROVE Number(x) \in Numbers
  BY DEF Wrap, Numbers, Number

LEMMA NumberStep == ASSUME NEW x \in 0..GuestBytes + 2, NEW n \in Nat, x + n <= GuestBytes + 2
                    PROVE Wrap(Number(x) + n) = Number(x + n)
  BY DEF Wrap, Number

LEMMA NumberDistance ==
  ASSUME NEW x \in 0..GuestBytes + 2, NEW y \in 0..GuestBytes + 2
  PROVE  /\ x <= y => Distance(Number(x), Number(y)) = y - x
         /\ tcp_seq_before(Number(x), Number(y)) <=> x < y
         /\ Number(x) = Number(y) => x = y
  <1>1. x <= y => Distance(Number(x), Number(y)) = y - x
    BY DEF Wrap, Number, Distance
  <1>2. tcp_seq_before(Number(x), Number(y)) <=> x < y
    BY DEF Wrap, Number, Distance, tcp_seq_before
  <1>3. Number(x) = Number(y) => x = y
    BY DEF Wrap, Number
  <1> QED BY <1>1, <1>2, <1>3

LEMMA HostNumberFacts ==
  ASSUME NEW x \in 0..HostBytes + 2
  PROVE  /\ HostNumber(x) \in Numbers
         /\ \A n \in Nat : x + n <= HostBytes + 2 => Wrap(HostNumber(x) + n) = HostNumber(x + n)
         /\ \A y \in 0..HostBytes + 2 : HostNumber(x) = HostNumber(y) => x = y
         /\ HostNumber(0) = ProxyIsn
  <1>1. HostNumber(x) \in Numbers BY DEF Wrap, HostNumber, Numbers
  <1>2. \A n \in Nat : x + n <= HostBytes + 2 => Wrap(HostNumber(x) + n) = HostNumber(x + n)
    BY DEF Wrap, HostNumber
  <1>3. \A y \in 0..HostBytes + 2 : HostNumber(x) = HostNumber(y) => x = y
    BY DEF Wrap, HostNumber
  <1>4. HostNumber(0) = ProxyIsn BY DEF Wrap, HostNumber
  <1> QED BY <1>1, <1>2, <1>3, <1>4

(* A run of consecutive numbers, continued.                                  *)
Run(s, h) == \A i \in 1..Len(s) : s[i] = h + i

LEMMA SeqRun ==
  ASSUME NEW S, NEW h \in Nat, NEW s \in Seq(S), Run(s, h), NEW t \in Seq(S), Run(t, h + Len(s))
  PROVE  s \o t \in Seq(S) /\ Len(s \o t) = Len(s) + Len(t) /\ Run(s \o t, h)
  <1> USE DEF Run
  <1>1. s \o t \in Seq(S) /\ Len(s \o t) = Len(s) + Len(t) OBVIOUS
  <1>2. ASSUME NEW i \in 1..Len(s) + Len(t) PROVE (s \o t)[i] = h + i
    <2>1. CASE i <= Len(s) BY <2>1
    <2>2. CASE i > Len(s)
      <3>1. i - Len(s) \in 1..Len(t) BY <2>2
      <3>2. (s \o t)[i] = t[i - Len(s)] BY <2>2
      <3>3. t[i - Len(s)] = h + Len(s) + (i - Len(s)) BY <3>1
      <3> QED BY <3>2, <3>3
    <2> QED BY <2>1, <2>2
  <1> QED BY <1>1, <1>2

LEMMA SeqMonotone == ASSUME NEW S, NEW T, S \subseteq T, NEW s \in Seq(S) PROVE s \in Seq(T)
  OBVIOUS

LEMMA SeqOne == ASSUME NEW S, NEW e \in S PROVE <<e>> \in Seq(S)
  OBVIOUS

LEMMA SeqOf == ASSUME NEW S, NEW n \in Nat, NEW t \in [1..n -> S] PROVE t \in Seq(S) /\ Len(t) = n
  OBVIOUS

LEMMA SeqConcat ==
  ASSUME NEW S, NEW s \in Seq(S), NEW t \in Seq(S)
  PROVE  s \o t \in Seq(S) /\ Len(s \o t) = Len(s) + Len(t) /\ s \o << >> = s
  OBVIOUS

LEMMA SeqAppend == ASSUME NEW S, NEW e \in S, NEW s \in Seq(S) PROVE s \o <<e>> \in Seq(S)
  OBVIOUS

(* The part of a segment that is new, in the terms of the stream.            *)
LEMMA SkipIs ==
  ASSUME NEW f, NEW a \in 1..GuestBytes + 2, f.guest_next = Number(a),
         NEW first \in 1..GuestBytes + 1, NEW n \in Nat, first + n <= GuestBytes + 1
  PROVE  Skip(f, Number(first), n) = IF a < first THEN n ELSE Least(n, a - first)
  <1>1. tcp_seq_before(Number(first), Number(a)) <=> first < a BY NumberDistance
  <1>2. first <= a => Distance(Number(first), Number(a)) = a - first BY NumberDistance
  <1>3. Number(first) = Number(a) <=> first = a BY NumberDistance
  <1> QED BY <1>1, <1>2, <1>3 DEF Skip, Least

-----------------------------------------------------------------------------
LEMMA InitInv == Init => IInv
  <1> SUFFICES ASSUME Init PROVE IInv OBVIOUS
  <1>1. TypeOK
    <2>1. flow \in Flows BY DEF Init, NoFlow, Numbers, Flows
    <2>2. guest \in Guests BY DEF Init, Guests, Numbers
    <2> QED BY <2>1, <2>2 DEF Init, TypeOK
  <1>2. UpInv BY DEF Init, UpInv, NoFlow, Taken, Alive
  <1>3. StartInv BY DEF Init, StartInv, NoFlow
  <1>4. DownInv BY DEF Init, DownInv, NoFlow
  <1>5. QueueInv BY DEF Init, QueueInv, NoFlow, UnAcked
  <1> QED BY <1>1, <1>2, <1>3, <1>4, <1>5 DEF IInv

LEMMA Types ==
  ASSUME TypeOK
  PROVE  /\ flow \in Flows /\ flow.pending_tx \in Seq(1..GuestBytes)
         /\ flow.guest_fin \in BOOLEAN /\ flow.host_fin \in BOOLEAN
         /\ flow.guest_next \in Numbers /\ flow.proxy_next \in Numbers
         /\ guest.written \in 0..GuestBytes /\ guest.una \in 1..GuestBytes + 2 /\ guest.rcv \in Numbers
         /\ guest.closed \in BOOLEAN /\ guest.fin \in BOOLEAN
         /\ Len(h_got) \in Nat /\ Len(g_got) \in Nat /\ Len(flow.pending_tx) \in Nat
         /\ h_sent \in 0..HostBytes /\ Taken \in Nat
  <1>1. flow.pending_tx \in Seq(1..GuestBytes) /\ h_got \in Seq(1..GuestBytes) /\ g_got \in Seq(1..HostBytes)
    BY DEF TypeOK, Flows
  <1>2. Len(h_got) \in Nat /\ Len(g_got) \in Nat /\ Len(flow.pending_tx) \in Nat BY <1>1
  <1>3. Taken \in Nat BY <1>2 DEF Taken
  <1>4. /\ flow \in Flows /\ flow.guest_fin \in BOOLEAN /\ flow.host_fin \in BOOLEAN
        /\ flow.guest_next \in Numbers /\ flow.proxy_next \in Numbers
    BY DEF TypeOK, Flows
  <1>5. /\ guest.written \in 0..GuestBytes /\ guest.una \in 1..GuestBytes + 2 /\ guest.rcv \in Numbers
        /\ guest.closed \in BOOLEAN /\ guest.fin \in BOOLEAN
    BY DEF TypeOK, Guests
  <1>6. h_sent \in 0..HostBytes BY DEF TypeOK
  <1> QED BY <1>1, <1>2, <1>3, <1>4, <1>5, <1>6

(* Steps that leave the flow, h_got, h_sent and the queue's meaning alone.   *)
LEMMA GoodStays ==
  ASSUME TypeOK, QueueInv, UnAcked' => UnAcked /\ Taken' \in Int /\ Taken <= Taken', h_sent' = h_sent, Ended => Ended'
  PROVE  Good \subseteq Good'
  <1>1. Taken \in Nat BY DEF Taken, TypeOK, Flows
  <1>2. SUFFICES ASSUME NEW seg \in Good PROVE seg \in Good' OBVIOUS
  <1>3. UnAcked' => Acked(seg) <= Taken' 
    <2>1. Acked(seg) \in Int BY DEF Acked, Distance, Number, Wrap, Good, Segments, Numbers
    <2>2. UnAcked => Acked(seg) <= Taken BY DEF Good
    <2> QED BY <2>1, <2>2, <1>1
  <1>4. /\ seg.syn => seg.seq = ProxyIsn /\ seg.len = 0 /\ ~seg.fin
        /\ seg.len > 0 => /\ seg.from >= 1 /\ seg.from + seg.len - 1 <= h_sent'
                          /\ seg.seq = HostNumber(seg.from)
        /\ seg.fin => seg.len = 0 /\ seg.seq = HostNumber(1 + h_sent') /\ Ended'
        /\ seg \in Segments
    BY DEF Good
  <1> QED BY <1>3, <1>4 DEF Good

(* An acknowledgement and a SYN-ACK are good segments of the flow that sends *)
(* them.                                                                     *)
LEMMA AckedNumber == ASSUME NEW seg, NEW a \in 1..GuestBytes + 2, seg.ack = Number(a) PROVE Acked(seg) = a
  BY NumberDistance DEF Acked

LEMMA SegmentType ==
  ASSUME NEW f, NEW syn \in BOOLEAN, NEW fin \in BOOLEAN, NEW n \in 0..MaxSegment, NEW from \in 0..HostBytes,
         f.proxy_next \in Numbers, f.guest_next \in Numbers
  PROVE  Segment(f, syn, fin, n, from) \in Segments
  BY DEF Segment, Segments

LEMMA GuestWritesInv == IInv /\ GuestWrites => IInv'
  <1> SUFFICES ASSUME IInv, GuestWrites PROVE IInv' OBVIOUS
  <1>n. TypeOK /\ UpInv BY DEF IInv
  <1>t. guest.written \in Nat /\ Taken \in Nat BY <1>n, Types
  <1> USE DEF IInv, GuestWrites
  <1>0. /\ guest' \in Guests /\ guest'.written \in {guest.written, guest.written + 1}
        /\ guest'.st = guest.st /\ guest'.una = guest.una /\ guest'.rcv = guest.rcv
        /\ guest'.fin = guest.fin
    <2>1. guest \in Guests BY DEF TypeOK
    <2>2. CASE guest.written < GuestBytes /\ guest' = [guest EXCEPT !.written = @ + 1]
      BY <2>1, <2>2 DEF Guests
    <2>3. CASE guest' = [guest EXCEPT !.closed = TRUE]
      BY <2>1, <2>3 DEF Guests
    <2> QED BY <2>2, <2>3
  <1>1. TypeOK' BY <1>0 DEF TypeOK
  <1>2. UpInv'
    <2>1. ~flow.guest_fin /\ flow' = flow /\ h_got' = h_got BY DEF UpInv
    <2> HIDE DEF IInv, GuestWrites
    <2>2. Taken' = Taken /\ (Alive' <=> Alive) BY <2>1 DEF Taken, Alive
    <2>3. Taken' <= guest'.written + 1
      <3>1. Taken <= guest.written + 1 BY <1>n DEF UpInv
      <3> QED BY <1>0, <1>t, <2>2, <3>1
    <2>4. Alive' => flow'.guest_next = Number(Taken') BY <1>n, <2>1, <2>2 DEF UpInv
    <2> QED BY <1>n, <2>1, <2>3, <2>4 DEF UpInv
  <1>3. StartInv' BY <1>0 DEF StartInv
  <1>4. DownInv' BY <1>0 DEF DownInv, Ended
  <1>5. QueueInv'
    <2>1. Good' = Good BY DEF Good, Taken, UnAcked, Ended
    <2> QED BY <1>0, <2>1 DEF QueueInv, UnAcked, Taken
  <1> QED BY <1>1, <1>2, <1>3, <1>4, <1>5

LEMMA GuestAbortsInv == IInv /\ GuestAborts => IInv'
  <1> SUFFICES ASSUME IInv, GuestAborts PROVE IInv' OBVIOUS
  <1>n. TypeOK /\ UpInv BY DEF IInv
  <1>t. /\ guest.written \in Nat /\ Taken \in Nat
        /\ Len(h_got) \in Nat /\ Len(flow.pending_tx) \in Nat
    BY <1>n, Types
  <1> USE DEF IInv, GuestAborts
  <1>0. /\ guest' \in Guests /\ guest'.written = guest.written /\ guest'.st = "aborted"
        /\ guest'.una = guest.una /\ guest'.rcv = guest.rcv /\ guest'.fin = guest.fin
    BY DEF TypeOK, Guests
  <1>1. TypeOK'
    <2>1. flow' \in Flows BY DEF NoFlow, Numbers, Flows
    <2> QED BY <1>0, <2>1 DEF TypeOK
  <1>2. UpInv'
    <2>1. h_got' = h_got /\ flow' = NoFlow OBVIOUS
    <2> HIDE DEF IInv, GuestAborts
    <2>2. flow'.pending_tx = << >> /\ ~flow'.guest_fin /\ ~Alive' BY <2>1 DEF NoFlow, Alive
    <2>3. Taken' <= guest'.written + 1
      <3>1. Taken' = Len(h_got) + 1 BY <2>1, <2>2 DEF Taken
      <3>2. Taken = Len(h_got) + Len(flow.pending_tx) + 1 BY DEF Taken
      <3>3. Taken <= guest.written + 1 BY <1>n DEF UpInv
      <3>4. Len(h_got) + 1 <= guest.written + 1 BY <1>t, <3>2, <3>3
      <3> QED BY <1>0, <3>1, <3>4
    <2>4. \A i \in 1..Len(h_got) : h_got[i] = i BY <1>n DEF UpInv
    <2> QED BY <2>1, <2>2, <2>3, <2>4 DEF UpInv
  <1>3. StartInv' BY <1>0 DEF StartInv, NoFlow
  <1>4. DownInv' BY <1>0 DEF DownInv, Ended, NoFlow
  <1>5. QueueInv'
    <2>1. Good \subseteq Good' BY GoodStays DEF NoFlow, UnAcked, Ended
    <2> QED BY <2>1, SeqMonotone DEF QueueInv, UnAcked, NoFlow
  <1> QED BY <1>1, <1>2, <1>3, <1>4, <1>5

LEMMA LoseSegmentInv == IInv /\ LoseSegment => IInv'
  <1> SUFFICES ASSUME IInv, LoseSegment PROVE IInv' OBVIOUS
  <1> USE DEF IInv, LoseSegment
  <1>1. TypeOK' BY DEF TypeOK
  <1>2. UpInv' BY DEF UpInv, Taken, Alive
  <1>3. StartInv' BY DEF StartInv
  <1>4. DownInv' BY DEF DownInv, Ended
  <1>5. QueueInv'
    <2>1. Good' = Good BY DEF Good, Taken, UnAcked, Ended
    <2> QED BY <2>1 DEF QueueInv, UnAcked, Taken
  <1> QED BY <1>1, <1>2, <1>3, <1>4, <1>5

LEMMA GuestSynInv == IInv /\ GuestSyn => IInv'
  <1> SUFFICES ASSUME IInv, GuestSyn PROVE IInv' OBVIOUS
  <1> USE DEF IInv, GuestSyn, tcp_open
  <1>0. /\ Number(1) \in Numbers /\ ProxyIsn \in Numbers /\ Wrap(ProxyIsn + 1) = HostNumber(1)
        /\ HostNumber(1) \in Numbers
    BY NumberType, HostNumberFacts DEF Numbers, HostNumber
  <1>1. CASE flow' = Opened("connecting") /\ UNCHANGED to_guest
    <2>1. flow' = [phase |-> "connecting", host_fin |-> FALSE, guest_fin |-> FALSE,
                   guest_next |-> Number(1), proxy_next |-> ProxyIsn, pending_tx |-> << >>]
      BY <1>1 DEF Opened, NoFlow
    <2>2. TypeOK'
      <3>1. flow' \in Flows BY <1>0, <2>1 DEF Flows
      <3> QED BY <1>1, <3>1 DEF TypeOK
    <2>3. UpInv' BY <2>1, <2>2 DEF UpInv, Taken, Alive, StartInv
    <2>4. StartInv' BY <1>1, <2>1 DEF StartInv
    <2>5. DownInv' BY <2>1 DEF DownInv, StartInv
    <2>6. QueueInv' BY <1>1, <2>1 DEF QueueInv, UnAcked
    <2> QED BY <2>2, <2>3, <2>4, <2>5, <2>6
  <1>2. CASE /\ flow' = Sent(Opened("connected"), TRUE, FALSE, 0)
             /\ to_guest' = Append(to_guest, Segment(Opened("connected"), TRUE, FALSE, 0, 0))
    <2>1. flow' = [phase |-> "connected", host_fin |-> FALSE, guest_fin |-> FALSE,
                   guest_next |-> Number(1), proxy_next |-> HostNumber(1), pending_tx |-> << >>]
      BY <1>0, <1>2, Wrap(ProxyIsn + 1 + 0 + 0) = Wrap(ProxyIsn + 1) DEF Opened, NoFlow, Sent, One
    <2> DEFINE o == Opened("connected")
               seg == Segment(o, TRUE, FALSE, 0, 0)
    <2>2. o.guest_next = Number(1) /\ o.proxy_next = ProxyIsn
      BY DEF Opened, NoFlow
    <2>4. to_guest' = <<seg>> BY <1>2
    <2> HIDE DEF o
    <2>3. /\ seg \in Segments /\ seg.syn /\ ~seg.fin /\ seg.len = 0
          /\ seg.seq = ProxyIsn /\ seg.ack = Number(1)
      <3>1. 0 \in 0..MaxSegment /\ 0 \in 0..HostBytes OBVIOUS
      <3>2. o.proxy_next \in Numbers /\ o.guest_next \in Numbers BY <1>0, <2>2
      <3>3. seg \in Segments BY <3>1, <3>2, SegmentType
      <3>4. /\ seg.syn /\ ~seg.fin /\ seg.len = 0
            /\ seg.seq = o.proxy_next /\ seg.ack = o.guest_next
        BY DEF Segment
      <3> QED BY <2>2, <3>3, <3>4
    <2> HIDE DEF seg
    <2>5. TypeOK'
      <3>1. flow' \in Flows BY <1>0, <2>1 DEF Flows
      <3>2. to_guest' \in Seq(Segments) BY <2>3, <2>4, SeqOne
      <3> QED BY <3>1, <3>2 DEF TypeOK
    <2>6. UpInv' BY <2>1 DEF UpInv, Taken, Alive, StartInv
    <2>7. StartInv' BY <2>1 DEF StartInv
    <2>8. DownInv' BY <2>1 DEF DownInv, StartInv, One
    <2>9. Taken' = 1 BY <2>1 DEF Taken
    <2>10. Acked(seg) = 1 BY <2>3, AckedNumber
    <2>11. seg \in Good' BY <2>3, <2>9, <2>10 DEF Good
    <2>12. QueueInv'
      <3>1. to_guest' \in Seq(Good') BY <2>4, <2>11, SeqOne
      <3> QED BY <2>9, <3>1 DEF QueueInv, StartInv
    <2> QED BY <2>5, <2>6, <2>7, <2>8, <2>12
  <1> QED BY <1>1, <1>2

-----------------------------------------------------------------------------
(* What tcp_out makes of the flow, with or without payload, with or without  *)
(* a FIN.                                                                    *)
UpFlow(f) ==
  /\ f \in Flows /\ f.phase = "connected"
  /\ f.host_fin = flow.host_fin /\ f.proxy_next = flow.proxy_next
  /\ \A i \in 1..Len(f.pending_tx) : f.pending_tx[i] = Len(h_got) + i
  /\ Len(flow.pending_tx) <= Len(f.pending_tx) /\ Len(h_got) + Len(f.pending_tx) <= guest.written
  /\ f.guest_next = IF f.guest_fin THEN Number(guest.written + 2)
                    ELSE Number(Len(h_got) + Len(f.pending_tx) + 1)
  /\ f.guest_fin => guest.closed
  /\ flow.guest_fin => f.guest_fin

LEMMA UpFlowSelf == ASSUME IInv, flow.phase = "connected" PROVE UpFlow(flow)
  <1>1. Taken = Len(h_got) + Len(flow.pending_tx) + 1 BY DEF Taken
  <1>2. Len(h_got) + Len(flow.pending_tx) <= guest.written BY <1>1, Types DEF IInv, UpInv
  <1> QED BY <1>1, <1>2, Types DEF IInv, UpInv, UpFlow, Alive

Grown(new, m) == [flow EXCEPT !.pending_tx = @ \o new, !.guest_next = Wrap(@ + m)]

LEMMA UpFlowMore ==
  ASSUME IInv, flow.phase = "connected", ~flow.guest_fin, NEW m \in Nat, m > 0,
         Taken + m <= guest.written + 1
  PROVE  UpFlow(Grown([i \in 1..m |-> Taken + i - 1], m))
  <1> DEFINE p == flow.pending_tx
             h == Len(h_got)
             new == [i \in 1..m |-> Taken + i - 1]
             q == p \o new
             f == Grown(new, m)
  <1>0. /\ p \in Seq(1..GuestBytes) /\ h \in Nat /\ \A i \in 1..Len(p) : p[i] = h + i
    BY Types DEF IInv, UpInv
  <1>1. /\ h \in Nat /\ Len(p) \in Nat /\ Taken = h + Len(p) + 1
        /\ guest.written \in 0..GuestBytes /\ flow.guest_next = Number(Taken)
        /\ Taken \in Nat /\ Taken >= 1 /\ flow \in Flows
    BY Types DEF IInv, UpInv, Taken, Alive
  <1> HIDE DEF h, p
  <1>2. new \in Seq(1..GuestBytes) /\ Len(new) = m
    <2>1. \A i \in 1..m : Taken + i - 1 \in 1..GuestBytes BY <1>1
    <2>2. new \in [1..m -> 1..GuestBytes] BY <2>1
    <2> QED BY <2>2
  <1>3. \A i \in 1..Len(new) : new[i] = h + Len(p) + i BY <1>1, <1>2
  <1> HIDE DEF new
  <1>4. q \in Seq(1..GuestBytes) /\ Len(q) = Len(p) + m /\ \A i \in 1..Len(q) : q[i] = h + i
    <2>1. Run(p, h) /\ Run(new, h + Len(p)) BY <1>0, <1>3 DEF Run
    <2>2. q \in Seq(1..GuestBytes) /\ Len(q) = Len(p) + Len(new) /\ Run(q, h)
      BY <1>0, <1>2, <2>1, SeqRun
    <2> QED BY <1>2, <2>2 DEF Run
  <1>5. Wrap(flow.guest_next + m) = Number(Taken + m)
    <2> DEFINE t == Taken
    <2>1. t \in Nat /\ flow.guest_next = Number(t) /\ t \in 0..GuestBytes + 2 /\ t + m <= GuestBytes + 2
      BY <1>1, TcpAssumption
    <2> HIDE DEF t
    <2>2. Wrap(Number(t) + m) = Number(t + m) BY <2>1, NumberStep
    <2> QED BY <2>1, <2>2 DEF t
  <1>6. Number(Taken + m) \in Numbers BY <1>1, NumberType
  <1>7. f = [flow EXCEPT !.pending_tx = q, !.guest_next = Number(Taken + m)] BY <1>5 DEF Grown, p
  <1> HIDE DEF q, f
  <1>8. /\ f \in Flows /\ f.phase = "connected" /\ f.host_fin = flow.host_fin
        /\ f.proxy_next = flow.proxy_next /\ f.guest_fin = flow.guest_fin
        /\ f.pending_tx = q /\ f.guest_next = Number(Taken + m)
    BY <1>1, <1>4, <1>6, <1>7 DEF Flows
  <1>9. Taken + m = h + Len(q) + 1 /\ Len(p) <= Len(q) /\ h + Len(q) <= guest.written
    BY <1>1, <1>4
  <1>10. UpFlow(f) BY <1>4, <1>8, <1>9 DEF UpFlow, h, p
  <1> QED BY <1>10 DEF f, new

LEMMA UpFlowData ==
  ASSUME IInv, flow.phase = "connected",
         NEW first \in 1..GuestBytes + 1, NEW n \in Nat, first + n - 1 <= guest.written
  PROVE  UpFlow(TakeData(flow, first, n))
  <1> DEFINE f == TakeData(flow, first, n)
             a == IF flow.guest_fin THEN guest.written + 2 ELSE Taken
             skip == Skip(flow, Number(first), n)
             m == n - skip
             new == [i \in 1..m |-> first + skip + i - 1]
  <1>1. guest.written \in 0..GuestBytes /\ Taken \in Nat /\ Taken >= 1 /\ Taken <= guest.written + 1
    BY Types DEF IInv, UpInv, Taken
  <1>2. a \in 1..GuestBytes + 2 /\ flow.guest_next = Number(a) BY <1>1 DEF IInv, UpInv, Alive
  <1>3. first + n <= GuestBytes + 1 BY <1>1
  <1>4. skip = IF a < first THEN n ELSE Least(n, a - first)
    <2> HIDE DEF a
    <2> QED BY <1>2, <1>3, SkipIs
  <1>5. m \in Nat /\ (m > 0 => first + skip = a /\ m = first + n - a) BY <1>1, <1>2, <1>4 DEF Least
  <1>6. f = Grown(new, m) BY DEF TakeData, Grown
  <1> HIDE DEF skip, f
  <1>7. CASE m = 0
    <2>1. new = << >> BY <1>7
    <2>2. flow.pending_tx \o new = flow.pending_tx BY <2>1, Types, SeqConcat DEF IInv
    <2>3. Wrap(flow.guest_next + m) = flow.guest_next BY <1>7, Types DEF IInv, Wrap, Numbers
    <2>4. f = flow BY <1>6, <2>2, <2>3, Types DEF IInv, Flows, Grown
    <2> QED BY <2>4, UpFlowSelf DEF f
  <1>8. CASE m > 0
    <2>1. ~flow.guest_fin /\ Taken + m <= guest.written + 1 BY <1>1, <1>5, <1>8
    <2>2. new = [i \in 1..m |-> Taken + i - 1] BY <1>1, <1>5, <1>8
    <2> HIDE DEF new, m
    <2>3. UpFlow(f) BY <1>5, <1>6, <1>8, <2>1, <2>2, UpFlowMore
    <2> QED BY <2>3 DEF f
  <1> QED BY <1>5, <1>7, <1>8

LEMMA UpFlowFin ==
  ASSUME IInv, flow.phase = "connected", NEW f, UpFlow(f), guest.closed,
         NEW first \in 1..GuestBytes + 1, NEW n \in Nat, first + n - 1 = guest.written
  PROVE  UpFlow(TakeFin(f, first, n)) /\ TakeFin(f, first, n).guest_fin
  <1> DEFINE w == guest.written
             b == IF f.guest_fin THEN w + 2 ELSE Len(h_got) + Len(f.pending_tx) + 1
  <1>n. TypeOK BY DEF IInv
  <1>1. w \in 0..GuestBytes /\ first + n = w + 1
    <2>1. w \in 0..GuestBytes BY <1>n, Types
    <2>2. first + n - 1 = w OBVIOUS
    <2> HIDE DEF w
    <2> QED BY <2>1, <2>2, TcpAssumption
  <1>2. Len(h_got) \in Nat /\ Len(f.pending_tx) \in Nat
    <2>1. f.pending_tx \in Seq(1..GuestBytes) BY DEF UpFlow, Flows
    <2> QED BY <2>1, Types DEF IInv
  <1>3. b \in 1..w + 2 /\ f.guest_next = Number(b) BY <1>1, <1>2 DEF UpFlow
  <1>4. Wrap(Number(first + n) + 1) = Number(w + 2)
    <2>1. Wrap(Number(w + 1) + 1) = Number((w + 1) + 1) BY <1>1, NumberStep
    <2> QED BY <1>1, <2>1
  <1>5. (Number(first + n) = f.guest_next \/ tcp_seq_before(f.guest_next, Number(w + 2))) \/ f.guest_next = Number(w + 2)
    <2> HIDE DEF b
    <2>1. tcp_seq_before(Number(b), Number(w + 2)) <=> b < w + 2 BY <1>1, <1>3, NumberDistance
    <2> QED BY <1>1, <1>3, <2>1
  <1>6. TakeFin(f, first, n) = [f EXCEPT !.guest_next = Number(w + 2), !.guest_fin = TRUE]
    BY <1>4, <1>5 DEF TakeFin
  <1>7. Number(w + 2) \in Numbers BY <1>1, NumberType
  <1> QED BY <1>6, <1>7 DEF UpFlow, Flows

LEMMA UpFlowLen == ASSUME IInv, NEW f, UpFlow(f) PROVE Len(f.pending_tx) \in Nat /\ f.guest_next \in Numbers
                                                      /\ f.guest_fin \in BOOLEAN
  BY DEF UpFlow, Flows

(* The state after tcp_out, when the acknowledgements it sends are good.     *)
LEMMA UpFlowInv ==
  ASSUME IInv, flow.phase = "connected", UpFlow(flow'), to_guest' \in Seq(Good'),
         UNCHANGED <<h_got, h_sent, guest, g_got, losses>>
  PROVE  IInv'
  <1>1. Len(flow.pending_tx) \in Nat /\ Len(flow'.pending_tx) \in Nat /\ Len(h_got) \in Nat
    BY Types, UpFlowLen DEF IInv
  <1>2. Taken = Len(h_got) + Len(flow.pending_tx) + 1 /\ Taken' = Len(h_got) + Len(flow'.pending_tx) + 1
    BY DEF Taken
  <1>3. Len(flow.pending_tx) <= Len(flow'.pending_tx) /\ Taken <= Taken' BY <1>1, <1>2 DEF UpFlow
  <1>4. TypeOK'
    <2>1. Good' \subseteq Segments BY DEF Good
    <2>2. to_guest' \in Seq(Segments) BY <2>1, SeqMonotone
    <2> QED BY <2>2 DEF IInv, TypeOK, UpFlow
  <1>5. UpInv'
    <2>1. /\ \A i \in 1..Len(h_got') : h_got'[i] = i
          /\ \A i \in 1..Len(flow'.pending_tx) : flow'.pending_tx[i] = Len(h_got') + i
      BY DEF IInv, UpInv, UpFlow
    <2>2. Taken' <= guest'.written + 1
      <3>1. guest.written \in Nat /\ Len(h_got) + Len(flow'.pending_tx) <= guest.written
        BY Types DEF IInv, UpFlow
      <3> QED BY <1>1, <1>2, <3>1
    <2>3. flow'.guest_next = IF flow'.guest_fin THEN Number(guest'.written + 2) ELSE Number(Taken')
      BY <1>2 DEF UpFlow
    <2>4. /\ flow'.guest_fin => guest'.closed /\ flow'.phase = "connected"
          /\ flow'.phase # "connected" => flow'.pending_tx = << >>
      BY DEF UpFlow
    <2> QED BY <2>1, <2>2, <2>3, <2>4 DEF UpInv
  <1>6. StartInv' BY DEF IInv, StartInv, UpFlow
  <1>7. DownInv' BY DEF IInv, DownInv, UpFlow, Ended
  <1>8. QueueInv'
    <2>1. UnAcked' => UnAcked BY DEF UnAcked, UpFlow
    <2>2. UnAcked => guest.una <= Taken BY DEF IInv, QueueInv
    <2>3. guest.una \in Nat /\ Taken \in Nat /\ Taken' \in Nat BY <1>1, <1>2, Types DEF IInv
    <2> QED BY <1>3, <2>1, <2>2, <2>3 DEF QueueInv
  <1> QED BY <1>4, <1>5, <1>6, <1>7, <1>8 DEF IInv

LEMMA AckIsGood ==
  ASSUME IInv, flow.phase = "connected", UNCHANGED <<h_got, h_sent, guest>>, UpFlow(flow'),
         NEW f, UpFlow(f), Len(f.pending_tx) <= Len(flow'.pending_tx), f.guest_fin => flow'.guest_fin
  PROVE  Ack(f) \in Good'
  <1>1. f.guest_next \in Numbers /\ f.proxy_next \in Numbers BY DEF UpFlow, Flows
  <1>2. Ack(f) \in Segments
    <2>1. 0 \in 0..MaxSegment /\ 0 \in 0..HostBytes OBVIOUS
    <2> QED BY <1>1, <2>1, SegmentType DEF Ack
  <1>3. ~Ack(f).syn /\ ~Ack(f).fin /\ Ack(f).len = 0 /\ Ack(f).ack = f.guest_next BY DEF Ack, Segment
  <1>4. ASSUME UnAcked' PROVE Acked(Ack(f)) <= Taken'
    <2> DEFINE a == Len(h_got) + Len(f.pending_tx) + 1
    <2>1. ~f.guest_fin /\ f.guest_next = Number(a) BY <1>4 DEF UpFlow, UnAcked
    <2>2. /\ Len(h_got) \in Nat /\ Len(f.pending_tx) \in Nat /\ Len(flow'.pending_tx) \in Nat
          /\ guest.written \in 0..GuestBytes
      BY Types, UpFlowLen DEF IInv
    <2>3. Len(h_got) + Len(f.pending_tx) <= guest.written BY DEF UpFlow
    <2>4. a \in 1..GuestBytes + 2 BY <2>2, <2>3
    <2>5. a <= Len(h_got) + Len(flow'.pending_tx) + 1 BY <2>2
    <2> HIDE DEF a
    <2>6. Acked(Ack(f)) = a BY <1>3, <2>1, <2>4, AckedNumber
    <2> QED BY <2>5, <2>6 DEF Taken
  <1> QED BY <1>2, <1>3, <1>4 DEF Good

LEMMA GuestSendsInv ==
  ASSUME IInv, NEW first \in 1..GuestBytes + 1, NEW n \in 0..MaxSegment, NEW fin \in BOOLEAN,
         GuestSends(first, n, fin)
  PROVE  IInv'
  <1> DEFINE f == IF n > 0 THEN TakeData(flow, first, n) ELSE flow
             g == IF fin THEN TakeFin(f, first, n) ELSE f
  <1>1. flow.phase = "connected"
    BY DEF GuestSends, tcp_out, IInv, StartInv, TypeOK, Flows
  <1>2. /\ first + n - 1 <= guest.written /\ (fin => guest.closed /\ first + n - 1 = guest.written)
        /\ UNCHANGED <<h_got, h_sent, guest, g_got, losses>>
    BY DEF GuestSends, tcp_out
  <1>0. n \in Nat /\ guest.written \in 0..GuestBytes BY Types DEF IInv
  <1>3. UpFlow(f)
    <2>1. UpFlow(flow) BY <1>1, UpFlowSelf
    <2>2. UpFlow(TakeData(flow, first, n))
      BY <1>0, <1>1, <1>2, UpFlowData
    <2> QED BY <2>1, <2>2
  <1>4. UpFlow(g) /\ Len(f.pending_tx) <= Len(g.pending_tx) /\ (f.guest_fin => g.guest_fin)
    <2> HIDE DEF f
    <2>1. CASE fin
      <3>1. UpFlow(TakeFin(f, first, n)) /\ TakeFin(f, first, n).guest_fin
        BY <1>0, <1>1, <1>2, <1>3, <2>1, UpFlowFin
      <3>2. TakeFin(f, first, n).pending_tx = f.pending_tx BY <1>3 DEF TakeFin, UpFlow, Flows
      <3> QED BY <1>3, <2>1, <3>1, <3>2, UpFlowLen
    <2>2. CASE ~fin BY <1>3, <2>2, UpFlowLen
    <2> QED BY <2>1, <2>2
  <1>5. flow' = g /\ to_guest' = to_guest \o (IF n > 0 THEN <<Ack(f)>> ELSE << >>)
                                         \o (IF fin THEN <<Ack(g)>> ELSE << >>)
    BY <1>1 DEF GuestSends, tcp_out
  <1> HIDE DEF f, g
  <1>6. Ack(f) \in Good' /\ Ack(g) \in Good'
    <2>1. Len(g.pending_tx) <= Len(g.pending_tx) BY <1>4, UpFlowLen
    <2> QED BY <1>1, <1>2, <1>3, <1>4, <1>5, <2>1, AckIsGood
  <1>7. Good \subseteq Good'
    <2>1. UnAcked' => UnAcked BY <1>1, <1>4, <1>5 DEF UnAcked, UpFlow
    <2>2. Len(h_got) \in Nat /\ Len(g.pending_tx) \in Nat /\ Len(flow.pending_tx) \in Nat
      BY <1>4, UpFlowLen, Types DEF IInv
    <2>3. Taken = Len(h_got) + Len(flow.pending_tx) + 1 /\ Taken' = Len(h_got) + Len(g.pending_tx) + 1
      BY <1>2, <1>5 DEF Taken
    <2>4. Taken' \in Int /\ Taken <= Taken' BY <1>4, <2>2, <2>3 DEF UpFlow
    <2>5. Ended => Ended' BY <1>1, <1>4, <1>5 DEF Ended, UpFlow
    <2> QED BY <1>2, <2>1, <2>4, <2>5, GoodStays DEF IInv
  <1>8. to_guest' \in Seq(Good')
    <2> DEFINE t1 == IF n > 0 THEN <<Ack(f)>> ELSE << >>
               t2 == IF fin THEN <<Ack(g)>> ELSE << >>
    <2>1. t1 \in Seq(Good') /\ t2 \in Seq(Good') BY <1>6, SeqOne
    <2>2. to_guest \in Seq(Good') BY <1>7, SeqMonotone DEF IInv, QueueInv
    <2>3. to_guest' = (to_guest \o t1) \o t2 BY <1>5
    <2> HIDE DEF t1, t2
    <2> QED BY <2>1, <2>2, <2>3, SeqConcat
  <1> QED BY <1>1, <1>2, <1>4, <1>5, <1>8, UpFlowInv

-----------------------------------------------------------------------------
LEMMA GoodGrows ==
  ASSUME TypeOK, UnAcked' => UnAcked /\ Taken' \in Int /\ Taken <= Taken',
         h_sent' \in Nat, h_sent <= h_sent', Ended => Ended' /\ h_sent' = h_sent
  PROVE  Good \subseteq Good'
  <1>1. Taken \in Nat /\ h_sent \in Nat BY Types
  <1>2. SUFFICES ASSUME NEW seg \in Good PROVE seg \in Good' OBVIOUS
  <1>3. UnAcked' => Acked(seg) <= Taken'
    <2>1. Acked(seg) \in Int BY DEF Acked, Distance, Number, Wrap, Good, Segments, Numbers
    <2>2. UnAcked => Acked(seg) <= Taken BY DEF Good
    <2> QED BY <2>1, <2>2, <1>1
  <1>4. seg \in Segments /\ seg.len \in Nat /\ seg.from \in Nat BY DEF Good, Segments
  <1>5. seg.syn => seg.seq = ProxyIsn /\ seg.len = 0 /\ ~seg.fin BY DEF Good
  <1>6. seg.len > 0 => /\ seg.from >= 1 /\ seg.from + seg.len - 1 <= h_sent'
                       /\ seg.seq = HostNumber(seg.from)
    BY <1>1, <1>4 DEF Good
  <1>7. seg.fin => seg.len = 0 /\ seg.seq = HostNumber(1 + h_sent') /\ Ended' BY DEF Good
  <1> QED BY <1>3, <1>4, <1>5, <1>6, <1>7 DEF Good

LEMMA RunSplit ==
  ASSUME NEW S, NEW h \in Nat, NEW s \in Seq(S), Run(s, h), NEW k \in 0..Len(s)
  PROVE  /\ SubSeq(s, 1, k) \in Seq(S) /\ Len(SubSeq(s, 1, k)) = k /\ Run(SubSeq(s, 1, k), h)
         /\ SubSeq(s, k + 1, Len(s)) \in Seq(S) /\ Len(SubSeq(s, k + 1, Len(s))) = Len(s) - k
         /\ Run(SubSeq(s, k + 1, Len(s)), h + k)
  <1>1. SubSeq(s, 1, k) \in Seq(S) /\ Len(SubSeq(s, 1, k)) = k OBVIOUS
  <1>2. Run(SubSeq(s, 1, k), h) BY <1>1 DEF Run
  <1>3. SubSeq(s, k + 1, Len(s)) \in Seq(S) /\ Len(SubSeq(s, k + 1, Len(s))) = Len(s) - k OBVIOUS
  <1>4. Run(SubSeq(s, k + 1, Len(s)), h + k)
    <2>1. ASSUME NEW i \in 1..Len(s) - k PROVE SubSeq(s, k + 1, Len(s))[i] = h + k + i
      <3>1. SubSeq(s, k + 1, Len(s))[i] = s[k + i] OBVIOUS
      <3>2. k + i \in 1..Len(s) OBVIOUS
      <3> QED BY <3>1, <3>2 DEF Run
    <2> QED BY <1>3, <2>1 DEF Run
  <1> QED BY <1>1, <1>2, <1>3, <1>4

(* What the socket takes moves from one queue to the other.                  *)
Rest(k) == SubSeq(flow.pending_tx, k + 1, Len(flow.pending_tx))

LEMMA HostGetsRun ==
  ASSUME IInv, NEW k \in 0..Len(flow.pending_tx), HostGets(k)
  PROVE  /\ h_got' \in Seq(1..GuestBytes) /\ Rest(k) \in Seq(1..GuestBytes)
         /\ Len(h_got') = Len(h_got) + k /\ Len(Rest(k)) = Len(flow.pending_tx) - k
         /\ \A i \in 1..Len(h_got') : h_got'[i] = i
         /\ \A i \in 1..Len(Rest(k)) : Rest(k)[i] = Len(h_got') + i
  <1> DEFINE p == flow.pending_tx
             h == Len(h_got)
  <1>1. p \in Seq(1..GuestBytes) /\ h_got \in Seq(1..GuestBytes) /\ h \in Nat
    BY Types DEF IInv, TypeOK
  <1>2. Run(p, h) /\ Run(h_got, 0) BY <1>1 DEF Run, IInv, UpInv
  <1>3. h_got' = h_got \o SubSeq(p, 1, k) BY DEF HostGets
  <1>4. k \in 0..Len(p) OBVIOUS
  <1>5. h = 0 + Len(h_got) BY <1>1
  <1> HIDE DEF p, h
  <1>6. /\ SubSeq(p, 1, k) \in Seq(1..GuestBytes) /\ Len(SubSeq(p, 1, k)) = k /\ Run(SubSeq(p, 1, k), h)
        /\ SubSeq(p, k + 1, Len(p)) \in Seq(1..GuestBytes) /\ Len(SubSeq(p, k + 1, Len(p))) = Len(p) - k
        /\ Run(SubSeq(p, k + 1, Len(p)), h + k)
    BY <1>1, <1>2, <1>4, RunSplit
  <1>7. h_got' \in Seq(1..GuestBytes) /\ Len(h_got') = h + k /\ Run(h_got', 0)
    <2> DEFINE t == SubSeq(p, 1, k)
    <2>1. t \in Seq(1..GuestBytes) /\ Len(t) = k /\ Run(t, h) /\ h_got' = h_got \o t BY <1>3, <1>6
    <2> HIDE DEF t
    <2>2. Run(t, 0 + Len(h_got)) BY <1>5, <2>1, Zenon
    <2>3. /\ h_got \o t \in Seq(1..GuestBytes) /\ Len(h_got \o t) = Len(h_got) + Len(t)
          /\ Run(h_got \o t, 0)
      BY <1>1, <1>2, <2>1, <2>2, SeqRun
    <2> QED BY <1>1, <1>5, <2>1, <2>3
  <1>8. \A i \in 1..Len(h_got') : h_got'[i] = i BY <1>1, <1>7 DEF Run
  <1>9. \A i \in 1..Len(Rest(k)) : Rest(k)[i] = Len(h_got') + i BY <1>6, <1>7 DEF Run, Rest, p
  <1> QED BY <1>6, <1>7, <1>8, <1>9 DEF Rest, p, h

LEMMA SendPendingIs ==
  ASSUME IInv, Alive, NEW k \in 0..Len(flow.pending_tx)
  PROVE  /\ SendPending(k).phase = "connected" /\ SendPending(k).host_fin = flow.host_fin
         /\ SendPending(k).guest_fin = flow.guest_fin /\ SendPending(k).guest_next = flow.guest_next
         /\ SendPending(k).pending_tx = Rest(k)
         /\ SendPending(k).proxy_next = HostNumber(1 + h_sent + One(flow.host_fin))
         /\ SendPending(k) = [SendPending(k) EXCEPT !.pending_tx = Rest(k)]
         /\ Rest(k) \in Seq(1..GuestBytes) => SendPending(k) \in Flows
  <1> DEFINE c == Connected
  <1>1. c \in Flows /\ c.phase = "connected" /\ c.host_fin = flow.host_fin /\ c.guest_fin = flow.guest_fin
        /\ c.guest_next = flow.guest_next /\ c.pending_tx = flow.pending_tx
        /\ c.proxy_next = HostNumber(1 + h_sent + One(flow.host_fin))
    <2>1. CASE flow.phase = "connecting"
      <3> DEFINE d == [flow EXCEPT !.phase = "connected"]
      <3>1. /\ d \in Flows /\ d.phase = "connected" /\ d.host_fin = flow.host_fin
            /\ d.guest_fin = flow.guest_fin /\ d.guest_next = flow.guest_next
            /\ d.pending_tx = flow.pending_tx /\ d.proxy_next = flow.proxy_next
        BY DEF IInv, TypeOK, Flows
      <3>2. c = Sent(d, TRUE, FALSE, 0) BY <2>1 DEF Connected
      <3>3. flow.proxy_next = ProxyIsn /\ h_sent = 0 /\ ~flow.host_fin BY <2>1 DEF IInv, StartInv
      <3> HIDE DEF c, d
      <3>4. Wrap(ProxyIsn + 1 + 0 + 0) = HostNumber(1) /\ HostNumber(1) \in Numbers
        BY HostNumberFacts DEF HostNumber
      <3>5. c = [d EXCEPT !.proxy_next = HostNumber(1)] BY <3>1, <3>2, <3>3, <3>4 DEF Sent, One
      <3>6. /\ c \in Flows /\ c.phase = "connected" /\ c.host_fin = flow.host_fin
            /\ c.guest_fin = flow.guest_fin /\ c.guest_next = flow.guest_next
            /\ c.pending_tx = flow.pending_tx /\ c.proxy_next = HostNumber(1)
        BY <3>1, <3>4, <3>5 DEF Flows
      <3>7. 1 + h_sent + One(flow.host_fin) = 1 BY <3>3 DEF One
      <3> QED BY <3>6, <3>7
    <2>2. CASE flow.phase = "connected"
      BY <2>2 DEF Connected, IInv, TypeOK, DownInv
    <2> QED BY <2>1, <2>2 DEF IInv, TypeOK, Flows, Alive
  <1>2. SendPending(k) = [c EXCEPT !.pending_tx = Rest(k)]
    <2>1. SendPending(k) = [c EXCEPT !.pending_tx = SubSeq(c.pending_tx, k + 1, Len(c.pending_tx))]
      BY DEF SendPending
    <2> HIDE DEF c
    <2> QED BY <1>1, <2>1 DEF Rest
  <1> HIDE DEF c
  <1> QED BY <1>1, <1>2 DEF Flows

LEMMA TakenStays ==
  ASSUME IInv, NEW k \in 0..Len(flow.pending_tx), HostGets(k), flow'.pending_tx = Rest(k)
  PROVE  Taken' = Taken /\ Taken \in Int
  <1>1. /\ h_got' \in Seq(1..GuestBytes) /\ Rest(k) \in Seq(1..GuestBytes)
        /\ Len(h_got') = Len(h_got) + k /\ Len(Rest(k)) = Len(flow.pending_tx) - k
    BY HostGetsRun
  <1>2. Len(h_got) \in Nat /\ Len(flow.pending_tx) \in Nat BY Types DEF IInv
  <1>3. Taken' = Len(h_got') + Len(Rest(k)) + 1 BY DEF Taken
  <1>4. Taken = Len(h_got) + Len(flow.pending_tx) + 1 BY DEF Taken
  <1>5. Taken \in Int BY <1>2, <1>4
  <1>6. Taken' = Taken
    <2> DEFINE a == Len(h_got')
               r == Len(Rest(k))
               h == Len(h_got)
               p == Len(flow.pending_tx)
    <2>1. a = h + k /\ r = p - k /\ h \in Nat /\ p \in Nat /\ k \in Int BY <1>1, <1>2
    <2>2. Taken' = a + r + 1 /\ Taken = h + p + 1 BY <1>3, <1>4
    <2> HIDE DEF a, r, h, p
    <2> QED BY <2>1, <2>2
  <1> QED BY <1>5, <1>6

(* The state after a poll that keeps the flow.                               *)
LEMMA PollKeeps ==
  ASSUME IInv, Alive, NEW k \in 0..Len(flow.pending_tx), HostGets(k), UNCHANGED <<guest, g_got, losses>>,
         flow' \in Flows, flow'.phase = "connected", flow'.guest_fin = flow.guest_fin,
         flow'.guest_next = flow.guest_next, flow'.pending_tx = Rest(k),
         flow'.proxy_next = HostNumber(1 + h_sent' + One(flow'.host_fin)),
         h_sent' \in 0..HostBytes, h_sent <= h_sent', Ended => Ended' /\ h_sent' = h_sent,
         to_guest' \in Seq(Good')
  PROVE  IInv'
  <1>1. /\ h_got' \in Seq(1..GuestBytes) /\ Len(h_got') = Len(h_got) + k
        /\ Len(Rest(k)) = Len(flow.pending_tx) - k
        /\ \A i \in 1..Len(h_got') : h_got'[i] = i
        /\ \A i \in 1..Len(Rest(k)) : Rest(k)[i] = Len(h_got') + i
    BY HostGetsRun
  <1>2. Taken' = Taken BY TakenStays
  <1>3. TypeOK'
    <2>1. Good' \subseteq Segments BY DEF Good
    <2>2. to_guest' \in Seq(Segments) BY <2>1, SeqMonotone
    <2> QED BY <1>1, <2>2 DEF IInv, TypeOK
  <1>4. UpInv'
    <2>1. \A i \in 1..Len(flow'.pending_tx) : flow'.pending_tx[i] = Len(h_got') + i BY <1>1
    <2>2. Taken' <= guest'.written + 1 BY <1>2 DEF IInv, UpInv
    <2>3. flow'.guest_next = IF flow'.guest_fin THEN Number(guest'.written + 2) ELSE Number(Taken')
      BY <1>2 DEF IInv, UpInv
    <2>4. flow'.guest_fin => guest'.closed BY DEF IInv, UpInv
    <2> QED BY <1>1, <2>1, <2>2, <2>3, <2>4 DEF UpInv
  <1>5. StartInv' BY DEF IInv, StartInv
  <1>6. DownInv'
    <2>1. Len(g_got) \in Nat /\ h_sent \in Nat BY Types DEF IInv
    <2>2. Len(g_got') <= h_sent' BY <2>1 DEF IInv, DownInv
    <2>3. guest'.fin => Len(g_got') = h_sent' /\ Ended' BY DEF IInv, DownInv
    <2> QED BY <2>2, <2>3 DEF IInv, DownInv
  <1>7. QueueInv'
    <2>1. UnAcked' => UnAcked \/ flow.phase = "connecting" BY DEF UnAcked, Alive, IInv, TypeOK, Flows
    <2>2. UnAcked' => guest.una <= Taken
      <3>1. flow.phase = "connecting" => guest.una = 1 BY DEF IInv, StartInv
      <3>2. Taken >= 1
        <4>1. Len(h_got) \in Nat /\ Len(flow.pending_tx) \in Nat BY Types DEF IInv
        <4>2. Taken = Len(h_got) + Len(flow.pending_tx) + 1 BY DEF Taken
        <4> QED BY <4>1, <4>2
      <3> QED BY <2>1, <3>1, <3>2 DEF IInv, QueueInv
    <2> QED BY <1>2, <2>2 DEF QueueInv
  <1> QED BY <1>3, <1>4, <1>5, <1>6, <1>7 DEF IInv

(* What poll_tcp queues: the SYN-ACK of a connection just made, then payload *)
(* or a FIN under the next number.                                           *)
LEMMA PollInv == ASSUME IInv, Poll PROVE IInv'
  <1>1. PICK k \in 0..GuestBytes, n \in 0..MaxSegment, end \in BOOLEAN : poll_tcp(k, n, end)
    BY DEF Poll
  <1>2. UNCHANGED <<guest, g_got, losses>> BY DEF Poll
  <1> DEFINE f == SendPending(k)
             fin == end /\ ~f.host_fin
             b == One(flow.host_fin)
  <1>3. Alive /\ k \in 0..Len(flow.pending_tx) /\ HostGets(k) BY <1>1 DEF poll_tcp, Alive
  <1>4. h_sent' = h_sent + n /\ (n > 0 => ~f.host_fin /\ h_sent + n <= HostBytes)
    BY <1>1 DEF poll_tcp
  <1>11. flow' = IF n > 0 THEN Recv(f, n) ELSE IF fin THEN HostEnds(f) ELSE f
    BY <1>1 DEF poll_tcp
  <1>12. /\ n > 0 => to_guest' = to_guest \o SynAck \o <<Segment(f, FALSE, FALSE, n, h_sent + 1)>>
         /\ ~(n > 0) /\ fin => to_guest' = to_guest \o SynAck \o <<Segment(f, FALSE, TRUE, 0, 0)>>
         /\ ~(n > 0) /\ ~fin => to_guest' = to_guest \o SynAck \o << >>
    BY <1>1 DEF poll_tcp
  <1>5. Rest(k) \in Seq(1..GuestBytes) /\ Len(h_got') = Len(h_got) + k /\ Len(Rest(k)) = Len(flow.pending_tx) - k
    BY <1>3, HostGetsRun
  <1>6. /\ f \in Flows /\ f.phase = "connected" /\ f.host_fin = flow.host_fin /\ f.guest_fin = flow.guest_fin
        /\ f.guest_next = flow.guest_next /\ f.pending_tx = Rest(k)
        /\ f.proxy_next = HostNumber(1 + h_sent + b)
    BY <1>3, <1>5, SendPendingIs
  <1> HIDE DEF f
  <1>7. /\ h_sent \in 0..HostBytes /\ n \in Nat /\ flow.host_fin \in BOOLEAN /\ b \in {0, 1}
        /\ flow.guest_next \in Numbers
    BY Types DEF IInv, One
  <1>8. h_sent' \in 0..HostBytes /\ h_sent <= h_sent' /\ (n > 0 => ~flow.host_fin) BY <1>4, <1>6, <1>7
  <1>9. Ended => h_sent' = h_sent BY <1>3, <1>4, <1>7, <1>8 DEF Ended, Alive
  <1>10. /\ flow' \in Flows /\ flow'.phase = "connected" /\ flow'.guest_fin = flow.guest_fin
         /\ flow'.guest_next = flow.guest_next /\ flow'.pending_tx = Rest(k)
         /\ flow'.proxy_next = HostNumber(1 + h_sent' + One(flow'.host_fin))
         /\ flow'.host_fin = (flow.host_fin \/ (n = 0 /\ end))
    <2>1. CASE n > 0
      <3>1. b = 0 /\ 1 + h_sent + b = 1 + h_sent BY <1>7, <1>8, <2>1 DEF One
      <3>2. Wrap(HostNumber(1 + h_sent) + n) = HostNumber(1 + h_sent + n) /\ HostNumber(1 + h_sent + n) \in Numbers
        <4>1. 1 + h_sent \in 0..HostBytes + 2 /\ 1 + h_sent + n \in 0..HostBytes + 2
          BY <1>4, <1>7, <1>8
        <4> QED BY <1>7, <4>1, HostNumberFacts
      <3>3. Wrap(f.proxy_next + 0 + 0 + n) = HostNumber(1 + h_sent')
        <4>1. f.proxy_next = HostNumber(1 + h_sent) BY <1>6, <3>1
        <4>2. HostNumber(1 + h_sent) \in Numbers BY <1>6, <4>1 DEF Flows
        <4>3. HostNumber(1 + h_sent) + 0 + 0 + n = HostNumber(1 + h_sent) + n BY <1>7, <4>2 DEF Numbers
        <4>4. 1 + h_sent' = 1 + h_sent + n BY <1>4, <1>7
        <4> QED BY <3>2, <4>1, <4>3, <4>4
      <3>4. flow' = [f EXCEPT !.proxy_next = HostNumber(1 + h_sent')]
        <4>1. flow' = Sent(f, FALSE, FALSE, n) BY <1>11, <2>1 DEF Recv
        <4> QED BY <3>3, <4>1 DEF Sent, One
      <3>5. HostNumber(1 + h_sent') \in Numbers BY <1>4, <1>7, <3>2
      <3>6. ~flow.host_fin BY <1>8, <2>1
      <3>7. /\ flow' \in Flows /\ flow'.phase = "connected" /\ flow'.guest_fin = flow.guest_fin
            /\ flow'.guest_next = flow.guest_next /\ flow'.pending_tx = Rest(k)
            /\ flow'.proxy_next = HostNumber(1 + h_sent') /\ flow'.host_fin = flow.host_fin
        BY <1>6, <3>4, <3>5 DEF Flows
      <3>8. 1 + h_sent' + One(flow'.host_fin) = 1 + h_sent' BY <1>8, <3>6, <3>7 DEF One
      <3> QED BY <2>1, <3>7, <3>8, <1>7
    <2>2. CASE n = 0 /\ fin
      <3>1. ~flow.host_fin /\ b = 0 /\ end /\ h_sent' = h_sent BY <1>4, <1>6, <1>7, <2>2 DEF One
      <3>2. Wrap(HostNumber(1 + h_sent) + 1) = HostNumber(2 + h_sent) /\ HostNumber(2 + h_sent) \in Numbers
            /\ HostNumber(1 + h_sent) \in Numbers
        <4>1. 1 + h_sent \in 0..HostBytes + 2 /\ 2 + h_sent \in 0..HostBytes + 2 /\ 1 + h_sent + 1 = 2 + h_sent
          BY <1>7
        <4> QED BY <4>1, HostNumberFacts
      <3>3. Sent(f, FALSE, TRUE, 0) = [f EXCEPT !.proxy_next = HostNumber(2 + h_sent)]
        <4>1. f.proxy_next = HostNumber(1 + h_sent) BY <1>6, <1>7, <3>1
        <4>2. HostNumber(1 + h_sent) + 0 + 1 + 0 = HostNumber(1 + h_sent) + 1 BY <3>2 DEF Numbers
        <4> QED BY <3>2, <4>1, <4>2 DEF Sent, One
      <3> DEFINE e == Sent(f, FALSE, TRUE, 0)
      <3>4. /\ e \in Flows /\ e.phase = "connected" /\ e.guest_fin = flow.guest_fin
            /\ e.guest_next = flow.guest_next /\ e.pending_tx = Rest(k)
            /\ e.proxy_next = HostNumber(2 + h_sent)
        BY <1>6, <3>2, <3>3 DEF Flows
      <3>5. /\ flow' \in Flows /\ flow'.phase = "connected" /\ flow'.guest_fin = flow.guest_fin
            /\ flow'.guest_next = flow.guest_next /\ flow'.pending_tx = Rest(k)
            /\ flow'.proxy_next = HostNumber(2 + h_sent) /\ flow'.host_fin
        <4>1. flow' = [e EXCEPT !.host_fin = TRUE] BY <1>11, <2>2 DEF HostEnds
        <4> HIDE DEF e
        <4> QED BY <3>4, <4>1 DEF Flows
      <3>6. 1 + h_sent' + One(flow'.host_fin) = 2 + h_sent BY <1>7, <3>1, <3>5 DEF One
      <3>7. flow'.host_fin = TRUE BY <3>5 DEF Flows
      <3> QED BY <2>2, <3>1, <3>5, <3>6, <3>7
    <2>3. CASE n = 0 /\ ~fin
      <3>1. flow' = f /\ h_sent' = h_sent BY <1>4, <1>7, <1>11, <2>3
      <3>2. end => flow.host_fin BY <1>6, <2>3
      <3> QED BY <1>6, <1>7, <2>3, <3>1, <3>2
    <2> QED BY <1>7, <2>1, <2>2, <2>3
  <1>13. Taken' = Taken /\ Taken \in Int BY <1>3, <1>10, TakenStays
  <1>14. ASSUME UnAcked', NEW seg, seg.ack = flow.guest_next PROVE Acked(seg) <= Taken'
    <2>1. flow.guest_next = Number(Taken) BY <1>3, <1>10, <1>14 DEF UnAcked, IInv, UpInv
    <2>2. Taken \in 1..GuestBytes + 2
      <3>1. Taken <= guest.written + 1 /\ guest.written \in 0..GuestBytes /\ Taken \in Nat
        BY Types DEF IInv, UpInv
      <3>2. Taken = Len(h_got) + Len(flow.pending_tx) + 1 /\ Len(h_got) \in Nat /\ Len(flow.pending_tx) \in Nat
        BY Types DEF IInv, Taken
      <3>3. Taken >= 1 BY <3>2
      <3> QED BY <3>1, <3>3
    <2>3. Acked(seg) = Taken BY <1>14, <2>1, <2>2, AckedNumber
    <2> QED BY <1>13, <2>3
  <1>15. ASSUME flow.phase = "connecting" PROVE Segment(flow, TRUE, FALSE, 0, 0) \in Good'
    <2> DEFINE seg == Segment(flow, TRUE, FALSE, 0, 0)
    <2>1. 0 \in 0..MaxSegment /\ 0 \in 0..HostBytes OBVIOUS
    <2>2. flow.proxy_next \in Numbers /\ flow.guest_next \in Numbers /\ flow.proxy_next = ProxyIsn
      BY <1>15, Types DEF IInv, StartInv
    <2>3. seg \in Segments BY <2>1, <2>2, SegmentType
    <2>4. ~seg.fin /\ seg.len = 0 /\ seg.seq = ProxyIsn /\ seg.ack = flow.guest_next
      BY <2>2 DEF Segment
    <2> HIDE DEF seg
    <2>5. UnAcked' => Acked(seg) <= Taken' BY <1>14, <2>4
    <2>6. seg \in Good' BY <2>3, <2>4, <2>5 DEF Good
    <2> QED BY <2>6 DEF seg
  <1>16. ASSUME n > 0 PROVE Segment(f, FALSE, FALSE, n, h_sent + 1) \in Good'
    <2> DEFINE seg == Segment(f, FALSE, FALSE, n, h_sent + 1)
    <2>1. h_sent + 1 \in 0..HostBytes /\ h_sent + 1 + n - 1 = h_sent' /\ b = 0 /\ 1 + h_sent + b = h_sent + 1
      BY <1>4, <1>7, <1>8, <1>16 DEF One
    <2>2. f.proxy_next \in Numbers /\ f.guest_next \in Numbers BY <1>6 DEF Flows
    <2>3. seg \in Segments BY <2>1, <2>2, SegmentType
    <2>4. /\ ~seg.syn /\ ~seg.fin /\ seg.len = n /\ seg.from = h_sent + 1
          /\ seg.seq = f.proxy_next /\ seg.ack = flow.guest_next
      BY <1>6 DEF Segment
    <2>5. seg.seq = HostNumber(h_sent + 1) BY <1>6, <2>1, <2>4
    <2> HIDE DEF seg
    <2>6. UnAcked' => Acked(seg) <= Taken' BY <1>14, <2>4
    <2>7. seg.from >= 1 /\ seg.from + seg.len - 1 <= h_sent' BY <1>7, <1>8, <2>1, <2>4
    <2>8. seg \in Good' BY <2>3, <2>4, <2>5, <2>6, <2>7 DEF Good
    <2> QED BY <2>8 DEF seg
  <1>17. ASSUME n = 0, fin PROVE Segment(f, FALSE, TRUE, 0, 0) \in Good'
    <2> DEFINE seg == Segment(f, FALSE, TRUE, 0, 0)
    <2>1. 0 \in 0..MaxSegment /\ 0 \in 0..HostBytes OBVIOUS
    <2>2. f.proxy_next \in Numbers /\ f.guest_next \in Numbers BY <1>6 DEF Flows
    <2>3. seg \in Segments BY <2>1, <2>2, SegmentType
    <2>4. ~seg.syn /\ seg.len = 0 /\ seg.seq = f.proxy_next /\ seg.ack = flow.guest_next
      BY <1>6 DEF Segment
    <2>5. 1 + h_sent + b = 1 + h_sent' BY <1>4, <1>6, <1>7, <1>17 DEF One
    <2>6. seg.seq = HostNumber(1 + h_sent') BY <1>6, <2>4, <2>5
    <2>7. Ended' BY <1>10, <1>17 DEF Ended
    <2> HIDE DEF seg
    <2>8. UnAcked' => Acked(seg) <= Taken' BY <1>14, <2>4
    <2>9. seg \in Good' BY <2>3, <2>4, <2>6, <2>7, <2>8 DEF Good
    <2> QED BY <2>9 DEF seg
  <1>18. Ended => Ended' BY <1>3, <1>10 DEF Ended, Alive
  <1>19. to_guest' \in Seq(Good')
    <2>1. to_guest \in Seq(Good')
      <3>1. UnAcked' => UnAcked \/ flow.phase = "connecting" BY <1>3, <1>10 DEF UnAcked, Alive, IInv, TypeOK, Flows
      <3>2. CASE flow.phase = "connecting" BY <3>2 DEF IInv, StartInv
      <3>3. CASE flow.phase # "connecting"
        <4>1. Taken' \in Int /\ Taken <= Taken' /\ h_sent' \in Nat BY <1>8, <1>13
        <4>2. Good \subseteq Good' BY <1>8, <1>9, <1>18, <3>1, <3>3, <4>1, GoodGrows DEF IInv
        <4> QED BY <4>2, SeqMonotone DEF IInv, QueueInv
      <3> QED BY <3>2, <3>3
    <2>2. SynAck \in Seq(Good')
      <3>1. CASE flow.phase = "connecting"
        <4>1. SynAck = <<Segment(flow, TRUE, FALSE, 0, 0)>> BY <3>1 DEF SynAck
        <4> QED BY <1>15, <3>1, <4>1, SeqOne
      <3>2. CASE flow.phase # "connecting"
        <4>1. SynAck = << >> BY <3>2 DEF SynAck
        <4> QED BY <4>1
      <3> QED BY <3>1, <3>2
    <2>3. to_guest \o SynAck \in Seq(Good') BY <2>1, <2>2, SeqConcat
    <2> HIDE DEF fin
    <2>4. CASE n > 0 BY <1>12, <1>16, <2>3, <2>4, SeqAppend
    <2>5. CASE n = 0 /\ fin
      <3>1. ~(n > 0) /\ fin BY <2>5, SMT
      <3>2. to_guest' = to_guest \o SynAck \o <<Segment(f, FALSE, TRUE, 0, 0)>> BY <1>12, <3>1, Zenon
      <3>3. Segment(f, FALSE, TRUE, 0, 0) \in Good' BY <1>17, <2>5, Zenon
      <3> QED BY <2>3, <3>2, <3>3, SeqAppend
    <2>6. CASE n = 0 /\ ~fin
      <3>1. ~(n > 0) /\ ~fin BY <2>6, SMT
      <3>2. to_guest' = to_guest \o SynAck \o << >> BY <1>12, <3>1, Zenon
      <3> QED BY <2>3, <3>2, SeqConcat
    <2> QED BY <1>7, <2>4, <2>5, <2>6
  <1> QED BY <1>2, <1>3, <1>8, <1>9, <1>10, <1>18, <1>19, PollKeeps

(* An error takes what is queued with it.                                    *)
LEMMA FlowGoneInv ==
  ASSUME IInv, flow' = NoFlow, UNCHANGED <<h_sent, guest, g_got, losses>>,
         h_got' \in Seq(1..GuestBytes), \A i \in 1..Len(h_got') : h_got'[i] = i,
         Len(h_got') + 1 <= Taken, to_guest' \in Seq(Good')
  PROVE  IInv'
  <1>1. /\ flow'.phase = "none" /\ flow'.pending_tx = << >> /\ ~flow'.guest_fin /\ flow' \in Flows
    BY DEF NoFlow, Flows, Numbers
  <1>2. Taken' = Len(h_got') + 1 /\ Taken' <= Taken
    <2> DEFINE a == Len(h_got')
    <2>1. a \in Nat /\ Taken' = a + Len(<< >>) + 1 BY <1>1 DEF Taken
    <2>2. Len(<< >>) = 0 OBVIOUS
    <2> HIDE DEF a
    <2>3. Taken' = a + 1 BY <2>1, <2>2
    <2> QED BY <2>3 DEF a
  <1>3. TypeOK'
    <2>1. Good' \subseteq Segments BY DEF Good
    <2>2. to_guest' \in Seq(Segments) BY <2>1, SeqMonotone
    <2> QED BY <1>1, <2>2 DEF IInv, TypeOK
  <1>4. UpInv'
    <2>1. Taken' <= guest'.written + 1
      <3>1. Taken <= guest.written + 1 /\ guest.written \in Nat /\ Taken \in Nat BY Types DEF IInv, UpInv
      <3>2. Taken' \in Nat BY <1>2
      <3> QED BY <1>2, <3>1, <3>2
    <2> QED BY <1>1, <2>1 DEF UpInv, Alive
  <1>5. StartInv' BY <1>1 DEF IInv, StartInv
  <1>6. DownInv' BY <1>1 DEF IInv, DownInv, Ended
  <1>7. QueueInv' BY <1>1 DEF QueueInv, UnAcked
  <1> QED BY <1>3, <1>4, <1>5, <1>6, <1>7 DEF IInv

LEMMA PollErrsInv == ASSUME IInv, PollErrs PROVE IInv'
  <1>1. flow' = NoFlow /\ UNCHANGED <<h_sent, guest, g_got, losses>>
    BY DEF PollErrs, ConnectFails, PollFails
  <1>2. Good \subseteq Good'
    <2>1. ~UnAcked' /\ Ended' BY <1>1 DEF NoFlow, UnAcked, Ended
    <2> QED BY <1>1, <2>1, GoodStays DEF IInv
  <1>3. to_guest \in Seq(Good') BY <1>2, SeqMonotone DEF IInv, QueueInv
  <1>4. /\ Len(h_got) \in Nat /\ Len(flow.pending_tx) \in Nat
        /\ Taken = Len(h_got) + Len(flow.pending_tx) + 1
    BY Types DEF IInv, Taken
  <1>5. CASE ConnectFails
    <2>1. UNCHANGED <<h_got, to_guest>> BY <1>5 DEF ConnectFails
    <2>2. Len(h_got) + 1 <= Taken BY <1>4
    <2> QED BY <1>1, <1>3, <2>1, <2>2, FlowGoneInv DEF IInv, TypeOK, UpInv
  <1>6. ASSUME NEW k \in 0..GuestBytes, PollFails(k) PROVE IInv'
    <2>1. Alive /\ k \in 0..Len(flow.pending_tx) /\ HostGets(k) /\ to_guest' = to_guest \o SynAck
      BY <1>6 DEF PollFails, Alive
    <2>2. /\ h_got' \in Seq(1..GuestBytes) /\ Len(h_got') = Len(h_got) + k
          /\ \A i \in 1..Len(h_got') : h_got'[i] = i
      BY <2>1, HostGetsRun
    <2>3. Len(h_got') + 1 <= Taken
      <3> DEFINE a == Len(h_got')
                 h == Len(h_got)
                 p == Len(flow.pending_tx)
      <3>1. a = h + k /\ h \in Nat /\ p \in Nat /\ k \in 0..p /\ Taken = h + p + 1 BY <1>4, <2>1, <2>2
      <3> HIDE DEF a, h, p
      <3>2. a + 1 <= Taken BY <3>1
      <3> QED BY <3>2 DEF a
    <2>4. SynAck \in Seq(Good')
      <3>1. CASE flow.phase = "connecting"
        <4> DEFINE seg == Segment(flow, TRUE, FALSE, 0, 0)
        <4>1. SynAck = <<seg>> BY <3>1 DEF SynAck
        <4>2. flow.proxy_next \in Numbers /\ flow.guest_next \in Numbers /\ flow.proxy_next = ProxyIsn
          BY <3>1, Types DEF IInv, StartInv
        <4>3. 0 \in 0..MaxSegment /\ 0 \in 0..HostBytes OBVIOUS
        <4>4. seg \in Segments BY <4>2, <4>3, SegmentType
        <4>5. ~seg.fin /\ seg.len = 0 /\ seg.seq = ProxyIsn BY <4>2 DEF Segment
        <4>6. ~UnAcked' BY <1>1 DEF NoFlow, UnAcked
        <4> HIDE DEF seg
        <4>7. seg \in Good' BY <4>4, <4>5, <4>6 DEF Good
        <4> QED BY <4>1, <4>7, SeqOne
      <3>2. CASE flow.phase # "connecting"
        <4>1. SynAck = << >> BY <3>2 DEF SynAck
        <4> QED BY <4>1
      <3> QED BY <3>1, <3>2
    <2>5. to_guest' \in Seq(Good') BY <1>3, <2>1, <2>4, SeqConcat
    <2> QED BY <1>1, <2>2, <2>3, <2>5, FlowGoneInv
  <1> QED BY <1>5, <1>6 DEF PollErrs

-----------------------------------------------------------------------------
LEMMA SeqHeadTail ==
  ASSUME NEW S, NEW s \in Seq(S), s # << >>
  PROVE  Head(s) \in S /\ Tail(s) \in Seq(S)
  OBVIOUS

(* The guest accepts a segment under the number it expects: payload that     *)
(* continues what it has, or a FIN behind the last byte.                     *)
LEMMA Accepts ==
  ASSUME IInv, NEW seg \in Good, guest.st = "est", seg.seq = guest.rcv, ~seg.syn
  PROVE  /\ seg.len > 0 => ~guest.fin /\ ~seg.fin /\ seg.from = Len(g_got) + 1 /\ Len(g_got) + seg.len <= h_sent
         /\ seg.fin => ~guest.fin /\ seg.len = 0 /\ Len(g_got) = h_sent /\ Ended
  <1> DEFINE g == Len(g_got)
             x == 1 + g + One(guest.fin)
  <1>1. /\ g \in Nat /\ h_sent \in 0..HostBytes /\ g <= h_sent /\ seg.seq = HostNumber(x)
        /\ guest.fin => g = h_sent
    BY Types DEF IInv, DownInv
  <1>2. /\ seg.len > 0 => /\ seg.from >= 1 /\ seg.from + seg.len - 1 <= h_sent
                           /\ seg.seq = HostNumber(seg.from)
        /\ seg.fin => seg.len = 0 /\ seg.seq = HostNumber(1 + h_sent) /\ Ended
        /\ seg.len \in Nat /\ seg.from \in Nat
    BY DEF Good, Segments
  <1>3. One(guest.fin) \in {0, 1} /\ (guest.fin <=> One(guest.fin) = 1) BY DEF One
  <1> DEFINE o == One(guest.fin)
  <1> HIDE DEF g, o
  <1>4. x \in 0..HostBytes + 2 BY <1>1, <1>3 DEF o
  <1>5. ASSUME seg.len > 0 PROVE ~guest.fin /\ ~seg.fin /\ seg.from = g + 1 /\ g + seg.len <= h_sent
    <2>1. seg.from \in 0..HostBytes + 2 BY <1>1, <1>2, <1>5
    <2>2. seg.from = x BY <1>1, <1>2, <1>4, <1>5, <2>1, HostNumberFacts
    <2>3. ~seg.fin BY <1>2, <1>5
    <2> QED BY <1>1, <1>2, <1>3, <1>5, <2>2, <2>3 DEF o
  <1>6. ASSUME seg.fin PROVE ~guest.fin /\ seg.len = 0 /\ g = h_sent /\ Ended
    <2>1. 1 + h_sent \in 0..HostBytes + 2 BY <1>1
    <2>2. 1 + h_sent = x BY <1>1, <1>2, <1>4, <1>6, <2>1, HostNumberFacts
    <2> QED BY <1>1, <1>2, <1>3, <1>6, <2>2 DEF o
  <1> QED BY <1>5, <1>6 DEF g

LEMMA GuestOpens ==
  ASSUME NEW g \in Guests, NEW r \in Numbers
  PROVE  LET u == [g EXCEPT !.st = "est", !.rcv = r]
         IN  /\ u.st = "est" /\ u.written = g.written /\ u.closed = g.closed
             /\ u.una = g.una /\ u.rcv = r /\ u.fin = g.fin /\ u \in Guests
  BY DEF Guests

(* What every segment read leaves alone.                                     *)
LEMMA ReadKeeps ==
  ASSUME IInv, UNCHANGED <<flow, h_got, h_sent, losses>>, to_guest # << >>, to_guest' = Tail(to_guest),
         guest' \in Guests, guest'.written = guest.written, guest'.closed = guest.closed,
         guest'.st = "syn" => guest' = guest /\ g_got' = g_got,
         g_got' \in Seq(1..HostBytes), Len(g_got') <= h_sent, \A i \in 1..Len(g_got') : g_got'[i] = i,
         guest'.st # "syn" => guest'.rcv = HostNumber(1 + Len(g_got') + One(guest'.fin)),
         guest'.fin => Len(g_got') = h_sent /\ Ended,
         UnAcked => guest'.una <= Taken
  PROVE  IInv'
  <1>1. Good' = Good BY DEF Good, Taken, UnAcked, Ended
  <1>2. to_guest' \in Seq(Good') BY <1>1, SeqHeadTail DEF IInv, QueueInv
  <1>3. TypeOK'
    <2>1. Good' \subseteq Segments BY DEF Good
    <2>2. to_guest' \in Seq(Segments) BY <1>2, <2>1, SeqMonotone
    <2> QED BY <2>2 DEF IInv, TypeOK
  <1>4. UpInv' BY DEF IInv, UpInv, Taken, Alive
  <1>5. StartInv' BY DEF IInv, StartInv
  <1>6. DownInv' BY DEF IInv, DownInv, Ended
  <1>7. QueueInv' BY <1>2 DEF QueueInv, UnAcked, Taken
  <1> QED BY <1>3, <1>4, <1>5, <1>6, <1>7 DEF IInv

LEMMA GuestReadsInv == ASSUME IInv, GuestReads PROVE IInv'
  <1> DEFINE seg == Head(to_guest)
             una == 1 + Distance(Number(1), seg.ack)
             acked == guest.una <= una /\ una <= guest.written + One(guest.closed) + 1
             next == guest.st = "est" /\ seg.seq = guest.rcv /\ ~seg.syn
             a == IF guest.st = "est" /\ acked THEN una ELSE guest.una
             r == IF next THEN Wrap(guest.rcv + seg.len + One(seg.fin)) ELSE guest.rcv
             e == guest.fin \/ (next /\ seg.fin)
             opens == guest.st = "syn" /\ seg.syn /\ seg.ack = Number(1)
  <1>1. to_guest # << >> /\ to_guest' = Tail(to_guest) /\ UNCHANGED <<flow, h_got, h_sent, losses>>
    BY DEF GuestReads
  <1>2. seg \in Good /\ Tail(to_guest) \in Seq(Good) BY <1>1, SeqHeadTail DEF IInv, QueueInv
  <1>3. /\ seg \in Segments /\ seg.seq \in Numbers /\ seg.len \in 0..MaxSegment /\ seg.from \in 0..HostBytes
        /\ seg.fin \in BOOLEAN /\ seg.syn \in BOOLEAN /\ seg.ack \in Numbers
    BY <1>2 DEF Good, Segments
  <1>6. guest \in Guests BY DEF IInv, TypeOK
  <1>4. CASE opens
    <2>1. guest' = [guest EXCEPT !.st = "est", !.rcv = Wrap(seg.seq + 1)] BY <1>4 DEF GuestReads
    <2>2. Wrap(seg.seq + 1) = HostNumber(1) /\ HostNumber(1) \in Numbers
      BY <1>2, <1>4, HostNumberFacts DEF Good, HostNumber
    <2>3. /\ guest'.st = "est" /\ guest'.written = guest.written /\ guest'.closed = guest.closed
          /\ guest'.una = guest.una /\ guest'.rcv = HostNumber(1) /\ guest'.fin = guest.fin /\ guest' \in Guests
      <3>1. guest' = [guest EXCEPT !.st = "est", !.rcv = HostNumber(1)] BY <2>1, <2>2
      <3> QED BY <1>6, <2>2, <3>1, GuestOpens, Zenon
    <2>4. g_got = << >> /\ ~guest.fin BY <1>4 DEF IInv, StartInv
    <2>5. g_got' = g_got BY <1>4 DEF GuestReads
    <2>6. Len(g_got') = 0 /\ One(guest'.fin) = 0 /\ 1 + Len(g_got') + One(guest'.fin) = 1
      BY <2>3, <2>4, <2>5 DEF One
    <2>7. UnAcked => guest'.una <= Taken BY <2>3 DEF IInv, QueueInv
    <2>8. Len(g_got') <= h_sent /\ g_got' \in Seq(1..HostBytes) /\ \A i \in 1..Len(g_got') : g_got'[i] = i
      BY <2>5 DEF IInv, TypeOK, DownInv
    <2>9. guest'.rcv = HostNumber(1 + Len(g_got') + One(guest'.fin)) BY <2>3, <2>6
    <2> HIDE DEF seg, una, next, a, r, e, opens
    <2> QED BY <1>1, <2>3, <2>4, <2>7, <2>8, <2>9, ReadKeeps
  <1>5. CASE ~opens
    <2>1. guest' = [guest EXCEPT !.una = a, !.rcv = r, !.fin = e] BY <1>5, Zenon DEF GuestReads
    <2>2. g_got' = IF next THEN g_got \o [i \in 1..seg.len |-> seg.from + i - 1] ELSE g_got
      BY DEF GuestReads
    <2>3. a \in 1..GuestBytes + 2 /\ (UnAcked => a <= Taken)
      <3>1. /\ guest.una \in 1..GuestBytes + 2 /\ guest.written \in 0..GuestBytes /\ guest.closed \in BOOLEAN
            /\ Taken \in Nat
        BY Types DEF IInv
      <3>2. UnAcked => guest.una <= Taken BY DEF IInv, QueueInv
      <3>3. una = Acked(seg) /\ (UnAcked => Acked(seg) <= Taken) BY <1>2 DEF Acked, Good
      <3>4. una \in Int BY <1>3 DEF Distance, Number, Wrap, Numbers
      <3>5. One(guest.closed) \in {0, 1} BY DEF One
      <3> DEFINE c == One(guest.closed)
      <3> HIDE DEF una, seg, c
      <3> QED BY <3>1, <3>2, <3>3, <3>4, <3>5 DEF c
    <2>4. /\ r \in Numbers /\ g_got' \in Seq(1..HostBytes) /\ Len(g_got') <= h_sent
          /\ \A i \in 1..Len(g_got') : g_got'[i] = i
          /\ guest.st # "syn" => r = HostNumber(1 + Len(g_got') + One(e))
          /\ e => Len(g_got') = h_sent /\ Ended
      <3> DEFINE g == Len(g_got)
      <3>1. /\ g \in Nat /\ h_sent \in 0..HostBytes /\ g <= h_sent /\ guest.rcv \in Numbers
            /\ g_got \in Seq(1..HostBytes) /\ (guest.fin => g = h_sent /\ Ended)
            /\ guest.st # "syn" => guest.rcv = HostNumber(1 + g + One(guest.fin))
            /\ \A i \in 1..g : g_got[i] = i
        BY Types DEF IInv, TypeOK, DownInv
      <3>2. CASE ~next
        <4>1. r = guest.rcv /\ g_got' = g_got BY <2>2, <3>2
        <4>2. e = guest.fin BY <3>2, Types DEF IInv
        <4> HIDE DEF r, e, next, seg
        <4> QED BY <3>1, <4>1, <4>2
      <3>3. CASE next
        <4>1. /\ seg.len > 0 => ~guest.fin /\ ~seg.fin /\ seg.from = g + 1 /\ g + seg.len <= h_sent
              /\ seg.fin => ~guest.fin /\ seg.len = 0 /\ g = h_sent /\ Ended
          BY <1>2, <3>3, Accepts
        <4>2. g_got' = g_got \o [i \in 1..seg.len |-> seg.from + i - 1] BY <2>2, <3>3
        <4>3. r = Wrap(guest.rcv + seg.len + One(seg.fin)) BY <3>3
        <4>4. e = (guest.fin \/ seg.fin) BY <3>3
        <4>5. guest.rcv = HostNumber(1 + g + One(guest.fin)) BY <3>1, <3>3
        <4> HIDE DEF r, e, next, seg
        <4>6. CASE seg.len > 0
          <5> DEFINE n == seg.len
                     t == [i \in 1..n |-> seg.from + i - 1]
          <5>1. /\ n \in Nat /\ n > 0 /\ ~guest.fin /\ ~seg.fin /\ seg.from = g + 1 /\ g + n <= h_sent
            BY <1>3, <4>1, <4>6
          <5>2. \A i \in 1..n : seg.from + i - 1 = g + i /\ seg.from + i - 1 \in 1..HostBytes BY <3>1, <5>1
          <5>3. r = HostNumber(1 + g + n)
            <6>1. One(guest.fin) = 0 /\ One(seg.fin) = 0 BY <5>1 DEF One
            <6>2. HostNumber(1 + g) \in Numbers /\ Wrap(HostNumber(1 + g) + n) = HostNumber(1 + g + n)
              <7>1. 1 + g \in 0..HostBytes + 2 /\ 1 + g + n <= HostBytes + 2 BY <3>1, <5>1
              <7> QED BY <5>1, <7>1, HostNumberFacts
            <6>3. guest.rcv = HostNumber(1 + g) BY <3>1, <4>5, <6>1
            <6>4. guest.rcv + n + 0 = HostNumber(1 + g) + n BY <5>1, <6>2, <6>3 DEF Numbers
            <6> QED BY <4>3, <6>1, <6>2, <6>4
          <5>4. HostNumber(1 + g + n) \in Numbers
            <6>1. 1 + g + n \in 0..HostBytes + 2 BY <3>1, <5>1
            <6> QED BY <6>1, HostNumberFacts
          <5>5. g_got' = g_got \o t /\ e = FALSE BY <4>2, <4>4, <5>1
          <5> HIDE DEF n
          <5>6. t \in Seq(1..HostBytes) /\ Len(t) = n /\ \A i \in 1..Len(t) : t[i] = g + i
            <6>1. t \in [1..n -> 1..HostBytes] BY <5>2
            <6>2. t \in Seq(1..HostBytes) /\ Len(t) = n BY <5>1, <6>1, SeqOf
            <6> QED BY <5>2, <6>2
          <5> HIDE DEF t
          <5>7. Run(t, g) /\ Run(g_got, 0) /\ 0 + Len(g_got) = g BY <3>1, <5>6 DEF Run
          <5>8. Run(t, 0 + Len(g_got)) BY <5>7, Zenon
          <5>9. /\ g_got \o t \in Seq(1..HostBytes) /\ Len(g_got \o t) = Len(g_got) + Len(t)
                /\ Run(g_got \o t, 0)
            BY <3>1, <5>6, <5>7, <5>8, SeqRun
          <5>10. g_got' \in Seq(1..HostBytes) /\ Len(g_got') = g + n /\ \A i \in 1..Len(g_got') : g_got'[i] = i
            BY <5>5, <5>6, <5>9 DEF Run
          <5>11. One(e) = 0 /\ 1 + Len(g_got') + One(e) = 1 + g + n BY <3>1, <5>1, <5>5, <5>10 DEF One
          <5> QED BY <5>1, <5>3, <5>4, <5>5, <5>10, <5>11
        <4>7. CASE seg.len = 0 /\ seg.fin
          <5>1. ~guest.fin /\ g = h_sent /\ Ended /\ One(guest.fin) = 0 /\ One(seg.fin) = 1
            BY <4>1, <4>7 DEF One
          <5>2. HostNumber(1 + g) \in Numbers /\ Wrap(HostNumber(1 + g) + 1) = HostNumber(1 + g + 1)
            <6>1. 1 + g \in 0..HostBytes + 2 /\ 1 + g + 1 <= HostBytes + 2 BY <3>1
            <6> QED BY <6>1, HostNumberFacts
          <5>3. HostNumber(1 + g + 1) \in Numbers
            <6>1. 1 + g + 1 \in 0..HostBytes + 2 BY <3>1
            <6> QED BY <6>1, HostNumberFacts
          <5>4. guest.rcv = HostNumber(1 + g) BY <3>1, <4>5, <5>1
          <5>5. guest.rcv + 0 + 1 = HostNumber(1 + g) + 1 BY <5>2, <5>4 DEF Numbers
          <5>6. r = HostNumber(1 + g + 1) BY <4>3, <4>7, <5>1, <5>2, <5>5
          <5>7. g_got' = g_got /\ e = TRUE
            <6>1. [i \in 1..seg.len |-> seg.from + i - 1] = << >> BY <4>7
            <6>2. g_got \o << >> = g_got BY <3>1, SeqConcat
            <6> QED BY <4>2, <4>4, <4>7, <6>1, <6>2
          <5>8. One(e) = 1 /\ 1 + Len(g_got') + One(e) = 1 + g + 1 BY <5>7 DEF One
          <5> QED BY <3>1, <5>1, <5>3, <5>6, <5>7, <5>8
        <4>8. CASE seg.len = 0 /\ ~seg.fin
          <5>1. g_got' = g_got
            <6>1. [i \in 1..seg.len |-> seg.from + i - 1] = << >> BY <4>8
            <6>2. g_got \o << >> = g_got BY <3>1, SeqConcat
            <6> QED BY <4>2, <6>1, <6>2
          <5>2. e = guest.fin BY <4>4, <4>8, Types DEF IInv
          <5>3. r = guest.rcv BY <3>1, <4>3, <4>8 DEF One, Wrap, Numbers
          <5> QED BY <3>1, <5>1, <5>2, <5>3
        <4> QED BY <1>3, <4>6, <4>7, <4>8
      <3> QED BY <3>2, <3>3
    <2>5. guest.st = "syn" => a = guest.una /\ r = guest.rcv /\ e = guest.fin /\ g_got' = g_got
      BY <2>2, Types DEF IInv
    <2>6. e \in BOOLEAN BY <1>3, Types DEF IInv
    <2>7. /\ guest'.st = guest.st /\ guest'.written = guest.written /\ guest'.closed = guest.closed
          /\ guest'.una = a /\ guest'.rcv = r /\ guest'.fin = e /\ guest' \in Guests
      <3> HIDE DEF a, r, e
      <3>1. a \in 1..GuestBytes + 2 /\ r \in Numbers /\ e \in BOOLEAN BY <2>3, <2>4, <2>6
      <3>2. guest \in Guests BY <1>6
      <3>3. /\ guest'.st = guest.st /\ guest'.written = guest.written /\ guest'.closed = guest.closed
            /\ guest'.una = a /\ guest'.rcv = r /\ guest'.fin = e
        BY <2>1, <3>2, Zenon DEF Guests
      <3>4. guest' \in Guests
        BY <2>1, <3>1, <3>2, Zenon DEF Guests
      <3> QED BY <3>3, <3>4
    <2>8. guest'.st = "syn" => guest' = guest
      <3> HIDE DEF a, r, e
      <3>1. /\ guest' \in Guests /\ guest \in Guests /\ guest'.st = guest.st /\ guest'.written = guest.written
            /\ guest'.closed = guest.closed /\ guest'.una = a /\ guest'.rcv = r /\ guest'.fin = e
        BY <1>6, <2>7
      <3>2. guest.st = "syn" => a = guest.una /\ r = guest.rcv /\ e = guest.fin BY <2>5
      <3>3. ASSUME guest.st = "syn" PROVE guest' = guest
        <4>1. guest'.una = guest.una /\ guest'.rcv = guest.rcv /\ guest'.fin = guest.fin BY <3>1, <3>2, <3>3
        <4> QED BY <3>1, <4>1 DEF Guests
      <3> QED BY <3>1, <3>3
    <2> HIDE DEF seg, una, next, a, r, e, opens
    <2> QED BY <1>1, <2>3, <2>4, <2>5, <2>7, <2>8, ReadKeeps
  <1> QED BY <1>4, <1>5

-----------------------------------------------------------------------------
LEMMA NextInv == IInv /\ [Next]_vars => IInv'
  <1> SUFFICES ASSUME IInv, [Next]_vars PROVE IInv' OBVIOUS
  <1>1. CASE GuestSyn BY <1>1, GuestSynInv
  <1>2. CASE GuestWrites BY <1>2, GuestWritesInv
  <1>3. CASE GuestSegment BY <1>3, GuestSendsInv DEF GuestSegment
  <1>4. CASE GuestAborts BY <1>4, GuestAbortsInv
  <1>5. CASE GuestReads BY <1>5, GuestReadsInv
  <1>6. CASE LoseSegment BY <1>6, LoseSegmentInv
  <1>7. CASE Poll BY <1>7, PollInv
  <1>8. CASE PollErrs BY <1>8, PollErrsInv
  <1>9. CASE UNCHANGED vars
    <2> USE <1>9 DEF vars
    <2>1. TypeOK' BY DEF IInv, TypeOK
    <2>2. UpInv' BY DEF IInv, UpInv, Taken, Alive
    <2>3. StartInv' BY DEF IInv, StartInv
    <2>4. DownInv' BY DEF IInv, DownInv, Ended
    <2>5. QueueInv'
      <3>1. Good' = Good BY DEF Good, Taken, UnAcked, Ended
      <3> QED BY <3>1 DEF IInv, QueueInv, UnAcked, Taken
    <2> QED BY <2>1, <2>2, <2>3, <2>4, <2>5 DEF IInv
  <1> QED BY <1>1, <1>2, <1>3, <1>4, <1>5, <1>6, <1>7, <1>8, <1>9 DEF Next

THEOREM Invariance == Spec => []IInv
  <1>1. Init => IInv BY InitInv
  <1>2. IInv /\ [Next]_vars => IInv' BY NextInv
  <1> QED BY <1>1, <1>2, PTL DEF Spec

(* Every field keeps its type, sequence numbers stay reduced.                *)
THEOREM TypeCorrect == Spec => []TypeOK
  <1>1. IInv => TypeOK BY DEF IInv
  <1> QED BY <1>1, Invariance, PTL

(* An acknowledgement the guest has seen is never ahead of what the host has *)
(* or pending_tx keeps, while the guest has not closed.                      *)
THEOREM AcknowledgedIsKept == Spec => []AckedIsKept
  <1>1. IInv => AckedIsKept BY DEF IInv, QueueInv, UnAcked, Taken, AckedIsKept
  <1> QED BY <1>1, Invariance, PTL

(* The guest is not told of the end of the stream before its last byte.      *)
THEOREM EndIsLast == Spec => []FinIsLast
  <1>1. IInv => FinIsLast BY DEF IInv, DownInv, FinIsLast
  <1> QED BY <1>1, Invariance, PTL
-----------------------------------------------------------------------------
(* The two directions are pipes.                                             *)
Counts(s) == \A i \in 1..Len(s) : s[i] = i

LEMMA CountsAre ==
  ASSUME NEW S, NEW s \in Seq(S), Counts(s)
  PROVE  s = [i \in 1..Len(s) |-> i] /\ Len(s) \in Nat
  BY DEF Counts

LEMMA CountsGrow ==
  ASSUME NEW S, NEW s \in Seq(S), Counts(s), NEW t \in Seq(S), Counts(t), Len(s) <= Len(t)
  PROVE  t = s \/ (Len(t) \in Nat /\ Len(t) >= Len(s) + 1)
  <1>1. CASE Len(s) = Len(t)
    <2>1. s = [i \in 1..Len(s) |-> i] BY CountsAre
    <2>2. t = [i \in 1..Len(t) |-> i] BY CountsAre
    <2>3. [i \in 1..Len(t) |-> i] = [i \in 1..Len(s) |-> i] BY <1>1
    <2> QED BY <2>1, <2>2, <2>3, Zenon
  <1>2. CASE Len(s) # Len(t) BY <1>2
  <1> QED BY <1>1, <1>2

LEMMA UpStep ==
  ASSUME IInv, IInv', [Next]_vars
  PROVE  guest.written <= guest'.written /\ Len(h_got) <= Len(h_got')
  <1>1. guest.written \in Nat /\ guest'.written \in Nat /\ Len(h_got) \in Nat /\ guest \in Guests
    BY Types DEF IInv, TypeOK, Guests
  <1>2. ASSUME UNCHANGED h_got, guest'.written = guest.written PROVE guest.written <= guest'.written /\ Len(h_got) <= Len(h_got')
    BY <1>1, <1>2
  <1>3. CASE GuestSyn
    <2>1. h_got' = << >> /\ guest' = guest /\ guest.st = "syn" BY <1>3 DEF GuestSyn, tcp_open
    <2>2. Len(h_got) = 0
      <3>1. Taken <= 1 BY <2>1 DEF IInv, UpInv, StartInv
      <3>2. Len(flow.pending_tx) \in Nat /\ Taken = Len(h_got) + Len(flow.pending_tx) + 1
        BY Types DEF IInv, Taken
      <3> DEFINE p == Len(flow.pending_tx)
                 h == Len(h_got)
      <3> HIDE DEF p, h
      <3>3. h = 0 BY <1>1, <3>1, <3>2 DEF p, h
      <3> QED BY <3>3 DEF h
    <2>3. Len(<< >>) = 0 OBVIOUS
    <2> QED BY <1>1, <2>1, <2>2, <2>3
  <1>4. CASE GuestWrites
    <2>1. guest'.written \in {guest.written, guest.written + 1} /\ h_got' = h_got
      BY <1>1, <1>4 DEF GuestWrites, Guests
    <2> QED BY <1>1, <2>1
  <1>5. CASE GuestSegment BY <1>2, <1>5 DEF GuestSegment, GuestSends, tcp_out
  <1>6. CASE GuestAborts
    <2>1. guest'.written = guest.written /\ h_got' = h_got BY <1>1, <1>6 DEF GuestAborts, Guests
    <2> QED BY <1>2, <2>1
  <1>7. CASE GuestReads
    <2>1. h_got' = h_got BY <1>7 DEF GuestReads
    <2>2. guest'.written = guest.written BY <1>1, <1>7, Zenon DEF GuestReads, Guests
    <2> QED BY <1>2, <2>1, <2>2
  <1>8. CASE LoseSegment BY <1>2, <1>8 DEF LoseSegment
  <1>9. ASSUME NEW k \in 0..Len(flow.pending_tx), HostGets(k), guest' = guest
        PROVE  guest.written <= guest'.written /\ Len(h_got) <= Len(h_got')
    <2>1. Len(h_got') = Len(h_got) + k /\ k \in Nat BY <1>9, HostGetsRun
    <2> QED BY <1>1, <1>9, <2>1
  <1>10. CASE Poll BY <1>9, <1>10 DEF Poll, poll_tcp
  <1>11. CASE PollErrs
    <2>1. CASE ConnectFails BY <1>2, <1>11, <2>1 DEF PollErrs, ConnectFails
    <2>2. CASE ~ConnectFails BY <1>9, <1>11, <2>2 DEF PollErrs, PollFails
    <2> QED BY <2>1, <2>2
  <1>12. CASE UNCHANGED vars BY <1>2, <1>12 DEF vars
  <1> QED BY <1>3, <1>4, <1>5, <1>6, <1>7, <1>8, <1>10, <1>11, <1>12 DEF Next

(* Towards the host: every byte once, in order, whatever the guest repeats.  *)
THEOREM UpwardPipe == Spec => UpSpec
  <1>1. Init => Upward!Init BY DEF Init, Upward!Init
  <1>2. IInv /\ IInv' /\ [Next]_vars => [Upward!Next]_(Upward!vars)
    <2> SUFFICES ASSUME IInv, IInv', [Next]_vars PROVE [Upward!Next]_(Upward!vars) OBVIOUS
    <2>1. guest.written <= guest'.written /\ Len(h_got) <= Len(h_got') BY UpStep
    <2>2. h_got \in Seq(1..GuestBytes) /\ Counts(h_got) /\ h_got' \in Seq(1..GuestBytes) /\ Counts(h_got')
      BY DEF IInv, TypeOK, UpInv, Counts
    <2>3. guest.written \in Nat /\ guest'.written \in Nat BY DEF IInv, TypeOK, Guests
    <2>4. Len(h_got') \in Nat /\ Len(h_got') <= guest'.written
      <3> DEFINE h == Len(h_got')
                 p == Len(flow'.pending_tx)
      <3>1. h \in Nat /\ p \in Nat BY DEF IInv, TypeOK, Flows
      <3>2. Taken' = h + p + 1 /\ Taken' <= guest'.written + 1 BY DEF IInv, UpInv, Taken
      <3> HIDE DEF h, p
      <3>3. h <= guest'.written BY <2>3, <3>1, <3>2
      <3> QED BY <3>1, <3>3 DEF h
    <2>5. CASE h_got' = h_got
      <3>1. CASE guest'.written = guest.written BY <2>5, <3>1 DEF Upward!vars
      <3>2. CASE guest'.written > guest.written BY <2>3, <2>5, <3>2 DEF Upward!Next, Upward!Offer
      <3> QED BY <2>1, <2>3, <3>1, <3>2
    <2>6. CASE Len(h_got') >= Len(h_got) + 1
      <3>1. Len(h_got) \in Nat /\ h_got' = [i \in 1..Len(h_got') |-> i] BY <2>2, CountsAre
      <3>2. Len(h_got') \in Len(h_got) + 1 .. guest'.written BY <2>3, <2>4, <2>6, <3>1
      <3> QED BY <2>1, <2>3, <3>1, <3>2 DEF Upward!Next, Upward!Take
    <2> QED BY <2>1, <2>2, <2>5, <2>6, CountsGrow
  <1> QED BY <1>1, <1>2, Invariance, PTL DEF Spec, UpSpec, Upward!Spec

LEMMA DownStep ==
  ASSUME IInv, IInv', [Next]_vars, ~(GuestSyn /\ g_got = << >>)
  PROVE  h_sent <= h_sent' /\ Len(g_got) <= Len(g_got')
  <1>1. Len(g_got) \in Nat /\ h_sent \in Nat BY Types DEF IInv
  <1>2. ASSUME UNCHANGED <<h_sent, g_got>> PROVE h_sent <= h_sent' /\ Len(g_got) <= Len(g_got')
    BY <1>1, <1>2
  <1>3. CASE GuestSyn BY <1>3 DEF GuestSyn, IInv, StartInv
  <1>4. CASE GuestWrites BY <1>2, <1>4 DEF GuestWrites
  <1>5. CASE GuestSegment BY <1>2, <1>5 DEF GuestSegment, GuestSends, tcp_out
  <1>6. CASE GuestAborts BY <1>2, <1>6 DEF GuestAborts
  <1>7. CASE GuestReads
    <2> DEFINE seg == Head(to_guest)
               t == [i \in 1..seg.len |-> seg.from + i - 1]
    <2>1. h_sent' = h_sent /\ (g_got' = g_got \/ g_got' = g_got \o t) BY <1>7, Zenon DEF GuestReads
    <2>2. seg \in Segments BY <1>7, SeqHeadTail DEF GuestReads, IInv, TypeOK
    <2>3. seg.len \in Nat /\ seg.from \in Nat BY <2>2 DEF Segments
    <2> HIDE DEF seg
    <2>4. t \in [1..seg.len -> Int] BY <2>3
    <2> HIDE DEF t
    <2>5. t \in Seq(Int) /\ Len(t) = seg.len BY <2>3, <2>4, SeqOf
    <2>6. g_got \in Seq(Int)
      <3>1. g_got \in Seq(1..HostBytes) /\ 1..HostBytes \subseteq Int BY DEF IInv, TypeOK
      <3> QED BY <3>1, SeqMonotone
    <2>7. Len(g_got \o t) = Len(g_got) + Len(t) BY <2>5, <2>6, SeqConcat
    <2> QED BY <1>1, <2>1, <2>3, <2>5, <2>7
  <1>8. CASE LoseSegment BY <1>2, <1>8 DEF LoseSegment
  <1>9. CASE Poll
    <2>1. PICK n \in 0..MaxSegment : h_sent' = h_sent + n /\ g_got' = g_got BY <1>9 DEF Poll, poll_tcp
    <2>2. n \in Nat OBVIOUS
    <2>3. Len(g_got') = Len(g_got) BY <2>1
    <2> QED BY <1>1, <2>1, <2>2, <2>3
  <1>10. CASE PollErrs BY <1>2, <1>10 DEF PollErrs, ConnectFails, PollFails
  <1>11. CASE UNCHANGED vars BY <1>2, <1>11 DEF vars
  <1> QED BY <1>3, <1>4, <1>5, <1>6, <1>7, <1>8, <1>9, <1>10, <1>11 DEF Next

(* Towards the guest: what recv returned, each byte once and in order.       *)
THEOREM DownwardPipe == Spec => DownSpec
  <1>1. Init => Downward!Init BY DEF Init, Downward!Init
  <1>2. IInv /\ IInv' /\ [Next]_vars => [Downward!Next]_(Downward!vars)
    <2> SUFFICES ASSUME IInv, IInv', [Next]_vars PROVE [Downward!Next]_(Downward!vars) OBVIOUS
    <2>1. CASE GuestSyn /\ g_got = << >>
      BY <2>1 DEF GuestSyn, tcp_open, Downward!Next, Downward!Replace
    <2>2. CASE ~(GuestSyn /\ g_got = << >>)
      <3>1. h_sent <= h_sent' /\ Len(g_got) <= Len(g_got') BY <2>2, DownStep
      <3>2. g_got \in Seq(1..HostBytes) /\ Counts(g_got) /\ g_got' \in Seq(1..HostBytes) /\ Counts(g_got')
        BY DEF IInv, TypeOK, DownInv, Counts
      <3>3. h_sent \in Nat /\ h_sent' \in Nat /\ Len(g_got') <= h_sent' BY DEF IInv, TypeOK, DownInv
      <3>4. CASE g_got' = g_got
        <4>1. CASE h_sent' = h_sent BY <3>4, <4>1 DEF Downward!vars
        <4>2. CASE h_sent' > h_sent BY <3>3, <3>4, <4>2 DEF Downward!Next, Downward!Offer
        <4> QED BY <3>1, <3>3, <4>1, <4>2
      <3>5. CASE Len(g_got') >= Len(g_got) + 1
        <4>1. Len(g_got) \in Nat /\ g_got' = [i \in 1..Len(g_got') |-> i] /\ Len(g_got') \in Nat
          BY <3>2, CountsAre
        <4>2. Len(g_got') \in Len(g_got) + 1 .. h_sent' BY <3>3, <3>5, <4>1
        <4> QED BY <3>1, <3>3, <4>1, <4>2 DEF Downward!Next, Downward!Take
      <3> QED BY <3>1, <3>2, <3>4, <3>5, CountsGrow
    <2> QED BY <2>1, <2>2
  <1> QED BY <1>1, <1>2, Invariance, PTL DEF Spec, DownSpec, Downward!Spec

-----------------------------------------------------------------------------
(* Why retransmission gets somewhere.  That it does in the end (liveness) is *)
(* beyond the prover; this is the step it rests on.                          *)
LEMMA SeqLast ==
  ASSUME NEW S, NEW s \in Seq(S), NEW e
  PROVE  LET t == s \o <<e>> IN Len(t) = Len(s) + 1 /\ t[Len(t)] = e
  OBVIOUS

LEMMA ResendTakes ==
  ASSUME IInv, UnAcked, NEW n \in Nat, n > 0, guest.una + n - 1 <= guest.written
  PROVE  LET f == TakeData(flow, guest.una, n)
             taken == Len(h_got) + Len(f.pending_tx) + 1
         IN  /\ f.guest_next = Number(taken)
             /\ taken \in Nat /\ guest.una < taken /\ taken <= guest.written + 1
  <1> DEFINE f == TakeData(flow, guest.una, n)
             h == Len(h_got)
             p == flow.pending_tx
             taken == h + Len(f.pending_tx) + 1
  <1>1. /\ guest.una \in 1..GuestBytes + 1 /\ guest.written \in 0..GuestBytes /\ guest.una <= Taken
        /\ flow.phase = "connected" /\ ~flow.guest_fin /\ h \in Nat /\ Len(p) \in Nat /\ Taken = h + Len(p) + 1
    <2>1. guest.una \in 1..GuestBytes + 2 /\ guest.written \in 0..GuestBytes
      BY DEF IInv, TypeOK, Guests
    <2>2. guest.una \in 1..GuestBytes + 1 BY <2>1
    <2> QED BY <2>1, <2>2, Types DEF IInv, QueueInv, UnAcked, Taken
  <1>2. UpFlow(f) BY <1>1, UpFlowData
  <1>3. ~f.guest_fin BY <1>1 DEF TakeData, IInv, TypeOK, Flows
  <1>4. f.guest_next = Number(taken) BY <1>2, <1>3 DEF UpFlow
  <1>5. Len(f.pending_tx) \in Nat BY <1>2, UpFlowLen
  <1>6. Len(p) <= Len(f.pending_tx) /\ h + Len(f.pending_tx) <= guest.written BY <1>2 DEF UpFlow
  <1>7. ASSUME guest.una = Taken PROVE Len(f.pending_tx) = Len(p) + n
    <2>1. flow.guest_next = Number(guest.una) BY <1>1, <1>7 DEF IInv, UpInv, Alive
    <2>2. Skip(flow, Number(guest.una), n) = 0
      <3>1. guest.una \in 0..GuestBytes + 2 BY <1>1
      <3>2. ~tcp_seq_before(Number(guest.una), Number(guest.una)) BY <3>1, NumberDistance
      <3> QED BY <2>1, <3>2 DEF Skip
    <2> DEFINE new == [i \in 1..n |-> guest.una + i - 1]
    <2>3. f.pending_tx = p \o [i \in 1..n - 0 |-> guest.una + 0 + i - 1]
      BY <2>2 DEF TakeData, IInv, TypeOK, Flows
    <2>4. new \in Seq(Int) /\ Len(new) = n BY <1>1, SeqOf
    <2>5. [i \in 1..n - 0 |-> guest.una + 0 + i - 1] = new BY <1>1
    <2>6. p \in Seq(Int)
      <3>1. p \in Seq(1..GuestBytes) /\ 1..GuestBytes \subseteq Int BY DEF IInv, TypeOK, Flows
      <3> QED BY <3>1, SeqMonotone
    <2> HIDE DEF new, p, f
    <2>7. Len(f.pending_tx) = Len(p) + n BY <2>3, <2>4, <2>5, <2>6, SeqConcat
    <2> QED BY <2>7 DEF f, p
  <1> DEFINE u == guest.una
             w == guest.written
             k == Len(f.pending_tx)
             j == Len(p)
             t == Taken
  <1>8. /\ u \in Nat /\ w \in Nat /\ h \in Nat /\ k \in Nat /\ j \in Nat
        /\ u <= t /\ t = h + j + 1 /\ j <= k /\ h + k <= w
        /\ u = t => k = j + n
    BY <1>1, <1>5, <1>6, <1>7, TcpAssumption
  <1>9. taken = h + k + 1 OBVIOUS
  <1> HIDE DEF u, w, h, k, j, t, taken
  <1>10. taken \in Nat /\ u < taken /\ taken <= w + 1 BY <1>8, <1>9
  <1> QED BY <1>4, <1>10 DEF u, w, h, k, taken

ResendAnswered ==
  [][GuestResends /\ UnAcked =>
       LET answer == to_guest'[Len(to_guest')]
       IN  /\ Len(to_guest') = Len(to_guest) + 1 /\ answer.ack = flow'.guest_next
           /\ Acked(answer) = Taken'
           /\ guest.una < Taken' /\ Taken' <= guest.written + 1]_vars

(* As long as the guest has not closed, a retransmission of what it has not   *)
(* seen acknowledged, whatever the bridge has of it already, is answered by   *)
(* an acknowledgement that goes further: tcp_out skips what is there, takes   *)
(* the rest, and acknowledges exactly what the host has or pending_tx keeps.  *)
THEOREM ResendsAreAnswered == Spec => ResendAnswered
  <1>1. ASSUME IInv, GuestResends, UnAcked
        PROVE  LET answer == to_guest'[Len(to_guest')]
               IN  /\ Len(to_guest') = Len(to_guest) + 1 /\ answer.ack = flow'.guest_next
                   /\ Acked(answer) = Taken'
                   /\ guest.una < Taken' /\ Taken' <= guest.written + 1
    <2>1. PICK n \in 1..MaxSegment : GuestSends(guest.una, n, FALSE) BY <1>1 DEF GuestResends
    <2> DEFINE f == TakeData(flow, guest.una, n)
               taken == Len(h_got) + Len(f.pending_tx) + 1
    <2>2. n \in Nat /\ n > 0 /\ guest.una + n - 1 <= guest.written /\ h_got' = h_got
      BY <2>1 DEF GuestSends, tcp_out
    <2>3. /\ f.guest_next = Number(taken)
          /\ taken \in Nat /\ guest.una < taken /\ taken <= guest.written + 1
      BY <1>1, <2>2, ResendTakes
    <2>4. flow' = f /\ to_guest' = to_guest \o <<Ack(f)>> \o << >>
      BY <1>1, <2>1, <2>2 DEF GuestSends, tcp_out, UnAcked
    <2> HIDE DEF f
    <2>5. Taken' = taken BY <2>2, <2>4 DEF Taken
    <2>6. to_guest \in Seq(Segments) BY <1>1 DEF IInv, TypeOK
    <2>7. to_guest' = to_guest \o <<Ack(f)>> BY <2>4
    <2>8. Len(to_guest') = Len(to_guest) + 1 /\ to_guest'[Len(to_guest')] = Ack(f)
      BY <2>6, <2>7, SeqLast
    <2>9. Ack(f).ack = f.guest_next BY DEF Ack, Segment
    <2>10. taken \in 1..GuestBytes + 2
      <3>1. guest.una \in 1..GuestBytes + 2 /\ guest.written \in 0..GuestBytes
        BY <1>1 DEF IInv, TypeOK, Guests
      <3> QED BY <2>3, <3>1
    <2> HIDE DEF taken
    <2>11. Acked(Ack(f)) = taken BY <2>3, <2>9, <2>10, AckedNumber
    <2> QED BY <2>3, <2>4, <2>5, <2>8, <2>9, <2>11
  <1>2. IInv /\ [Next]_vars => [GuestResends /\ UnAcked =>
          LET answer == to_guest'[Len(to_guest')]
          IN  /\ Len(to_guest') = Len(to_guest) + 1 /\ answer.ack = flow'.guest_next
              /\ Acked(answer) = Taken'
              /\ guest.una < Taken' /\ Taken' <= guest.written + 1]_vars
    BY <1>1
  <1> QED BY <1>2, Invariance, PTL DEF Spec, ResendAnswered
=============================================================================
