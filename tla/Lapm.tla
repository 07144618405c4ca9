-------------------------------- MODULE Lapm --------------------------------
(***************************************************************************)
(* The link layer of the network plugin (dcr_network.cpp): the bridge's end *)
(* of a V.42/LAPM connection, a sliding window with go-back-N over a line   *)
(* that drops damaged frames.  v42_handle_frame takes a frame of the guest, *)
(* v42_pump_to_guest sends what PPP has queued; both run on the emulation   *)
(* thread, so each call is one step.                                       *)
(*                                                                         *)
(* The guest's end is external: a LAPM peer that accepts frames in order,   *)
(* answers each, rejects once per gap, may be busy, backs up to its first   *)
(* unacknowledged frame by a timer, and may set the link up anew.  It        *)
(* repeats a SABME only when its timer has outlasted both lines.            *)
(*                                                                         *)
(* A unit is what one I-frame carries: the octets v42_pump_to_guest takes   *)
(* from v42_ppp_to_guest, at most v42_tx_max_size, travel together ever     *)
(* after.  Units are numbered from 1 in the order they are put into frames; *)
(* 0 is none.  Bits, flags, stuffing and checksums of the lines are left    *)
(* out: a frame arrives whole or, at most MaxLosses times, not at all.      *)
(***************************************************************************)
EXTENDS Integers, Sequences

CONSTANTS
  Modulus,      \* of the sequence numbers: 128
  MaxWindow,    \* the greatest window XID can set: 31
  FirstWindow,  \* the window before XID: 15
  GuestWindow,  \* of the guest
  PppUnits,     \* bound: units PPP queues for the guest
  GuestUnits,   \* bound: units the guest sends
  SerialLimit,  \* frames in backend_serial that stop new I-frames (256 octets)
  WireLimit,    \* bound: frames the guest has on its way before it sends more
  MaxLosses,    \* bound: frames lost
  MaxSetups     \* bound: connections

ASSUME LapmAssumption ==
  /\ {Modulus, MaxWindow, FirstWindow, GuestWindow, SerialLimit, WireLimit} \subseteq Nat \ {0}
  /\ MaxWindow < Modulus /\ FirstWindow <= MaxWindow /\ GuestWindow < Modulus
  /\ {PppUnits, GuestUnits, MaxLosses, MaxSetups} \subseteq Nat

VARIABLES
  v42,        \* the v42_ fields of NetState
  queued,     \* units PPP has put into v42_ppp_to_guest
  framed,     \* of them, units taken out and sent in an I-frame
  to_guest,   \* backend_serial, as frames
  ppp_got,    \* units handed to ppp_serial_write on this connection
  to_bridge,  \* frames of the guest on their way
  guest,      \* the guest's end
  g_got,      \* units the guest has accepted on its connection
  base,       \* units of former connections, downward and upward
  losses, setups

vars == <<v42, queued, framed, to_guest, ppp_got, to_bridge, guest, g_got, base, losses, setups>>

line == <<losses, setups>>

Numbers == 0..Modulus - 1

Number(k) == k % Modulus

AdvanceUnwrapped(s) == s + 1

Advance(s) == Number(s + 1)

v42_seq_distance(from, to) == (to + Modulus - from) % Modulus

Frame(type, ns, nr, arg) == [type |-> type, ns |-> ns, nr |-> nr, arg |-> arg]

(* A frame without numbers; arg is the window of an XID.                    *)
UFrame(type, arg) == Frame(type, 0, 0, arg)

(* A supervisory frame; arg is the poll bit.                                *)
SFrame(type, nr, poll) == Frame(type, 0, nr, poll)

IFrame(ns, nr, unit) == Frame("I", ns, nr, unit)

-----------------------------------------------------------------------------
(***************************************************************************)
(* v42_ack_to: everything before nr is acknowledged, unless nr lies beyond *)
(* what was sent.                                                          *)
(***************************************************************************)
AckThrough(l, nr) ==
  IF v42_seq_distance(l.tx_ack, nr) <= v42_seq_distance(l.tx_ack, l.tx_seq)
  THEN [l EXCEPT !.tx_ack = nr,
                 !.sent = [s \in Numbers |->
                    IF v42_seq_distance(l.tx_ack, s) <= v42_seq_distance(l.tx_ack, nr) THEN 0 ELSE @[s]]]
  ELSE l

v42_ack_to(l, nr) ==
  IF v42_seq_distance(l.tx_ack, nr) <= v42_seq_distance(l.tx_ack, l.tx_seq)
  THEN [l EXCEPT !.tx_ack = nr,
                 !.sent = [s \in Numbers |->
                    IF v42_seq_distance(l.tx_ack, s) < v42_seq_distance(l.tx_ack, nr) THEN 0 ELSE @[s]]]
  ELSE l

(***************************************************************************)
(* v42_retransmit_from: every stored frame from nr up to tx_seq.  Stored    *)
(* are the numbers from tx_ack on (StoredAreOutstanding), so what the loop  *)
(* skips is the way from nr to tx_ack.                                      *)
(***************************************************************************)
RetransmitNothing(l, nr) == << >>

v42_retransmit_from(l, nr) ==
  LET skipped == IF l.sent[nr] = 0 THEN v42_seq_distance(nr, l.tx_ack) ELSE 0
      seq(i) == Number(nr + skipped + i - 1)
  IN  [i \in 1..v42_seq_distance(nr, l.tx_seq) - skipped |-> IFrame(seq(i), l.rx_seq, l.sent[seq(i)])]

ResetNumbers(l) == [l EXCEPT !.tx_seq = 0, !.rx_seq = 0, !.tx_ack = 0, !.ready = TRUE]

ResetTransmitter(l) ==
  [l EXCEPT !.tx_seq = 0, !.tx_ack = 0, !.ready = TRUE, !.sent = [s \in Numbers |-> 0]]

v42_reset_link_state(l) ==
  [l EXCEPT !.tx_seq = 0, !.rx_seq = 0, !.tx_ack = 0, !.ready = TRUE, !.sent = [s \in Numbers |-> 0]]

-----------------------------------------------------------------------------
(***************************************************************************)
(* v42_handle_frame, one operator for each kind of frame: the link after    *)
(* the frame, and the answer.                                              *)
(***************************************************************************)
HandleSabme ==
  /\ v42' = v42_reset_link_state([v42 EXCEPT !.phase = "connected"])
  /\ to_guest' = Append(to_guest, UFrame("UA", 0))
  /\ ppp_got' = << >>
  /\ base' = [down |-> framed, up |-> guest.base]

HandleXid(f) ==
  /\ v42' = [v42 EXCEPT !.window = f.arg]
  /\ to_guest' = Append(to_guest, f)
  /\ UNCHANGED <<ppp_got, base>>

HandleDisc ==
  /\ v42' = [v42 EXCEPT !.phase = "release"]
  /\ to_guest' = Append(to_guest, UFrame("UA", 0))
  /\ UNCHANGED <<ppp_got, base>>

(* A REJ goes back even when its number acknowledges nothing that is        *)
(* outstanding; a SREJ does not end a pause.                                *)
HandleSupervisory(f) ==
  LET l == v42_ack_to(v42, f.nr)
  IN  /\ v42' = [l EXCEPT !.ready = CASE f.type \in {"RR", "REJ"} -> TRUE
                                      [] f.type = "RNR" -> FALSE
                                      [] OTHER -> @]
      /\ to_guest' = to_guest \o
           (CASE f.type = "REJ" -> v42_retransmit_from(l, f.nr)
              [] f.type = "SREJ" /\ l.sent[f.nr] # 0 -> <<IFrame(f.nr, l.rx_seq, l.sent[f.nr])>>
              [] OTHER -> << >>)
      /\ UNCHANGED <<ppp_got, base>>

AnyOrder(l, f) == TRUE

InOrder(l, f) == f.ns = l.rx_seq

(* The answer to an I-frame, from the link after it.                        *)
Answer(l, f) ==
  IF InOrder(v42, f) THEN <<SFrame("RR", l.rx_seq, 0)>> ELSE <<SFrame("REJ", l.rx_seq, 0)>>

HandleInformation(f) ==
  LET l == [v42_ack_to(v42, f.nr) EXCEPT
              !.phase = "connected", !.rx_seq = IF InOrder(v42, f) THEN Advance(@) ELSE @]
  IN  /\ v42' = l
      /\ ppp_got' = IF InOrder(v42, f) THEN Append(ppp_got, f.arg) ELSE ppp_got
      /\ to_guest' = to_guest \o Answer(l, f)
      /\ UNCHANGED base

v42_handle_frame ==
  /\ to_bridge # << >>
  /\ to_bridge' = Tail(to_bridge)
  /\ LET f == Head(to_bridge)
     IN  \/ f.type = "SABME" /\ HandleSabme
         \/ f.type = "XID" /\ HandleXid(f)
         \/ f.type = "DISC" /\ HandleDisc
         \/ f.type \in {"RR", "RNR", "REJ", "SREJ"} /\ HandleSupervisory(f)
         \/ f.type = "I" /\ HandleInformation(f)
  /\ UNCHANGED <<queued, framed, guest, g_got, line>>

-----------------------------------------------------------------------------
(***************************************************************************)
(* v42_pump_to_guest: a new I-frame, or, when a second has passed without   *)
(* traffic, an RR with the poll bit.                                       *)
(***************************************************************************)
WindowOverrun(l) == v42_seq_distance(l.tx_ack, l.tx_seq) <= l.window

WindowOpen(l) == v42_seq_distance(l.tx_ack, l.tx_seq) < l.window

Pump ==
  /\ v42.phase = "connected" /\ framed < queued /\ Len(to_guest) < SerialLimit
  /\ v42.ready /\ WindowOpen(v42)
  /\ framed' = framed + 1
  /\ v42' = [v42 EXCEPT !.sent[v42.tx_seq] = framed + 1, !.tx_seq = Advance(@)]
  /\ to_guest' = Append(to_guest, IFrame(v42.tx_seq, v42.rx_seq, framed + 1))
  /\ UNCHANGED <<queued, ppp_got, to_bridge, guest, g_got, base, line>>

Poll ==
  /\ v42.phase = "connected" /\ framed = queued /\ to_guest = << >> /\ to_bridge = << >>
  /\ to_guest' = <<SFrame("RR", v42.rx_seq, 1)>>
  /\ UNCHANGED <<v42, queued, framed, ppp_got, to_bridge, guest, g_got, base, line>>

(* ppp_queue_bytes.                                                         *)
PppQueues ==
  /\ queued < PppUnits
  /\ queued' = queued + 1
  /\ UNCHANGED <<v42, framed, to_guest, ppp_got, to_bridge, guest, g_got, base, line>>

-----------------------------------------------------------------------------
(***************************************************************************)
(* The guest.  Its counters are absolute within a connection: sent frames,  *)
(* acked of them, and the next it sends, which a timer or a REJ moves back. *)
(***************************************************************************)
Quiet == to_bridge = << >> /\ to_guest = << >>

GuestSetsUp ==
  /\ setups < MaxSetups
  /\ guest.st \in {"setup", "release"} => Quiet
  /\ setups' = setups + 1
  /\ guest' = [st |-> "setup", base |-> guest.base + guest.sent, sent |-> 0, next |-> 0, acked |-> 0,
               rej |-> FALSE, busy |-> FALSE]
  /\ g_got' = << >>
  /\ to_bridge' = Append(to_bridge, UFrame("SABME", 0))
  /\ UNCHANGED <<v42, queued, framed, to_guest, ppp_got, base, losses>>

GuestNegotiates(w) ==
  /\ guest.st = "down" /\ Quiet /\ w # v42.window
  /\ to_bridge' = <<UFrame("XID", w)>>
  /\ UNCHANGED <<v42, queued, framed, to_guest, ppp_got, guest, g_got, base, line>>

GuestReleases ==
  /\ guest.st = "up"
  /\ guest' = [guest EXCEPT !.st = "release"]
  /\ to_bridge' = Append(to_bridge, UFrame("DISC", 0))
  /\ UNCHANGED <<v42, queued, framed, to_guest, ppp_got, g_got, base, line>>

GuestSends ==
  /\ guest.st = "up" /\ Len(to_bridge) < WireLimit
  /\ guest.next < guest.acked + GuestWindow /\ guest.base + guest.next < GuestUnits
  /\ to_bridge' = Append(to_bridge, IFrame(Number(guest.next), Number(Len(g_got)), guest.base + guest.next + 1))
  /\ guest' = [guest EXCEPT !.next = @ + 1, !.sent = IF @ = guest.next THEN @ + 1 ELSE @]
  /\ UNCHANGED <<v42, queued, framed, to_guest, ppp_got, g_got, base, line>>

(* Its timer outlasts the lines.                                            *)
GuestBacksUp ==
  /\ guest.st = "up" /\ guest.acked < guest.next /\ Quiet
  /\ guest' = [guest EXCEPT !.next = guest.acked]
  /\ UNCHANGED <<v42, queued, framed, to_guest, ppp_got, to_bridge, g_got, base, line>>

(* The guest can take frames again: it asks for what it threw away.         *)
GuestReady ==
  /\ guest.st = "up" /\ guest.busy
  /\ guest' = [guest EXCEPT !.busy = FALSE, !.rej = TRUE]
  /\ to_bridge' = Append(to_bridge, SFrame("REJ", Number(Len(g_got)), 0))
  /\ UNCHANGED <<v42, queued, framed, to_guest, ppp_got, g_got, base, line>>

(* Acknowledgements come with every numbered frame.                         *)
Acked(nr) ==
  LET x == guest.acked + v42_seq_distance(Number(guest.acked), nr)
  IN  IF x <= guest.sent THEN x ELSE guest.acked

Later(a, b) == IF a >= b THEN a ELSE b

GuestHearsInformation(f) ==
  LET g == [guest EXCEPT !.acked = Acked(f.nr), !.next = Later(@, Acked(f.nr))]
      replies(type) == to_bridge' = Append(to_bridge, SFrame(type, Number(Len(g_got')), 0))
  IN  \/ /\ guest.busy
         /\ guest' = g /\ UNCHANGED <<g_got, to_bridge>>
      \/ /\ ~guest.busy /\ f.ns = Number(Len(g_got))
         /\ g_got' = Append(g_got, f.arg)
         /\ \/ guest' = [g EXCEPT !.rej = FALSE] /\ replies("RR")
            \/ guest' = [g EXCEPT !.rej = FALSE, !.busy = TRUE] /\ replies("RNR")
      \/ /\ ~guest.busy /\ f.ns # Number(Len(g_got)) /\ UNCHANGED g_got
         /\ \/ guest.rej /\ guest' = g /\ UNCHANGED to_bridge
            \/ ~guest.rej /\ guest' = [g EXCEPT !.rej = TRUE] /\ (replies("REJ") \/ replies("SREJ"))

GuestHearsSupervisory(f) ==
  /\ guest' = [guest EXCEPT !.acked = Acked(f.nr),
                            !.next = IF f.type = "REJ" THEN Acked(f.nr) ELSE Later(@, Acked(f.nr))]
  /\ to_bridge' = IF f.arg = 1
                  THEN Append(to_bridge, SFrame(IF guest.busy THEN "RNR" ELSE "RR", Number(Len(g_got)), 0))
                  ELSE to_bridge
  /\ UNCHANGED g_got

(* Without a connection only an UA is heard.                                *)
GuestHears ==
  /\ to_guest # << >>
  /\ to_guest' = Tail(to_guest)
  /\ LET f == Head(to_guest)
     IN  \/ guest.st = "up" /\ f.type = "I" /\ GuestHearsInformation(f)
         \/ guest.st = "up" /\ f.type \in {"RR", "REJ"} /\ GuestHearsSupervisory(f)
         \/ /\ f.type = "UA" /\ guest.st \in {"setup", "release"}
            /\ guest' = [guest EXCEPT !.st = IF @ = "setup" THEN "up" ELSE "down"]
            /\ UNCHANGED <<g_got, to_bridge>>
         \/ /\ guest.st = "up" => f.type \in {"UA", "XID"}
            /\ guest.st \in {"setup", "release"} => f.type # "UA"
            /\ UNCHANGED <<guest, g_got, to_bridge>>
  /\ UNCHANGED <<v42, queued, framed, ppp_got, base, line>>

(* A damaged frame fails its checksum and is dropped by its receiver.       *)
LoseFrame ==
  /\ losses < MaxLosses /\ losses' = losses + 1
  /\ \/ to_guest # << >> /\ to_guest' = Tail(to_guest) /\ UNCHANGED to_bridge
     \/ to_bridge # << >> /\ to_bridge' = Tail(to_bridge) /\ UNCHANGED to_guest
  /\ UNCHANGED <<v42, queued, framed, ppp_got, guest, g_got, base, setups>>

-----------------------------------------------------------------------------
Init ==
  /\ v42 = [phase |-> "establish", tx_seq |-> 0, rx_seq |-> 0, tx_ack |-> 0, ready |-> TRUE,
            window |-> FirstWindow, sent |-> [s \in Numbers |-> 0]]
  /\ queued = 0 /\ framed = 0 /\ to_guest = << >> /\ ppp_got = << >>
  /\ to_bridge = << >> /\ g_got = << >>
  /\ guest = [st |-> "down", base |-> 0, sent |-> 0, next |-> 0, acked |-> 0, rej |-> FALSE, busy |-> FALSE]
  /\ base = [down |-> 0, up |-> 0]
  /\ losses = 0 /\ setups = 0

Next ==
  \/ v42_handle_frame \/ Pump \/ Poll \/ PppQueues
  \/ GuestSetsUp \/ (\E w \in 1..MaxWindow : GuestNegotiates(w)) \/ GuestReleases
  \/ GuestSends \/ GuestBacksUp \/ GuestReady \/ GuestHears \/ LoseFrame

(* The plugin's tick pumps and polls again and again, the guest reads and    *)
(* writes its modem, and its timers run although polls cross the line.      *)
Fairness ==
  /\ WF_vars(v42_handle_frame) /\ WF_vars(Pump) /\ WF_vars(Poll)
  /\ WF_vars(GuestHears) /\ WF_vars(GuestReady)
  /\ SF_vars(GuestSends) /\ SF_vars(GuestBacksUp)

Spec == Init /\ [][Next]_vars /\ Fairness
=============================================================================
