----------------------------- MODULE LapmClaims -----------------------------
(* What the link layer should do.                                            *)
EXTENDS Lapm

Links ==
  [phase : {"establish", "connected", "release"}, tx_seq : Numbers, rx_seq : Numbers, tx_ack : Numbers,
   ready : BOOLEAN, window : 1..MaxWindow, sent : [Numbers -> 0..PppUnits]]

Guests ==
  [st : {"down", "setup", "up", "release"}, base : 0..GuestUnits, sent : 0..GuestUnits, next : 0..GuestUnits,
   acked : 0..GuestUnits, rej : BOOLEAN, busy : BOOLEAN]

FramesDown ==
  [type : {"UA", "XID", "RR", "REJ", "I"}, ns : Numbers, nr : Numbers, arg : Nat]

FramesUp ==
  [type : {"SABME", "XID", "DISC", "RR", "RNR", "REJ", "SREJ", "I"}, ns : Numbers, nr : Numbers, arg : Nat]

(***************************************************************************)
(* Everything stays well typed; sequence numbers stay reduced and a window  *)
(* never closes for good.                                                  *)
(***************************************************************************)
TypeOK ==
  /\ v42 \in Links /\ queued \in 0..PppUnits /\ framed \in 0..queued
  /\ to_guest \in Seq(FramesDown) /\ to_bridge \in Seq(FramesUp)
  /\ ppp_got \in Seq(1..GuestUnits) /\ g_got \in Seq(1..PppUnits)
  /\ guest \in Guests /\ base \in [down : 0..PppUnits, up : 0..GuestUnits]
  /\ losses \in 0..MaxLosses /\ setups \in 0..MaxSetups

Outstanding(s) == v42_seq_distance(v42.tx_ack, s) < v42_seq_distance(v42.tx_ack, v42.tx_seq)

(* v42_sent_valid marks exactly the numbers from tx_ack up to tx_seq,       *)
(* wherever they wrap, and each slot keeps the unit that its number had.     *)
StoredAreOutstanding ==
  \A s \in Numbers :
    v42.sent[s] = IF Outstanding(s) THEN framed + 1 - v42_seq_distance(s, v42.tx_seq) ELSE 0

(* On the connection both ends agree on, what the guest has not accepted is *)
(* in a slot.                                                              *)
UnacceptedIsStored ==
  guest.st = "up" =>
    \A u \in base.down + Len(g_got) + 1 .. framed : \E s \in Numbers : v42.sent[s] = u

(***************************************************************************)
(* A frame can be resent until the guest has it, and only until then: the   *)
(* stored frames are those outstanding, each under its number, and they     *)
(* hold all the guest still lacks.                                         *)
(***************************************************************************)
Resendable == StoredAreOutstanding /\ UnacceptedIsStored

(***************************************************************************)
(* On a connection each direction is a pipe: whatever is lost, repeated or  *)
(* rejected twice, PPP gets the guest's units once and in order (the test   *)
(* of N(S), the REJ), and so does the guest with the bridge's (go-back-N,   *)
(* the window).  Units of an old connection never show up on a new one.     *)
(***************************************************************************)
Up == INSTANCE LinkPipe WITH
  offered <- guest.base + guest.sent - base.up, taken <- [i \in 1..Len(ppp_got) |-> ppp_got[i] - base.up]
UpLink == Up!LinkSpec

Down == INSTANCE LinkPipe WITH
  offered <- framed - base.down, taken <- [i \in 1..Len(g_got) |-> g_got[i] - base.down]
DownLink == Down!LinkSpec

(***************************************************************************)
(* A unit the guest puts into a frame reaches PPP although frames are lost  *)
(* (the bridge answers every I-frame, a stray one with a REJ), unless the   *)
(* guest gives the connection up.                                          *)
(***************************************************************************)
UnitsReachPpp ==
  guest.base + guest.sent > base.up + Len(ppp_got) ~>
    guest.st # "up" \/ guest.base + guest.sent = base.up + Len(ppp_got)

(***************************************************************************)
(* A unit in a frame reaches the guest, however often it was busy, if the   *)
(* line loses nothing and the guest asks by REJ (a SREJ fetches one frame). *)
(***************************************************************************)
UnitsReachGuest ==
  framed > base.down + Len(g_got) ~>
    guest.st # "up" \/ losses > 0 \/ framed = base.down + Len(g_got)
=============================================================================
