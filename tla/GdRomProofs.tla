---------------------------- MODULE GdRomProofs ----------------------------
(***************************************************************************)
(* Proofs about the GD-ROM drive, for every disc, set of requests, sector  *)
(* size and word size.                                                     *)
(*                                                                         *)
(* A BIOS call rewrites one command state and leaves it on both sides, so  *)
(* the argument is about single command states: each operator that a call  *)
(* applies to the slot takes a sound slot to a sound slot, and the         *)
(* agreement of mirror and plugin makes the runtime apply it to the        *)
(* plugin's slot whether it pulls first or not.                            *)
(***************************************************************************)
EXTENDS GdRom, TLAPS

SoundSlot(s) ==
  /\ s \in CommandState
  /\ s.status # "Ok" => s.last \in 1 .. NoId - 1
  /\ s.status = "Continue" <=> s.left > 0
  /\ s.left > 0 =>
       /\ s.offset < SectorSize
       /\ s.multiFad * SectorSize + s.offset + s.left = s.p0 * SectorSize + s.total
       /\ s.sent + s.left = s.total

Inv ==
  /\ TypeOK
  /\ SoundSlot(gd)
  /\ MirrorAgrees
  /\ CddaMirrored

-----------------------------------------------------------------------------
(* Division with rest, as the cursor of a transfer uses it *)
LEMMA Carry ==
  ASSUME NEW fad \in Nat, NEW moved \in Nat
  PROVE  /\ moved \div SectorSize \in Nat /\ moved % SectorSize \in Nat
         /\ moved % SectorSize < SectorSize
         /\ (fad + moved \div SectorSize) * SectorSize + (moved % SectorSize) = fad * SectorSize + moved
<1> SectorSize \in Nat /\ SectorSize > 0
  BY GdAssumption
<1>1. moved \div SectorSize \in Nat /\ moved % SectorSize \in Nat /\ moved % SectorSize < SectorSize
  BY SMT
<1>2. moved = SectorSize * (moved \div SectorSize) + (moved % SectorSize)
  BY SMT
<1>3. (fad + moved \div SectorSize) * SectorSize = fad * SectorSize + SectorSize * (moved \div SectorSize)
  BY <1>1, SMT
<1> QED
  BY <1>1, <1>2, <1>3, SMT

-----------------------------------------------------------------------------
(* What a call does to the slot *)

LEMMA AcceptedSound ==
  ASSUME NEW s, SoundSlot(s), s.status = "Ok", NEW r \in Requests
  PROVE  SoundSlot(Accepted(s, r))
<1>1. r \in [command : Commands, p0 : Nat, p1 : Nat, p2 : 0 .. 15] /\ NoId \in Nat /\ NoId > 2
  BY GdAssumption
<1>2. s \in CommandState /\ s.left = 0
  <2>1. s \in CommandState /\ ~(s.left > 0)
    BY DEF SoundSlot
  <2> QED
    BY <2>1, SMT DEF CommandState
<1> DEFINE id == IF s.next \in {0, NoId} THEN 1 ELSE s.next
<1>3. id \in 1 .. NoId - 1
  BY <1>1, <1>2, SMT DEF CommandState
<1>4. id + 1 \in 0 .. NoId /\ id \in 0 .. NoId
  BY <1>1, <1>3, SMT
<1> HIDE DEF id
<1> DEFINE t == [s EXCEPT !.last = id, !.next = id + 1, !.status = "Busy", !.command = r.command,
                          !.p0 = r.p0, !.p1 = r.p1, !.p2 = r.p2, !.sent = 0, !.more = FALSE]
<1>5. t \in CommandState /\ t.status = "Busy" /\ t.last = id /\ t.left = s.left
  <2>1. s \in CommandState /\ "Busy" \in Statuses
    BY <1>2 DEF Statuses
  <2>2. r.command \in Commands /\ r.p0 \in Nat /\ r.p1 \in Nat /\ r.p2 \in 0 .. 15
    BY <1>1
  <2>3. t \in CommandState
    BY <1>4, <2>1, <2>2 DEF CommandState
  <2>4. t.status = "Busy" /\ t.last = id /\ t.left = s.left
    BY <2>1 DEF CommandState
  <2> QED
    BY <2>3, <2>4
<1>6. Accepted(s, r) = t
  BY DEF Accepted, id
<1> HIDE DEF t
<1>7. ~(t.left > 0)
  BY <1>2, <1>5, SMT
<1> QED
  BY <1>3, <1>5, <1>6, <1>7 DEF SoundSlot

LEMMA FreedSound ==
  ASSUME NEW s, SoundSlot(s), s.status # "Continue"
  PROVE  SoundSlot([s EXCEPT !.status = "Ok", !.last = NoId])
<1> DEFINE t == [s EXCEPT !.status = "Ok", !.last = NoId]
<1>1. NoId \in 0 .. NoId
  BY GdAssumption, SMT
<1>2. s \in CommandState /\ ~(s.left > 0)
  BY DEF SoundSlot
<1>3. t \in CommandState /\ t.status = "Ok" /\ t.left = s.left
  BY <1>1, <1>2 DEF CommandState, Statuses
<1> QED
  BY <1>2, <1>3 DEF SoundSlot

LEMMA FetchedSound ==
  ASSUME NEW s, SoundSlot(s), s.status = "Continue", NEW bytes \in Nat, bytes <= s.left
  PROVE  SoundSlot(Fetched(s, bytes))
<1>1. /\ s \in CommandState /\ s.last \in 1 .. NoId - 1 /\ s.left > 0
      /\ s.multiFad * SectorSize + s.offset + s.left = s.p0 * SectorSize + s.total
      /\ s.sent + s.left = s.total
  BY DEF SoundSlot
<1>2. /\ s.offset \in Nat /\ s.left \in Nat /\ s.multiFad \in Nat /\ s.total \in Nat /\ s.sent \in Nat
      /\ s.p0 \in Nat /\ SectorSize \in Nat
  BY <1>1, GdAssumption DEF CommandState
<1> DEFINE moved == s.offset + bytes
           fad == s.multiFad + moved \div SectorSize
           rest == s.left - bytes
<1>3. moved \in Nat
  BY <1>2, SMT
<1> HIDE DEF moved
<1>4. /\ fad \in Nat /\ moved % SectorSize \in Nat /\ moved % SectorSize < SectorSize
      /\ fad * SectorSize + (moved % SectorSize) = s.multiFad * SectorSize + moved
  <2>1. /\ moved \div SectorSize \in Nat /\ moved % SectorSize \in Nat /\ moved % SectorSize < SectorSize
        /\ fad * SectorSize + (moved % SectorSize) = s.multiFad * SectorSize + moved
    BY <1>2, <1>3, Carry
  <2>2. fad \in Nat
    BY <1>2, <2>1, SMT
  <2> QED
    BY <2>1, <2>2
<1> DEFINE offset == moved % SectorSize
<1> HIDE DEF fad, offset
<1>5. rest \in Nat /\ s.total - rest \in Nat /\ (rest > 0 <=> bytes # s.left)
  <2>1. s.sent + s.left = s.total /\ s.sent \in Nat /\ s.left \in Nat /\ s.total \in Nat /\ bytes \in Nat /\ bytes <= s.left
    BY <1>1, <1>2
  <2> QED
    BY <2>1, SMT
<1>6. (bytes < s.left) \in BOOLEAN
  OBVIOUS
<1> DEFINE t == [s EXCEPT !.multiFad = fad, !.offset = offset, !.left = rest, !.fad = fad,
                          !.sent = s.total - rest, !.more = bytes < s.left,
                          !.status = IF bytes = s.left THEN "Complete" ELSE @]
<1>7. Fetched(s, bytes) = t
  BY <1>1 DEF Fetched, fad, offset, moved, CommandState
<1>8. /\ t.last = s.last /\ t.left = rest /\ t.offset = offset /\ t.multiFad = fad /\ t.p0 = s.p0
      /\ t.total = s.total /\ t.sent = s.total - rest
      /\ t.status = IF bytes = s.left THEN "Complete" ELSE "Continue"
  BY <1>1 DEF CommandState
<1>9. t \in CommandState
  BY <1>1, <1>2, <1>4, <1>5, <1>6 DEF CommandState, Statuses, offset
<1> HIDE DEF t
<1>10. t.status = "Continue" <=> t.left > 0
  BY <1>5, <1>8
<1>11. t.offset < SectorSize /\ t.sent + t.left = t.total
  BY <1>2, <1>4, <1>5, <1>8, SMT DEF offset
<1>12. t.multiFad * SectorSize + t.offset + t.left = t.p0 * SectorSize + t.total
  <2>1. s.multiFad * SectorSize \in Nat /\ fad * SectorSize \in Nat /\ s.p0 * SectorSize \in Nat /\ offset \in Nat
    BY <1>2, <1>4, SMT DEF offset
  <2>2. fad * SectorSize + offset = s.multiFad * SectorSize + s.offset + bytes
    BY <1>2, <1>4, <2>1, SMT DEF offset, moved
  <2> DEFINE before == s.multiFad * SectorSize
             after == fad * SectorSize
             origin == s.p0 * SectorSize
  <2>3. before + s.offset + s.left = origin + s.total
    BY <1>1
  <2> HIDE DEF before, after, origin
  <2>4. after + offset + rest = origin + s.total
    BY <1>2, <2>1, <2>2, <2>3, SMT DEF before, after, origin
  <2> QED
    BY <1>8, <2>4 DEF after, origin
<1> QED
  BY <1>1, <1>7, <1>8, <1>9, <1>10, <1>11, <1>12 DEF SoundSlot

(* A command that does not start a transfer leaves a finished slot *)
LEMMA FinishedSound ==
  ASSUME NEW s, SoundSlot(s), s.status = "Busy",
         NEW t \in CommandState, t.status \in {"Complete", "Err"}, t.last = s.last, t.left = 0
  PROVE  SoundSlot(t)
<1>1. ~(t.left > 0)
  BY SMT
<1> QED
  BY <1>1 DEF SoundSlot

-----------------------------------------------------------------------------
(* How it reaches both sides *)

Coherent ==
  SoundSlot(gd) /\ gd \in CommandState /\ pluginGd \in CommandState /\ MirrorAgrees

LEMMA PulledSame == ASSUME Inv PROVE Pulled = gd
BY DEF Inv, MirrorAgrees, Pulled

LEMMA PublishedCoherent ==
  ASSUME Inv, NEW s, SoundSlot(s), Published(s), UNCHANGED plugin
  PROVE  Coherent'
<1>1. gd' = s /\ pluginGd' = (IF plugin THEN s ELSE pluginGd) /\ plugin' = plugin
  BY DEF Published
<1>2. s \in CommandState /\ pluginGd \in CommandState
  BY DEF SoundSlot, Inv, TypeOK
<1>3. SoundSlot(gd') /\ gd' \in CommandState /\ pluginGd' \in CommandState
  BY <1>1, <1>2
<1>4. MirrorAgrees'
  BY <1>1 DEF MirrorAgrees
<1> QED
  BY <1>3, <1>4 DEF Coherent, SoundSlot

LEMMA SameCoherent ==
  ASSUME Inv, gd' = gd, UNCHANGED <<pluginGd, plugin>>
  PROVE  Coherent'
BY DEF Inv, TypeOK, Coherent, MirrorAgrees, SoundSlot

LEMMA LookedCoherent ==
  ASSUME Inv, Looked, UNCHANGED plugin
  PROVE  Coherent'
<1>1. gd' = gd /\ pluginGd' = pluginGd
  BY PulledSame DEF Looked
<1> QED
  BY <1>1, SameCoherent

(* The transport, the event and the end of the run *)
Quietly ==
  /\ plugin' \in BOOLEAN /\ event' \in BOOLEAN /\ halted' \in BOOLEAN
  /\ cdda' \in CddaState /\ pluginCdda' \in CddaState /\ pluginFad' \in Nat
  /\ CddaMirrored'

LEMMA StepTogether == ASSUME Coherent', Quietly PROVE Inv'
BY DEF Coherent, Quietly, Inv, TypeOK

LEMMA StillQuiet ==
  ASSUME Inv, UNCHANGED <<cdda, drive>>, event' \in BOOLEAN, halted' \in BOOLEAN, UNCHANGED plugin
  PROVE  Quietly
BY DEF Inv, TypeOK, Quietly, CddaMirrored, drive

LEMMA HaltInv == ASSUME Inv, Halt, UNCHANGED plugin PROVE Inv'
<1>1. Coherent'
  BY SameCoherent DEF Halt
<1>2. Quietly
  BY StillQuiet DEF Halt, Inv, TypeOK
<1> QED
  BY <1>1, <1>2, StepTogether

-----------------------------------------------------------------------------
(* The calls on the slot *)

LEMMA SlotCallInv ==
  ASSUME Inv, UNCHANGED plugin,
         \/ \E r \in Requests : ReqCmd(r)
         \/ \E id \in 1 .. NoId : GetCmdStat(id)
         \/ InitSystem \/ Reset \/ ReadAbort \/ CheckTrans \/ G1DmaEnd
  PROVE  Inv'
<1>1. SoundSlot(gd) /\ gd \in CommandState /\ pluginGd \in CommandState /\ Pulled = gd
      /\ event \in BOOLEAN /\ halted \in BOOLEAN /\ plugin \in BOOLEAN
  BY PulledSame DEF Inv, TypeOK
<1>2. ASSUME NEW r \in Requests, ReqCmd(r) PROVE Inv'
  <2>1. Quietly
    BY <1>1, <1>2, StillQuiet DEF ReqCmd
  <2>2. CASE Pulled.status = "Ok"
    <3>1. Published(Accepted(gd, r)) /\ SoundSlot(Accepted(gd, r))
      BY <1>1, <1>2, <2>2, AcceptedSound DEF ReqCmd
    <3> QED
      BY <2>1, <3>1, PublishedCoherent, StepTogether
  <2>3. CASE Pulled.status # "Ok"
    BY <1>2, <2>1, <2>3, LookedCoherent, StepTogether DEF ReqCmd
  <2> QED
    BY <2>2, <2>3
<1>3. ASSUME NEW id \in 1 .. NoId, GetCmdStat(id) PROVE Inv'
  <2>1. Quietly
    BY <1>1, <1>3, StillQuiet DEF GetCmdStat
  <2>2. CASE Pulled.status \in {"Complete", "Err"} /\ id = Pulled.last
    <3>1. Published([gd EXCEPT !.status = "Ok", !.last = NoId])
      BY <1>1, <1>3, <2>2 DEF GetCmdStat
    <3>2. SoundSlot([gd EXCEPT !.status = "Ok", !.last = NoId])
      BY <1>1, <2>2, FreedSound
    <3> QED
      BY <2>1, <3>1, <3>2, PublishedCoherent, StepTogether
  <2>3. CASE ~(Pulled.status \in {"Complete", "Err"} /\ id = Pulled.last)
    BY <1>3, <2>1, <2>3, LookedCoherent, StepTogether DEF GetCmdStat
  <2> QED
    BY <2>2, <2>3
<1>4. CASE InitSystem
  <2> DEFINE s == Idle(IF plugin THEN BootFad ELSE InitFad)
  <2>1. BootFad \in Nat /\ InitFad \in Nat /\ NoId \in Nat /\ NoId > 2
    BY GdAssumption
  <2>2. s \in CommandState /\ s.status = "Ok" /\ s.left = 0
    <3>1. 2 \in 0 .. NoId /\ NoId \in 0 .. NoId /\ 0 \in 0 .. 15 /\ 0 \in Nat
      BY <2>1, SMT
    <3> QED
      BY <2>1, <3>1 DEF Idle, CommandState, Statuses, Commands
  <2>3. Published(s) /\ cdda' = Quiet /\ UNCHANGED <<drive, event, halted>>
    BY <1>4 DEF InitSystem
  <2> HIDE DEF s
  <2>4. SoundSlot(s)
    <3>1. ~(s.left > 0)
      BY <2>2, SMT
    <3> QED
      BY <2>2, <3>1 DEF SoundSlot
  <2>5. Quiet \in CddaState /\ ~Quiet.playing
    BY SMT DEF Quiet, CddaState
  <2>6. Quietly
    <3>1. pluginCdda' = pluginCdda /\ pluginFad' = pluginFad /\ event' = event /\ halted' = halted
      BY <2>3 DEF drive
    <3> QED
      BY <1>1, <2>3, <2>5, <3>1 DEF Quietly, CddaMirrored, Inv, TypeOK
  <2> QED
    BY <2>3, <2>4, <2>6, PublishedCoherent, StepTogether
<1>5. CASE Reset
  <2> DEFINE s == [gd EXCEPT !.last = NoId, !.status = "Ok", !.command = "none", !.left = 0]
  <2>1. NoId \in 0 .. NoId
    BY GdAssumption, SMT
  <2>2. s \in CommandState /\ s.status = "Ok" /\ s.left = 0
    <3>1. 0 \in Nat
      BY SMT
    <3> QED
      BY <1>1, <2>1, <3>1 DEF CommandState, Statuses, Commands
  <2>3. Published(s) /\ UNCHANGED <<cdda, drive, event, halted>>
    BY <1>5 DEF Reset
  <2> HIDE DEF s
  <2>4. SoundSlot(s)
    <3>1. ~(s.left > 0)
      BY <2>2, SMT
    <3> QED
      BY <2>2, <3>1 DEF SoundSlot
  <2>5. Quietly
    BY <1>1, <2>3, StillQuiet
  <2> QED
    BY <2>3, <2>4, <2>5, PublishedCoherent, StepTogether
<1>6. CASE ReadAbort
  <2>1. PICK s \in CommandState : /\ Published(s) /\ s.status = "Ok" /\ s.left = 0
    <3>1. CASE plugin
      <4> DEFINE s == [pluginGd EXCEPT !.left = 0, !.more = FALSE, !.status = "Ok"]
      <4>1. s \in CommandState /\ s.status = "Ok" /\ s.left = 0
        BY <1>1 DEF CommandState, Statuses
      <4>2. Published(s)
        BY <1>6, <3>1 DEF ReadAbort
      <4> QED
        BY <4>1, <4>2
    <3>2. CASE ~plugin
      <4> DEFINE s == [gd EXCEPT !.left = 0, !.status = "Ok"]
      <4>1. s \in CommandState /\ s.status = "Ok" /\ s.left = 0
        BY <1>1 DEF CommandState, Statuses
      <4>2. Published(s)
        BY <1>6, <3>2 DEF ReadAbort
      <4> QED
        BY <4>1, <4>2
    <3> QED
      BY <3>1, <3>2
  <2>2. SoundSlot(s)
    <3>1. ~(s.left > 0)
      BY <2>1, SMT
    <3> QED
      BY <2>1, <3>1 DEF SoundSlot
  <2>3. Quietly
    BY <1>1, <1>6, StillQuiet DEF ReadAbort
  <2> QED
    BY <2>1, <2>2, <2>3, PublishedCoherent, StepTogether
<1>7. CASE CheckTrans \/ G1DmaEnd
  <2>1. Looked /\ UNCHANGED <<cdda, drive, halted>> /\ event' \in BOOLEAN
    BY <1>1, <1>7 DEF CheckTrans, G1DmaEnd
  <2> QED
    BY <1>1, <2>1, LookedCoherent, StillQuiet, StepTogether
<1> QED
  BY <1>2, <1>3, <1>4, <1>5, <1>6, <1>7

-----------------------------------------------------------------------------
(* Data *)

LEMMA ReqTransInv ==
  ASSUME Inv, UNCHANGED plugin, NEW id \in 1 .. NoId, NEW bytes \in Chunks, NEW dma \in BOOLEAN,
         ReqTrans(id, bytes, dma)
  PROVE  Inv'
<1>1. SoundSlot(gd) /\ gd \in CommandState /\ Pulled = gd
      /\ event \in BOOLEAN /\ halted \in BOOLEAN /\ plugin \in BOOLEAN
  BY PulledSame DEF Inv, TypeOK
<1>2. bytes \in Nat /\ gd.left \in Nat
  BY <1>1, GdAssumption DEF CommandState
<1>3. CASE id # gd.last \/ gd.status # "Continue" \/ bytes = 0 \/ bytes > gd.left
  <2>1. Looked /\ UNCHANGED <<cdda, drive, event, halted>>
    BY <1>1, <1>3 DEF ReqTrans
  <2> QED
    BY <1>1, <2>1, LookedCoherent, StillQuiet, StepTogether
<1>4. CASE /\ ~(id # gd.last \/ gd.status # "Continue" \/ bytes = 0 \/ bytes > gd.left)
           /\ Readable(gd.multiFad, gd.offset, bytes)
  <2>1. Published(Fetched(gd, bytes)) /\ event' = (event \/ dma) /\ UNCHANGED <<cdda, drive, halted>>
    BY <1>1, <1>4 DEF ReqTrans
  <2>2. gd.status = "Continue" /\ bytes <= gd.left
    BY <1>2, <1>4, SMT
  <2>3. SoundSlot(Fetched(gd, bytes))
    BY <1>1, <1>2, <2>2, FetchedSound
  <2>4. event' \in BOOLEAN /\ halted' \in BOOLEAN
    BY <1>1, <2>1, Zenon
  <2> QED
    BY <2>1, <2>3, <2>4, PublishedCoherent, StillQuiet, StepTogether
<1>5. CASE /\ ~(id # gd.last \/ gd.status # "Continue" \/ bytes = 0 \/ bytes > gd.left)
           /\ ~Readable(gd.multiFad, gd.offset, bytes)
  <2>1. Halt
    BY <1>1, <1>5 DEF ReqTrans
  <2> QED
    BY <2>1, HaltInv
<1> QED
  BY <1>3, <1>4, <1>5

-----------------------------------------------------------------------------
(* The commands *)

(* A slot that an executed command leaves finished *)
LEMMA DoneSound ==
  ASSUME NEW s, SoundSlot(s), s.status = "Busy"
  PROVE  /\ SoundSlot(Done(s))
         /\ \A fad \in Nat : SoundSlot([Done(s) EXCEPT !.fad = fad])
         /\ SoundSlot([Done(s) EXCEPT !.status = "Err"])
<1>1. s \in CommandState /\ s.left = 0
  <2>1. s \in CommandState /\ ~(s.left > 0)
    BY DEF SoundSlot
  <2> QED
    BY <2>1, SMT DEF CommandState
<1>2. "none" \in Commands
  BY DEF Commands
<1>3. /\ Done(s) \in CommandState /\ Done(s).status = "Complete"
      /\ Done(s).last = s.last /\ Done(s).left = 0
  BY <1>1, <1>2 DEF Done, CommandState, Statuses
<1>4. SoundSlot(Done(s))
  BY <1>3, FinishedSound
<1>5. ASSUME NEW fad \in Nat PROVE SoundSlot([Done(s) EXCEPT !.fad = fad])
  <2> DEFINE t == [Done(s) EXCEPT !.fad = fad]
  <2>1. t \in CommandState /\ t.status = "Complete" /\ t.last = s.last /\ t.left = 0
    BY <1>3 DEF CommandState
  <2> HIDE DEF t
  <2>2. SoundSlot(t)
    BY <2>1, FinishedSound
  <2> QED
    BY <2>2 DEF t
<1>6. SoundSlot([Done(s) EXCEPT !.status = "Err"])
  <2> DEFINE t == [Done(s) EXCEPT !.status = "Err"]
  <2>1. t \in CommandState /\ t.status = "Err" /\ t.last = s.last /\ t.left = 0
    BY <1>3 DEF CommandState, Statuses
  <2> HIDE DEF t
  <2>2. SoundSlot(t)
    BY <2>1, FinishedSound
  <2> QED
    BY <2>2 DEF t
<1> QED
  BY <1>4, <1>5, <1>6

(* Commands that leave the transport alone *)
LEMMA PublishInv ==
  ASSUME Inv, UNCHANGED <<plugin, event>>, NEW s, SoundSlot(s), Published(s),
         UNCHANGED <<cdda, drive, halted>>
  PROVE  Inv'
<1>1. event' \in BOOLEAN /\ halted' \in BOOLEAN
  BY DEF Inv, TypeOK
<1> QED
  BY <1>1, PublishedCoherent, StillQuiet, StepTogether

LEMMA MovedInv ==
  ASSUME Inv, UNCHANGED <<plugin, event>>, NEW s, SoundSlot(s), s.status = "Busy",
         NEW c \in CddaState, NEW fad \in Nat, Moved(s, c, fad)
  PROVE  Inv'
<1>1. /\ cdda' = c /\ halted' = halted /\ plugin' = plugin /\ event' = event
      /\ IF plugin THEN pluginCdda' = c /\ pluginFad' = fad
                   ELSE pluginCdda' = pluginCdda /\ pluginFad' = pluginFad
      /\ Published([Done(s) EXCEPT !.fad = fad])
  BY DEF Moved, drive
<1>2. Coherent'
  BY <1>1, DoneSound, PublishedCoherent
<1>3. Quietly
  BY <1>1 DEF Quietly, CddaMirrored, Inv, TypeOK
<1> QED
  BY <1>2, <1>3, StepTogether

LEMMA ReadInv ==
  ASSUME Inv, UNCHANGED <<plugin, event>>, gd.status = "Busy", Read(gd)
  PROVE  Inv'
<1>1. SoundSlot(gd) /\ gd \in CommandState
  BY DEF Inv, SoundSlot
<1>2. CASE Halt
  BY <1>2, HaltInv
<1>3. CASE ~Halt
  <2> DEFINE fad == IF gd.p1 = 0 THEN gd.fad ELSE gd.p0 + gd.p1
             bytes == gd.p1 * SectorSize
             s == [Done(gd) EXCEPT !.sent = bytes, !.more = FALSE, !.fad = fad]
  <2>1. gd.p0 \in Nat /\ gd.p1 \in Nat /\ gd.fad \in Nat /\ SectorSize \in Nat
    BY <1>1, GdAssumption DEF CommandState
  <2>2. bytes \in Nat /\ fad \in Nat
    BY <2>1, SMT
  <2>3. Done(gd) \in CommandState /\ SoundSlot(Done(gd)) /\ Done(gd).fad = gd.fad
    BY <1>1, DoneSound DEF SoundSlot, Done, CommandState
  <2>4. Published(s) /\ UNCHANGED <<cdda, drive, halted>>
    BY <1>3, <2>3 DEF Read, CommandState
  <2>5. s \in CommandState /\ s.status = "Complete" /\ s.last = gd.last /\ s.left = Done(gd).left
    <3> HIDE DEF bytes, fad
    <3> QED
      BY <1>1, <2>2, <2>3 DEF CommandState, Done
  <2>6. Done(gd).left = 0
    <3>1. ~(gd.left > 0) /\ gd.left \in Nat
      BY <1>1 DEF SoundSlot, CommandState
    <3>2. gd.left = 0
      BY <3>1, SMT
    <3> QED
      BY <1>1, <3>2 DEF Done, CommandState
  <2> HIDE DEF s
  <2>7. SoundSlot(s)
    BY <1>1, <2>5, <2>6, FinishedSound
  <2> QED
    BY <2>4, <2>7, PublishInv
<1> QED
  BY <1>2, <1>3

LEMMA BeginMultiInv ==
  ASSUME Inv, UNCHANGED <<plugin, event>>, gd.status = "Busy", BeginMulti(gd)
  PROVE  Inv'
<1>1. SoundSlot(gd) /\ gd \in CommandState /\ gd.last \in 1 .. NoId - 1
  BY DEF Inv, SoundSlot
<1>2. CASE Halt
  BY <1>2, HaltInv
<1>3. CASE ~Halt
  <2> DEFINE bytes == (gd.p1 * SectorSize) % WordSize
             status == IF bytes > 0 THEN "Continue" ELSE "Complete"
             s == [Done(gd) EXCEPT !.multiFad = gd.p0, !.offset = 0, !.left = bytes, !.total = bytes,
                                   !.sent = 0, !.more = bytes > 0, !.status = status]
  <2>1. gd.p0 \in Nat /\ gd.p1 \in Nat /\ SectorSize \in Nat /\ SectorSize > 0 /\ WordSize \in Nat /\ WordSize > 0
    BY <1>1, GdAssumption DEF CommandState
  <2>2. bytes \in Nat
    BY <2>1, SMT
  <2>3. Published(s) /\ UNCHANGED <<cdda, drive, halted>>
    BY <1>3 DEF BeginMulti
  <2> HIDE DEF bytes
  <2>4. status \in {"Continue", "Complete"} /\ (bytes > 0) \in BOOLEAN /\ (status = "Continue" <=> bytes > 0)
    OBVIOUS
  <2>5. Done(gd) \in CommandState /\ Done(gd).p0 = gd.p0 /\ Done(gd).last = gd.last
    BY <1>1, DoneSound DEF SoundSlot, Done, CommandState
  <2> HIDE DEF status
  <2>6. /\ s.multiFad = gd.p0 /\ s.offset = 0 /\ s.left = bytes /\ s.total = bytes /\ s.sent = 0
        /\ s.status = status /\ s.p0 = gd.p0 /\ s.last = gd.last
    BY <2>5 DEF CommandState
  <2>7. s \in CommandState
    BY <2>1, <2>2, <2>4, <2>5 DEF CommandState, Statuses
  <2> HIDE DEF s
  <2>8. /\ s.offset < SectorSize
        /\ s.multiFad * SectorSize + s.offset + s.left = s.p0 * SectorSize + s.total
        /\ s.sent + s.left = s.total
    <3>1. gd.p0 * SectorSize \in Nat
      BY <2>1, SMT
    <3> DEFINE origin == gd.p0 * SectorSize
    <3> HIDE DEF origin
    <3>2. 0 < SectorSize /\ origin + 0 + bytes = origin + bytes /\ 0 + bytes = bytes
      BY <2>1, <2>2, <3>1, SMT DEF origin
    <3> QED
      BY <2>6, <3>2 DEF origin
  <2>9. SoundSlot(s)
    BY <1>1, <2>4, <2>6, <2>7, <2>8 DEF SoundSlot
  <2> QED
    BY <2>3, <2>9, PublishInv
<1> QED
  BY <1>2, <1>3

LEMMA DmaAbortInv ==
  ASSUME Inv, UNCHANGED <<plugin, event>>, gd.status = "Busy", DmaAbort(gd)
  PROVE  Inv'
<1>1. SoundSlot(gd) /\ gd \in CommandState /\ plugin \in BOOLEAN
  BY DEF Inv, SoundSlot, TypeOK
<1>2. Done(gd) \in CommandState /\ Done(gd).last = gd.last /\ Done(gd).status = "Complete"
  BY <1>1, DoneSound DEF SoundSlot, Done, CommandState
<1> DEFINE s == [Done(gd) EXCEPT !.left = 0, !.more = @ /\ ~plugin]
<1>3. Published(s) /\ UNCHANGED <<cdda, drive, halted>>
  BY DEF DmaAbort
<1>4. (Done(gd).more /\ ~plugin) \in BOOLEAN /\ 0 \in Nat
  BY SMT
<1>5. s \in CommandState /\ s.status = "Complete" /\ s.last = gd.last /\ s.left = 0
  BY <1>2, <1>4 DEF CommandState
<1> HIDE DEF s
<1>6. SoundSlot(s)
  BY <1>1, <1>5, FinishedSound
<1> QED
  BY <1>3, <1>6, PublishInv

LEMMA TransportInv ==
  ASSUME Inv, UNCHANGED <<plugin, event>>, gd.status = "Busy",
         \/ PlayTracks(gd) \/ PlaySectors(gd) \/ Pause(gd) \/ Release(gd)
         \/ Stop(gd) \/ Seek(gd) \/ InitDrive(gd)
  PROVE  Inv'
<1>1. /\ SoundSlot(gd) /\ gd \in CommandState /\ cdda \in CddaState /\ pluginCdda \in CddaState
      /\ pluginFad \in Nat /\ plugin \in BOOLEAN
  BY DEF Inv, SoundSlot, TypeOK
<1>2. gd.p0 \in Nat /\ gd.p1 \in Nat /\ gd.p2 \in 0 .. 15 /\ gd.fad \in Nat /\ BootFad \in Nat
  BY <1>1, GdAssumption DEF CommandState
<1>3. Transport \in CddaState /\ Head(gd) \in Nat
  BY <1>1, <1>2 DEF Transport, Head
<1>4. \A c \in CddaState : Silenced(c) \in CddaState /\ ~Silenced(c).playing
  BY DEF Silenced, CddaState
<1>5. ASSUME NEW start \in Nat, NEW end \in Nat, Play(gd, start, end) PROVE Inv'
  <2> DEFINE c == [playing |-> TRUE, paused |-> FALSE, terminated |-> FALSE,
                   start |-> start, end |-> end, repeat |-> gd.p2]
  <2>1. c \in CddaState
    BY <1>2 DEF CddaState
  <2>2. Moved(gd, c, start)
    BY <1>5 DEF Play
  <2> QED
    BY <1>1, <2>1, <2>2, MovedInv
<1>6. CASE PlayTracks(gd)
  <2>1. CASE {gd.p0, gd.p1} \subseteq DOMAIN Tracks \ {0} /\ gd.p0 <= gd.p1
    <3>1. Tracks[gd.p0].start \in Nat /\ Tracks[gd.p1].end \in Nat
      BY <2>1, GdAssumption
    <3>2. Play(gd, Tracks[gd.p0].start, Tracks[gd.p1].end)
      BY <1>6, <2>1 DEF PlayTracks
    <3> QED
      BY <1>5, <3>1, <3>2
  <2>2. CASE ~({gd.p0, gd.p1} \subseteq DOMAIN Tracks \ {0} /\ gd.p0 <= gd.p1)
    <3>1. /\ Published([Done(gd) EXCEPT !.status = "Err"]) /\ UNCHANGED <<drive, halted>>
          /\ cdda' = IF plugin THEN cdda ELSE Silenced(cdda)
      BY <1>6, <2>2 DEF PlayTracks
    <3>2. Coherent'
      BY <1>1, <3>1, DoneSound, PublishedCoherent
    <3>3. Quietly
      <4>1. pluginCdda' = pluginCdda /\ pluginFad' = pluginFad /\ halted' = halted
        BY <3>1 DEF drive
      <4>2. cdda' \in CddaState /\ (plugin => cdda' = cdda)
        BY <1>1, <1>4, <3>1
      <4> QED
        BY <4>1, <4>2 DEF Quietly, CddaMirrored, Inv, TypeOK
    <3> QED
      BY <3>2, <3>3, StepTogether
  <2> QED
    BY <2>1, <2>2
<1>7. CASE PlaySectors(gd)
  BY <1>2, <1>5, <1>7 DEF PlaySectors
<1>8. CASE Pause(gd)
  <2> DEFINE c == [Transport EXCEPT !.paused = Transport.playing, !.terminated = FALSE]
  <2>1. c \in CddaState
    BY <1>3 DEF CddaState
  <2> QED
    BY <1>1, <1>3, <1>8, <2>1, MovedInv DEF Pause
<1>9. CASE Release(gd)
  <2> DEFINE c == [Transport EXCEPT !.paused = @ /\ ~Transport.playing]
  <2>0. (Transport.paused /\ ~Transport.playing) \in BOOLEAN
    OBVIOUS
  <2>1. c \in CddaState
    BY <1>3, <2>0 DEF CddaState
  <2> QED
    BY <1>1, <1>3, <1>9, <2>1, MovedInv DEF Release
<1>10. CASE Stop(gd)
  BY <1>1, <1>3, <1>4, <1>10, MovedInv DEF Stop
<1>11. CASE Seek(gd)
  BY <1>1, <1>2, <1>3, <1>11, MovedInv DEF Seek
<1>12. CASE InitDrive(gd)
  <2> DEFINE s == [gd EXCEPT !.left = 0]
  <2>1. s \in CommandState /\ s.status = "Busy" /\ s.last = gd.last /\ s.left = 0
    <3>1. 0 \in Nat
      BY SMT
    <3> QED
      BY <1>1, <3>1 DEF CommandState
  <2>2. InitDrive(gd) <=> IF plugin THEN Moved(s, Quiet, BootFad) ELSE Moved(s, Silenced(cdda), gd.fad)
    BY DEF InitDrive
  <2> HIDE DEF s
  <2>3. SoundSlot(s)
    <3>1. ~(s.left > 0)
      BY <2>1, SMT
    <3> QED
      BY <1>1, <2>1, <3>1 DEF SoundSlot
  <2>4. Quiet \in CddaState
    <3>1. 0 \in Nat /\ 0 \in 0 .. 15
      BY SMT
    <3> QED
      BY <3>1 DEF Quiet, CddaState
  <2>5. CASE plugin
    <3>1. Moved(s, Quiet, BootFad)
      BY <1>12, <2>2, <2>5
    <3> QED
      BY <1>2, <2>1, <2>3, <2>4, <3>1, MovedInv
  <2>6. CASE ~plugin
    <3>1. Moved(s, Silenced(cdda), gd.fad)
      BY <1>12, <2>2, <2>6
    <3> QED
      BY <1>1, <1>2, <1>4, <2>1, <2>3, <3>1, MovedInv
  <2> QED
    BY <2>5, <2>6
<1> QED
  BY <1>6, <1>7, <1>8, <1>9, <1>10, <1>11, <1>12

LEMMA ExecServerInv ==
  ASSUME Inv, UNCHANGED plugin, ExecServer
  PROVE  Inv'
<1>1. Pulled = gd /\ SoundSlot(gd) /\ event' = event /\ event \in BOOLEAN /\ halted \in BOOLEAN
  BY PulledSame DEF ExecServer, Inv, TypeOK
<1>2. CASE gd.status # "Busy" /\ Looked /\ UNCHANGED <<cdda, drive, halted>>
  BY <1>1, <1>2, LookedCoherent, StillQuiet, StepTogether
<1>3. CASE gd.status = "Busy" /\ Query(gd)
  BY <1>1, <1>3, DoneSound, PublishInv DEF Query
<1>4. CASE gd.status = "Busy" /\ (Read(gd) \/ BeginMulti(gd) \/ DmaAbort(gd))
  BY <1>1, <1>4, ReadInv, BeginMultiInv, DmaAbortInv
<1>5. CASE /\ gd.status = "Busy"
           /\ \/ PlayTracks(gd) \/ PlaySectors(gd) \/ Pause(gd) \/ Release(gd)
              \/ Stop(gd) \/ Seek(gd) \/ InitDrive(gd)
  BY <1>1, <1>5, TransportInv
<1>6. CASE Halt
  BY <1>6, HaltInv
<1> QED
  BY <1>1, <1>2, <1>3, <1>4, <1>5, <1>6 DEF ExecServer

-----------------------------------------------------------------------------
(* The clock *)

LEMMA AdvancedTyped ==
  ASSUME NEW c \in CddaState, NEW fad \in Nat
  PROVE  Advanced(c, fad).cdda \in CddaState /\ Advanced(c, fad).fad \in Nat
<1>1. ASSUME NEW f \in Nat PROVE AtEnd(c, f).cdda \in CddaState /\ AtEnd(c, f).fad \in Nat
  <2>1. CASE c.repeat = 0
    BY <2>1 DEF AtEnd, Silenced, CddaState
  <2>2. CASE c.repeat # 0
    <3> DEFINE left == IF c.repeat = Endless THEN c.repeat ELSE c.repeat - 1
    <3>1. left \in 0 .. 15
      BY <2>2, SMT DEF CddaState, Endless
    <3> HIDE DEF left
    <3>2. [c EXCEPT !.repeat = left] \in CddaState /\ c.start \in Nat
      BY <3>1 DEF CddaState
    <3> QED
      BY <2>2, <3>2 DEF AtEnd, left, CddaState
  <2> QED
    BY <2>1, <2>2
<1>2. fad + 1 \in Nat
  BY SMT
<1> QED
  BY <1>1, <1>2 DEF Advanced

LEMMA TickInv ==
  ASSUME Inv, UNCHANGED plugin, Tick
  PROVE  Inv'
<1>1. /\ SoundSlot(gd) /\ gd \in CommandState /\ cdda \in CddaState /\ pluginCdda \in CddaState
      /\ pluginGd \in CommandState /\ pluginFad \in Nat /\ gd.fad \in Nat /\ plugin \in BOOLEAN
  BY DEF Inv, SoundSlot, TypeOK, CommandState
<1>2. Transport \in CddaState /\ Head(gd) \in Nat
  BY <1>1 DEF Transport, Head
<1> DEFINE to == Advanced(Transport, Head(gd))
<1>3. to.cdda \in CddaState /\ to.fad \in Nat
  BY <1>2, AdvancedTyped
<1>4. /\ cdda' = to.cdda /\ gd' = [gd EXCEPT !.fad = to.fad] /\ UNCHANGED <<event, halted>>
      /\ plugin => /\ pluginCdda' = to.cdda /\ pluginFad' = to.fad
                   /\ pluginGd' = IF Transport.playing /\ ~Transport.paused
                                    THEN [pluginGd EXCEPT !.fad = to.fad] ELSE pluginGd
      /\ ~plugin => UNCHANGED <<pluginGd, drive>>
      /\ cdda.playing /\ ~cdda.paused
  BY DEF Tick
<1> HIDE DEF to
<1>5. plugin => Transport.playing /\ ~Transport.paused
  BY <1>4 DEF Inv, CddaMirrored, Quiet, Transport
<1>6. plugin => gd' = pluginGd'
  BY <1>4, <1>5 DEF Inv, MirrorAgrees
<1>7. SoundSlot(gd')
  BY <1>1, <1>3, <1>4 DEF SoundSlot, CommandState
<1>8. Coherent'
  <2>1. pluginGd' \in CommandState
    BY <1>1, <1>4, <1>6, <1>7 DEF SoundSlot
  <2> QED
    BY <1>6, <1>7, <2>1 DEF Coherent, MirrorAgrees, SoundSlot
<1>9. Quietly
  BY <1>1, <1>3, <1>4 DEF Quietly, CddaMirrored, Inv, TypeOK, drive
<1> QED
  BY <1>8, <1>9, StepTogether

-----------------------------------------------------------------------------
THEOREM Invariance == Spec => []Inv
<1>1. Init => Inv
  <2> SUFFICES ASSUME Init PROVE Inv
    OBVIOUS
  <2>1. BootFad \in Nat /\ 2 \in 0 .. NoId /\ NoId \in 0 .. NoId /\ 0 \in 0 .. 15 /\ 0 \in Nat /\ ~(0 > 0)
    BY GdAssumption, SMT
  <2>2. Idle(BootFad) \in CommandState /\ Idle(BootFad).status = "Ok" /\ Idle(BootFad).left = 0
    BY <2>1 DEF Idle, CommandState, Statuses, Commands
  <2>3. SoundSlot(Idle(BootFad))
    BY <2>1, <2>2 DEF SoundSlot
  <2>4. Quiet \in CddaState
    BY <2>1 DEF Quiet, CddaState
  <2> QED
    BY <2>1, <2>2, <2>3, <2>4 DEF Init, Inv, TypeOK, MirrorAgrees, CddaMirrored
<1>2. Inv /\ [Next]_vars => Inv'
  <2> SUFFICES ASSUME Inv, [Next]_vars PROVE Inv'
    OBVIOUS
  <2>1. CASE UNCHANGED vars
    <3>1. Coherent' /\ Quietly
      BY <2>1, SameCoherent DEF vars, Quietly, Inv, TypeOK, CddaMirrored
    <3> QED
      BY <3>1, StepTogether
  <2>2. CASE Next
    <3>1. UNCHANGED plugin /\ (Call \/ Tick)
      BY <2>2 DEF Next, Running
    <3> QED
      BY <3>1, SlotCallInv, ReqTransInv, ExecServerInv, TickInv DEF Call
  <2> QED
    BY <2>1, <2>2
<1> QED
  BY <1>1, <1>2, PTL DEF Spec

(* Type correctness: every reachable state of both drives is well typed. *)
THEOREM TypeCorrect == Spec => []TypeOK
<1>1. Inv => TypeOK
  BY DEF Inv
<1> QED
  BY <1>1, Invariance, PTL

(* The runtime never decides on a stale slot: its mirror is the plugin's. *)
THEOREM MirrorCorrect == Spec => []MirrorAgrees
<1>1. Inv => MirrorAgrees
  BY DEF Inv
<1> QED
  BY <1>1, Invariance, PTL

(* The request slot is never occupied by nobody. *)
THEOREM SlotCorrect == Spec => []SlotOwned
<1>1. Inv => SlotOwned
  BY DEF Inv, SoundSlot, SlotOwned
<1> QED
  BY <1>1, Invariance, PTL

(* A multi-transfer hands out consecutive bytes, however the guest cuts it. *)
THEOREM StreamCorrect == Spec => []StreamExact
<1>1. Inv => StreamExact
  BY DEF Inv, SoundSlot, StreamExact
<1> QED
  BY <1>1, Invariance, PTL

(* The transports of the runtime and the plugin part at a reset only *)

LEMMA UntouchedTogether == ASSUME UNCHANGED <<cdda, pluginCdda>> PROVE TransportTogether
BY DEF TransportTogether

LEMMA ExecTogether == ASSUME plugin, ExecServer PROVE TransportTogether
<1>1. ASSUME NEW s, NEW c, NEW fad, Moved(s, c, fad) PROVE TransportTogether
  BY <1>1 DEF Moved, TransportTogether
<1>2. CASE UNCHANGED <<cdda, drive>>
  BY <1>2, UntouchedTogether DEF drive
<1>3. CASE Halt
  BY <1>3, UntouchedTogether DEF Halt, drive
<1> DEFINE s == Pulled
<1>4. CASE Query(s) \/ Read(s) \/ BeginMulti(s) \/ DmaAbort(s)
  <2>1. UNCHANGED <<cdda, drive>> \/ Halt
    BY <1>4 DEF Query, Read, BeginMulti, DmaAbort
  <2> QED
    BY <1>2, <1>3, <2>1
<1>5. CASE PlayTracks(s) \/ PlaySectors(s)
  <2>1. UNCHANGED <<cdda, drive>> \/ \E from, to : Play(s, from, to)
    BY <1>5 DEF PlayTracks, PlaySectors
  <2> QED
    BY <1>1, <1>2, <2>1 DEF Play
<1>6. CASE Pause(s) \/ Release(s) \/ Stop(s) \/ Seek(s) \/ InitDrive(s)
  BY <1>1, <1>6 DEF Pause, Release, Stop, Seek, InitDrive
<1> QED
  BY <1>2, <1>3, <1>4, <1>5, <1>6 DEF ExecServer

LEMMA CallTogether == ASSUME plugin, Call PROVE TransportTogether
<1>1. CASE InitSystem
  BY <1>1 DEF TransportTogether
<1>2. CASE ExecServer
  BY <1>2, ExecTogether
<1>3. CASE \/ \E r \in Requests : ReqCmd(r)
           \/ \E id \in 1 .. NoId : GetCmdStat(id)
           \/ CheckTrans \/ G1DmaEnd \/ ReadAbort \/ Reset
  <2>1. UNCHANGED <<cdda, drive>>
    BY <1>3 DEF ReqCmd, GetCmdStat, CheckTrans, G1DmaEnd, ReadAbort, Reset
  <2> QED
    BY <2>1, UntouchedTogether DEF drive
<1>4. CASE \E id \in 1 .. NoId, bytes \in Chunks, dma \in BOOLEAN : ReqTrans(id, bytes, dma)
  <2>1. UNCHANGED <<cdda, drive>>
    BY <1>4 DEF ReqTrans
  <2> QED
    BY <2>1, UntouchedTogether DEF drive
<1> QED
  BY <1>1, <1>2, <1>3, <1>4 DEF Call

(* After every call and tick the runtime's slot is the plugin's, and so is its *)
(* transport, but for GDC_INIT_SYSTEM during playback: then both stay as they  *)
(* are until the next transport command.                                       *)
THEOREM MirrorsCorrect == Spec => MirrorsAgree
<1>1. ASSUME Inv', [Next]_vars, plugin
      PROVE  [gd' = pluginGd' /\ TransportTogether]_vars
  <2>1. CASE UNCHANGED vars
    BY <2>1
  <2>2. CASE Next
    <3>1. UNCHANGED plugin /\ gd' = pluginGd'
      BY <1>1, <2>2 DEF Next, Running, Inv, MirrorAgrees
    <3>2. CASE Call
      BY <1>1, <3>1, <3>2, CallTogether
    <3>3. CASE Tick
      BY <1>1, <3>1, <3>3 DEF Tick, TransportTogether
    <3> QED
      BY <2>2, <3>2, <3>3 DEF Next
  <2> QED
    BY <1>1, <2>1, <2>2
<1>2. Inv' /\ [Next]_vars => [plugin => gd' = pluginGd' /\ TransportTogether]_vars
  BY <1>1
<1> QED
  BY <1>2, Invariance, PTL DEF Spec, MirrorsAgree

-----------------------------------------------------------------------------
(* How long a play lasts.  Liveness itself is beyond the prover; this is the *)
(* count it rests on.                                                       *)

(* The ticks of one pass: an empty or inverted range takes one *)
Pass(from, to) == IF to - from >= 1 THEN to - from ELSE 1

Remaining(c, fad) == IF c.playing THEN c.repeat * Pass(c.start, c.end) + Pass(fad, c.end) ELSE 0

LEMMA PassIs ==
  ASSUME NEW from \in Nat, NEW to \in Nat
  PROVE  Pass(from, to) \in Nat \ {0}
BY SMT DEF Pass

LEMMA AtEndCounts ==
  ASSUME NEW c \in CddaState, NEW fad \in Nat, c.playing, ~c.paused, c.repeat # Endless
  PROVE  /\ Remaining(AtEnd(c, fad).cdda, AtEnd(c, fad).fad) = c.repeat * Pass(c.start, c.end)
         /\ AtEnd(c, fad).cdda.playing <=> Remaining(AtEnd(c, fad).cdda, AtEnd(c, fad).fad) # 0
<1> DEFINE pass == Pass(c.start, c.end)
<1>1. pass \in Nat \ {0} /\ c.repeat \in 0 .. 15 /\ c.start \in Nat
  BY PassIs DEF CddaState
<1>2. CASE c.repeat = 0
  <2>1. ~AtEnd(c, fad).cdda.playing
    BY <1>2 DEF AtEnd, Silenced, CddaState
  <2>2. c.repeat * pass = 0
    BY <1>1, <1>2, SMT
  <2> QED
    BY <2>1, <2>2 DEF Remaining
<1>3. CASE c.repeat # 0
  <2> DEFINE r == c.repeat - 1
  <2>1. r \in Nat /\ c.repeat = r + 1
    BY <1>1, <1>3, SMT
  <2>2. /\ AtEnd(c, fad).fad = c.start
        /\ AtEnd(c, fad).cdda = [c EXCEPT !.repeat = r]
    BY <1>3 DEF AtEnd
  <2> HIDE DEF r, pass
  <2>3. [c EXCEPT !.repeat = r].playing /\ [c EXCEPT !.repeat = r].repeat = r
        /\ [c EXCEPT !.repeat = r].start = c.start /\ [c EXCEPT !.repeat = r].end = c.end
    BY DEF CddaState
  <2>4. Remaining(AtEnd(c, fad).cdda, AtEnd(c, fad).fad) = r * pass + pass
    BY <2>2, <2>3 DEF Remaining, pass
  <2>5. r * pass + pass = (r + 1) * pass /\ r * pass + pass # 0
    BY <1>1, <2>1, SMT
  <2> QED
    BY <2>1, <2>2, <2>3, <2>4, <2>5 DEF pass
<1> QED
  BY <1>2, <1>3

LEMMA AdvancedCounts ==
  ASSUME NEW c \in CddaState, NEW fad \in Nat, c.playing, ~c.paused, c.repeat # Endless
  PROVE  LET to == Advanced(c, fad)
         IN  /\ Remaining(c, fad) = Remaining(to.cdda, to.fad) + 1
             /\ Remaining(to.cdda, to.fad) \in Nat
             /\ to.cdda.playing <=> Remaining(to.cdda, to.fad) # 0
<1> DEFINE more == c.repeat * Pass(c.start, c.end)
<1>1. c.repeat \in Nat /\ c.start \in Nat /\ c.end \in Nat /\ fad + 1 \in Nat
  BY SMT DEF CddaState
<1>2. more \in Nat
  <2>1. Pass(c.start, c.end) \in Nat
    BY <1>1, PassIs
  <2> QED
    BY <1>1, <2>1, SMT
<1>3. Remaining(c, fad) = more + Pass(fad, c.end)
  BY DEF Remaining
<1> HIDE DEF more
<1>4. ASSUME NEW f \in Nat, Advanced(c, fad) = AtEnd(c, f), Pass(fad, c.end) = 1
      PROVE  /\ Remaining(c, fad) = Remaining(AtEnd(c, f).cdda, AtEnd(c, f).fad) + 1
             /\ Remaining(AtEnd(c, f).cdda, AtEnd(c, f).fad) \in Nat
             /\ AtEnd(c, f).cdda.playing <=> Remaining(AtEnd(c, f).cdda, AtEnd(c, f).fad) # 0
  BY <1>2, <1>3, <1>4, AtEndCounts DEF more
<1>5. CASE fad >= c.end
  <2>1. Advanced(c, fad) = AtEnd(c, fad)
    BY <1>5 DEF Advanced
  <2>2. Pass(fad, c.end) = 1
    BY <1>1, <1>5, SMT DEF Pass
  <2> QED
    BY <1>4, <2>1, <2>2
<1>6. CASE ~(fad >= c.end) /\ fad + 1 >= c.end
  <2>1. Advanced(c, fad) = AtEnd(c, fad + 1)
    BY <1>6 DEF Advanced
  <2>2. Pass(fad, c.end) = 1
    BY <1>1, <1>6, SMT DEF Pass
  <2> QED
    BY <1>1, <1>4, <2>1, <2>2
<1>7. CASE ~(fad >= c.end) /\ ~(fad + 1 >= c.end)
  <2>1. Advanced(c, fad).cdda = c /\ Advanced(c, fad).fad = fad + 1
    BY <1>7 DEF Advanced
  <2>2. Remaining(c, fad + 1) = more + Pass(fad + 1, c.end)
    BY DEF Remaining, more
  <2>3. Pass(fad, c.end) = Pass(fad + 1, c.end) + 1 /\ Pass(fad + 1, c.end) \in Nat \ {0}
    BY <1>1, <1>7, SMT DEF Pass
  <2> QED
    BY <1>2, <1>3, <2>1, <2>2, <2>3
<1> QED
  BY <1>5, <1>6, <1>7

(* Of the transport, wherever its state lives *)
TicksLeft == Remaining(Transport, Head(gd))

PlayCountsDown ==
  [][Clock /\ cdda.repeat # Endless =>
       /\ TicksLeft = TicksLeft' + 1
       /\ cdda'.playing <=> TicksLeft' # 0]_vars

(* A play that does not repeat for ever lasts a number of due sectors known   *)
(* in advance, one pass and its repetitions, whatever the range: each tick of *)
(* the CDDA clock uses up exactly one, and playback stops with the last.     *)
THEOREM PlaysCountDown == Spec => PlayCountsDown
<1>1. ASSUME Inv, Clock, cdda.repeat # Endless
      PROVE  TicksLeft = TicksLeft' + 1 /\ (cdda'.playing <=> TicksLeft' # 0)
  <2> DEFINE to == Advanced(Transport, Head(gd))
  <2>1. /\ cdda.playing /\ ~cdda.paused /\ UNCHANGED plugin
        /\ cdda' = to.cdda /\ gd' = [gd EXCEPT !.fad = to.fad]
        /\ plugin => pluginCdda' = to.cdda /\ pluginFad' = to.fad
    BY <1>1 DEF Clock, Running, Tick
  <2>2. /\ Transport = cdda /\ cdda \in CddaState /\ gd \in CommandState
        /\ Head(gd) \in Nat
    BY <1>1, <2>1 DEF Inv, TypeOK, CddaMirrored, Quiet, Transport, Head, CommandState
  <2>3. /\ Remaining(Transport, Head(gd)) = Remaining(to.cdda, to.fad) + 1
        /\ to.cdda.playing <=> Remaining(to.cdda, to.fad) # 0
    BY <1>1, <2>1, <2>2, AdvancedCounts
  <2> HIDE DEF to
  <2>4. Transport' = to.cdda /\ Head(gd)' = to.fad
    BY <2>1, <2>2 DEF Transport, Head, CommandState
  <2> QED
    BY <2>1, <2>3, <2>4 DEF TicksLeft
<1>2. Inv /\ [Next]_vars => [Clock /\ cdda.repeat # Endless =>
                               /\ TicksLeft = TicksLeft' + 1
                               /\ cdda'.playing <=> TicksLeft' # 0]_vars
  BY <1>1
<1> QED
  BY <1>2, Invariance, PTL DEF Spec, PlayCountsDown
=============================================================================
