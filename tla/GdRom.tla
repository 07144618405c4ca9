------------------------------- MODULE GdRom -------------------------------
(***************************************************************************)
(* The GD-ROM drive behind the BIOS vector native_bios_gd of               *)
(* runtime/dc_runtime.cpp: a single request slot that the guest fills,     *)
(* has executed and polls, a multi-transfer whose data the guest fetches   *)
(* in pieces, and the CDDA transport.                                      *)
(*                                                                         *)
(* The drive exists twice.  Without dcr_gdrom (plugin = FALSE) the runtime *)
(* executes everything on its own gd and cdda.  With the plugin the state  *)
(* belongs to pluginGd, pluginCdda and pluginFad, and the runtime keeps a  *)
(* mirror that it pulls before and publishes after what it does.           *)
(*                                                                         *)
(* An action is one BIOS call, or one due sector of the CDDA clock.  Audio *)
(* samples, callbacks, counters and the reply words of the status commands *)
(* are data and left out.  A C++ exception ends the run: halted.           *)
(***************************************************************************)
EXTENDS Naturals

CONSTANTS
  Requests,     \* [command, p0, p1, p2]: what the guest may ask for
  Queries,      \* the commands that only reply
  Chunks,       \* how many bytes the guest fetches at a time
  DataFads,     \* the sectors of data tracks
  Tracks,       \* track number -> [start, end]; end is exclusive
  SectorSize,   \* bytes of a logical sector
  WordSize,     \* 2^32: byte counts are kept modulo it by the runtime
  NoId,         \* 0xFFFFFFFF: no request
  BootFad,      \* first sector of the boot track
  InitFad       \* 150, the reset value of current_fad

Commands ==
  Queries \cup {"none", "Read", "MultiRead", "DmaAbort", "PlayTracks", "PlaySectors",
                "Pause", "Release", "Stop", "Seek", "Init", "Scan"}

ASSUME GdAssumption ==
  /\ SectorSize \in Nat \ {0} /\ WordSize \in Nat \ {0}
  /\ NoId \in Nat /\ NoId > 2
  /\ BootFad \in Nat /\ InitFad \in Nat
  /\ DataFads \subseteq Nat /\ Chunks \subseteq Nat
  /\ Requests \subseteq [command : Commands, p0 : Nat, p1 : Nat, p2 : 0 .. 15]
  /\ Tracks \in [DOMAIN Tracks -> [start : Nat, end : Nat]] /\ DOMAIN Tracks \subseteq Nat

VARIABLES
  plugin,       \* dcr_gdrom is loaded
  gd,           \* runtime.gd: the request slot and the transfer
  cdda,         \* runtime.gd: the CDDA transport
  pluginGd,     \* command_state of the plugin
  pluginCdda,   \* cdda of the plugin
  pluginFad,    \* cdda.current_fad of the plugin
  event,        \* the GD DMA event is pending in Holly
  halted        \* an exception has ended the run

drive == <<pluginCdda, pluginFad>>
vars == <<plugin, gd, cdda, pluginGd, pluginCdda, pluginFad, event, halted>>

Statuses == {"Err", "Ok", "Busy", "Complete", "Continue"}
Endless == 15

CommandState ==
  [last : 0 .. NoId, next : 0 .. NoId, status : Statuses, command : Commands, p0 : Nat, p1 : Nat, p2 : 0 .. 15,
   sent : Nat, more : BOOLEAN, fad : Nat, multiFad : Nat, offset : Nat, left : Nat, total : Nat]
CddaState ==
  [playing : BOOLEAN, paused : BOOLEAN, terminated : BOOLEAN, start : Nat, end : Nat, repeat : 0 .. 15]

(* GDHleState{}: nothing asked, nothing played *)
Idle(fad) ==
  [last |-> NoId, next |-> 2, status |-> "Ok", command |-> "none", p0 |-> 0, p1 |-> 0, p2 |-> 0,
   sent |-> 0, more |-> FALSE, fad |-> fad, multiFad |-> 0, offset |-> 0, left |-> 0, total |-> 0]
Quiet == [playing |-> FALSE, paused |-> FALSE, terminated |-> FALSE, start |-> 0, end |-> 0, repeat |-> 0]

Init ==
  /\ plugin \in BOOLEAN
  /\ gd = Idle(BootFad) /\ pluginGd = Idle(BootFad)
  /\ cdda = Quiet /\ pluginCdda = Quiet /\ pluginFad = BootFad
  /\ event = FALSE /\ halted = FALSE

-----------------------------------------------------------------------------
(* The mirror *)

(* What a call that first pulls the plugin's state goes on with *)
Pulled == IF plugin THEN pluginGd ELSE gd

(* The call leaves s on both sides *)
Published(s) == gd' = s /\ pluginGd' = IF plugin THEN s ELSE pluginGd

(* The call only looked *)
Looked == gd' = Pulled /\ UNCHANGED pluginGd

Halt == halted' = TRUE /\ UNCHANGED <<gd, cdda, pluginGd, drive, event>>

-----------------------------------------------------------------------------
(* The request slot *)

(* mutant: the identifiers do not wrap *)
AcceptedUnwrapped(s, r) ==
  [s EXCEPT !.last = s.next, !.next = s.next + 1, !.status = "Busy", !.command = r.command,
            !.p0 = r.p0, !.p1 = r.p1, !.p2 = r.p2, !.sent = 0, !.more = FALSE]

Accepted(s, r) ==
  LET id == IF s.next \in {0, NoId} THEN 1 ELSE s.next
  IN [s EXCEPT !.last = id, !.next = id + 1, !.status = "Busy", !.command = r.command,
               !.p0 = r.p0, !.p1 = r.p1, !.p2 = r.p2, !.sent = 0, !.more = FALSE]

ReqCmd(r) ==
  /\ IF Pulled.status = "Ok" THEN Published(Accepted(Pulled, r)) ELSE Looked
  /\ UNCHANGED <<cdda, drive, event, halted>>

(* mutant: the identifier is forgotten while data is still to be fetched *)
StatForgetful(id) ==
  /\ IF Pulled.status \in {"Complete", "Err", "Continue"} /\ id = Pulled.last
       THEN Published([Pulled EXCEPT !.status = IF @ = "Continue" THEN @ ELSE "Ok", !.last = NoId])
       ELSE Looked
  /\ UNCHANGED <<cdda, drive, event, halted>>

(* The owner of a finished request learns its outcome and frees the slot *)
GetCmdStat(id) ==
  /\ IF Pulled.status \in {"Complete", "Err"} /\ id = Pulled.last
       THEN Published([Pulled EXCEPT !.status = "Ok", !.last = NoId])
       ELSE Looked
  /\ UNCHANGED <<cdda, drive, event, halted>>

InitSystem ==
  /\ Published(Idle(IF plugin THEN BootFad ELSE InitFad))
  /\ cdda' = Quiet
  /\ UNCHANGED <<drive, event, halted>>

(* mutant: only the mirror is reset *)
ResetUnpublished ==
  /\ gd' = [gd EXCEPT !.last = NoId, !.status = "Ok", !.command = "none", !.left = 0]
  /\ UNCHANGED <<pluginGd, cdda, drive, event, halted>>

(* Publishes the mirror without pulling it first *)
Reset ==
  /\ Published([gd EXCEPT !.last = NoId, !.status = "Ok", !.command = "none", !.left = 0])
  /\ UNCHANGED <<cdda, drive, event, halted>>

ReadAbort ==
  /\ Published(IF plugin THEN [pluginGd EXCEPT !.left = 0, !.more = FALSE, !.status = "Ok"]
                         ELSE [gd EXCEPT !.left = 0, !.status = "Ok"])
  /\ UNCHANGED <<cdda, drive, event, halted>>

(* CheckDmaTrans, CheckPioTrans and SetPioCallback change nothing else *)
CheckTrans == Looked /\ UNCHANGED <<cdda, drive, event, halted>>

G1DmaEnd == Looked /\ event' = FALSE /\ UNCHANGED <<cdda, drive, halted>>

-----------------------------------------------------------------------------
(* Data *)

Readable(fad, offset, bytes) == fad .. fad + (offset + bytes - 1) \div SectorSize \subseteq DataFads

(* mutant: the offset inside the sector does not carry *)
FetchedUncarried(s, bytes) ==
  LET fad == s.multiFad + bytes \div SectorSize
  IN [s EXCEPT !.multiFad = fad, !.offset = (@ + bytes) % SectorSize, !.left = @ - bytes, !.fad = fad,
               !.sent = s.total - (s.left - bytes), !.more = bytes < s.left,
               !.status = IF bytes = s.left THEN "Complete" ELSE @]

Fetched(s, bytes) ==
  LET moved == s.offset + bytes
      fad == s.multiFad + moved \div SectorSize
  IN [s EXCEPT !.multiFad = fad, !.offset = moved % SectorSize, !.left = @ - bytes, !.fad = fad,
               !.sent = s.total - (s.left - bytes), !.more = bytes < s.left,
               !.status = IF bytes = s.left THEN "Complete" ELSE @]

(* ReqDmaTrans and ReqPioTrans: only the former raises the DMA event *)
ReqTrans(id, bytes, dma) ==
  LET s == Pulled IN
  /\ UNCHANGED <<cdda, drive>>
  /\ IF id # s.last \/ s.status # "Continue" \/ bytes = 0 \/ bytes > s.left
       THEN Looked /\ UNCHANGED <<event, halted>>
     ELSE IF Readable(s.multiFad, s.offset, bytes)
       THEN Published(Fetched(s, bytes)) /\ event' = (event \/ dma) /\ UNCHANGED halted
     ELSE Halt

-----------------------------------------------------------------------------
(* ExecServer: gd_execute_command, one definition per group of commands.   *)
(* The slot was pulled, and is published afterwards.                        *)

Done(s) == [s EXCEPT !.status = "Complete", !.command = "none"]

Query(s) == Published(Done(s)) /\ UNCHANGED <<cdda, drive, halted>>

(* PioRead and DmaRead: the whole read at once *)
Read(s) ==
  LET bytes == s.p1 * SectorSize IN
  IF s.p1 = 0 \/ (bytes < WordSize /\ Readable(s.p0, 0, bytes))
    THEN /\ Published([Done(s) EXCEPT !.sent = bytes, !.more = FALSE,
                                      !.fad = IF s.p1 = 0 THEN @ ELSE s.p0 + s.p1])
         /\ UNCHANGED <<cdda, drive, halted>>
    ELSE Halt

(* DmaReadReq, MultiDmaRead and MultiPioRead: only the runtime wraps *)
BeginMulti(s) ==
  LET bytes == (s.p1 * SectorSize) % WordSize IN
  IF plugin /\ s.p1 * SectorSize >= WordSize
    THEN Halt
    ELSE /\ Published([Done(s) EXCEPT !.multiFad = s.p0, !.offset = 0, !.left = bytes, !.total = bytes,
                                      !.sent = 0, !.more = bytes > 0,
                                      !.status = IF bytes > 0 THEN "Continue" ELSE "Complete"])
         /\ UNCHANGED <<cdda, drive, halted>>

DmaAbort(s) ==
  /\ Published([Done(s) EXCEPT !.left = 0, !.more = @ /\ ~plugin])
  /\ UNCHANGED <<cdda, drive, halted>>

(* The transport is moved where its state lives and mirrored *)
Moved(s, transport, fad) ==
  /\ cdda' = transport
  /\ IF plugin THEN pluginCdda' = transport /\ pluginFad' = fad ELSE UNCHANGED drive
  /\ Published([Done(s) EXCEPT !.fad = fad])
  /\ UNCHANGED halted

Transport == IF plugin THEN pluginCdda ELSE cdda
Head(s) == IF plugin THEN pluginFad ELSE s.fad

Play(s, start, end) ==
  Moved(s, [playing |-> TRUE, paused |-> FALSE, terminated |-> FALSE,
            start |-> start, end |-> end, repeat |-> s.p2], start)

Silenced(c) == [c EXCEPT !.playing = FALSE, !.paused = FALSE, !.terminated = FALSE]

(* Impossible tracks are an error; the plugin goes on with what it plays *)
PlayTracks(s) ==
  IF {s.p0, s.p1} \subseteq DOMAIN Tracks \ {0} /\ s.p0 <= s.p1
    THEN Play(s, Tracks[s.p0].start, Tracks[s.p1].end)
    ELSE /\ Published([Done(s) EXCEPT !.status = "Err"])
         /\ cdda' = IF plugin THEN cdda ELSE Silenced(cdda)
         /\ UNCHANGED <<drive, halted>>

PlaySectors(s) == Play(s, s.p0, s.p1)
(* mutant: the plugin pauses and the mirror is not pulled *)
PauseUnmirrored(s) ==
  /\ cdda' = IF plugin THEN cdda ELSE [cdda EXCEPT !.paused = cdda.playing, !.terminated = FALSE]
  /\ pluginCdda' = [pluginCdda EXCEPT !.paused = plugin /\ pluginCdda.playing, !.terminated = FALSE]
  /\ Published(Done(s)) /\ UNCHANGED <<pluginFad, halted>>

Pause(s) == Moved(s, [Transport EXCEPT !.paused = Transport.playing, !.terminated = FALSE], Head(s))
Release(s) == Moved(s, [Transport EXCEPT !.paused = @ /\ ~Transport.playing], Head(s))
Stop(s) == Moved(s, Silenced(Transport), Head(s))
Seek(s) == Moved(s, Transport, s.p0)
InitDrive(s) ==
  IF plugin THEN Moved([s EXCEPT !.left = 0], Quiet, BootFad)
            ELSE Moved([s EXCEPT !.left = 0], Silenced(cdda), s.fad)

ExecServer ==
  LET s == Pulled IN
  /\ UNCHANGED event
  /\ \/ s.status # "Busy" /\ Looked /\ UNCHANGED <<cdda, drive, halted>>
     \/ /\ s.status = "Busy"
        /\ \/ s.command \in Queries /\ Query(s)
           \/ s.command = "Read" /\ Read(s)
           \/ s.command = "MultiRead" /\ BeginMulti(s)
           \/ s.command = "DmaAbort" /\ DmaAbort(s)
           \/ s.command = "PlayTracks" /\ PlayTracks(s)
           \/ s.command = "PlaySectors" /\ PlaySectors(s)
           \/ s.command = "Pause" /\ Pause(s)
           \/ s.command = "Release" /\ Release(s)
           \/ s.command = "Stop" /\ Stop(s)
           \/ s.command = "Seek" /\ Seek(s)
           \/ s.command = "Init" /\ InitDrive(s)
           \/ s.command = "Scan" /\ Halt

-----------------------------------------------------------------------------
(* The CDDA clock *)

(* mutant: a pass does not use up a repetition *)
AtEndForever(c, fad) ==
  IF c.repeat = 0 THEN [cdda |-> [Silenced(c) EXCEPT !.terminated = TRUE], fad |-> fad]
  ELSE [cdda |-> c, fad |-> c.start]

(* Another pass over the range, or the end of the last one *)
AtEnd(c, fad) ==
  IF c.repeat = 0 THEN [cdda |-> [Silenced(c) EXCEPT !.terminated = TRUE], fad |-> fad]
  ELSE [cdda |-> [c EXCEPT !.repeat = IF @ = Endless THEN @ ELSE @ - 1], fad |-> c.start]

Advanced(c, fad) ==
  IF ~c.playing \/ c.paused THEN [cdda |-> c, fad |-> fad]
  ELSE IF fad >= c.end THEN AtEnd(c, fad)
  ELSE IF fad + 1 >= c.end THEN AtEnd(c, fad + 1)
  ELSE [cdda |-> c, fad |-> fad + 1]

(* One due sector, of the guest's clock or of the host's *)
Tick ==
  /\ cdda.playing /\ ~cdda.paused
  /\ LET to == Advanced(Transport, Head(gd)) IN
     /\ cdda' = to.cdda
     /\ gd' = [gd EXCEPT !.fad = to.fad]
     /\ IF plugin THEN /\ pluginCdda' = to.cdda /\ pluginFad' = to.fad
                       /\ pluginGd' = IF Transport.playing /\ ~Transport.paused
                                        THEN [pluginGd EXCEPT !.fad = to.fad] ELSE pluginGd
                  ELSE UNCHANGED <<pluginGd, drive>>
  /\ UNCHANGED <<event, halted>>

-----------------------------------------------------------------------------
Call ==
  \/ \E r \in Requests : ReqCmd(r)
  \/ \E id \in 1 .. NoId : GetCmdStat(id)
  \/ ExecServer
  \/ \E id \in 1 .. NoId, bytes \in Chunks, dma \in BOOLEAN : ReqTrans(id, bytes, dma)
  \/ CheckTrans
  \/ G1DmaEnd
  \/ ReadAbort
  \/ Reset
  \/ InitSystem

Running == ~halted /\ UNCHANGED plugin
Clock == Running /\ Tick
Next == Running /\ (Call \/ Tick)

(* The device clock runs as long as the guest does *)
Spec == Init /\ [][Next]_vars /\ WF_vars(Clock)
-----------------------------------------------------------------------------
(* Properties *)

TypeOK ==
  /\ plugin \in BOOLEAN /\ event \in BOOLEAN /\ halted \in BOOLEAN
  /\ gd \in CommandState /\ pluginGd \in CommandState
  /\ cdda \in CddaState /\ pluginCdda \in CddaState /\ pluginFad \in Nat

(* Whichever call comes next, and whether it pulls first or not, the mirror  *)
(* the runtime decides on is the command state of the plugin.                *)
MirrorAgrees == plugin => gd = pluginGd

(* The slot is never occupied by nobody: as long as it is not free it bears  *)
(* an identifier the guest was given, so the guest can poll it free again.   *)
(* 0 is no identifier, it is the answer of a refused request.                *)
SlotOwned == gd.status # "Ok" => gd.last \in 1 .. NoId - 1

(* A multi-transfer hands out consecutive bytes from the sector asked for to *)
(* the last byte, however the guest cuts it: cursor, rest and reported count *)
(* always add up, and the request is unfinished exactly while data is left.  *)
StreamExact ==
  /\ gd.status = "Continue" <=> gd.left > 0
  /\ gd.left > 0 =>
       /\ gd.offset < SectorSize
       /\ gd.multiFad * SectorSize + gd.offset + gd.left = gd.p0 * SectorSize + gd.total
       /\ gd.sent + gd.left = gd.total

(* The mirror of the transport is the plugin's, or what a reset left of it *)
CddaMirrored == plugin => cdda \in {pluginCdda, Quiet}

(* Nothing moves one side of the transport without the other: but for         *)
(* GDC_INIT_SYSTEM, which quiets the runtime's side while the disc plays on   *)
(* in the plugin, a step leaves them equal, or as far apart as they were.     *)
TransportTogether ==
  \/ cdda' = pluginCdda'
  \/ InitSystem
  \/ cdda # pluginCdda /\ UNCHANGED <<cdda, pluginCdda>>

(* After every call and every tick of the clock the runtime's copy of the     *)
(* command slot is the plugin's, and so is its copy of the transport, on      *)
(* which the clock, the mixer and GetDrvStat act.  The one exception is       *)
(* GDC_INIT_SYSTEM during playback: from then on and until the next transport *)
(* command the copy is silent and nothing else touches either side.           *)
MirrorsAgree == [][plugin => gd' = pluginGd' /\ TransportTogether]_vars

(* A call that starts, stops or moves the transport *)
Disturbs ==
  Running /\ Call /\ (cdda' # cdda \/ (IF plugin THEN pluginFad' # pluginFad ELSE gd'.fad # gd.fad))

(* No request, inverted or empty ranges included, plays for ever unless it   *)
(* asked for endless repetition or the guest keeps on moving the transport.  *)
PlayEnds ==
  []<><<Disturbs>>_vars \/
  (cdda.playing /\ cdda.repeat # Endless ~> ~cdda.playing \/ cdda.paused \/ cdda.repeat = Endless \/ halted)
=============================================================================
