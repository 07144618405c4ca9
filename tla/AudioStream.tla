----------------------------- MODULE AudioStream -----------------------------
(***************************************************************************)
(* Host audio playback: the emulation thread cuts mixed samples into       *)
(* chunks and puts them into a bounded ring; a worker thread moves them to  *)
(* the sound device, pads with silence when the emulator falls behind and   *)
(* drains everything at the end of a run; the device plays chunks and       *)
(* reports them done.  The stream is set up, used and torn down by the      *)
(* generated runner, whose exception handling is part of the model.         *)
(*                                                                          *)
(* Each step of a thread is what it does in one critical section, or on     *)
(* state no other thread touches.                                           *)
(***************************************************************************)
EXTENDS Integers, Sequences, FiniteSets

CONSTANTS
  RingChunks,   \* kAicaHostRingChunks (32)
  Prefill,      \* kAicaHostPrefillChunks (6): device queue that starts playback
  Target,       \* kAicaHostTargetChunks (8): device queue kept filled
  LowWater,     \* kAicaHostLowWaterChunks (4): device queue padded with silence
  MaxChunks     \* bound: chunks mixed while the run lasts

ASSUME SizeAssumption == /\ RingChunks \in Nat \ {0} /\ LowWater \in Nat /\ MaxChunks \in Nat
                         /\ Prefill \in 1 .. Target /\ Target \in Nat /\ LowWater < Target

VARIABLES
  main,          \* where the emulation thread is
  caller,        \* who called aica_host_ring_enqueue: "run" or "finish"
  ending,        \* how the run ended
  partial,       \* staging holds samples, fewer than a chunk
  sent,          \* chunks enqueued so far; chunk n is the n-th
  ring,          \* ring[ring_read ..], oldest first
  workerStarted, stop, failed,   \* worker_started, stop_requested, worker_failed
  worker,        \* where the worker thread is
  stopping,      \* what it read of stop_requested this round
  real,          \* submitted_real
  active,        \* the device queue, oldest first
  played,        \* how many of its chunks carry WHDR_DONE: the first ones
  playing,       \* stream.started
  heard,         \* what the device played
  broken,        \* the worker met a device error
  wav            \* the capture was written by dc_aica_flush_wav

mainVars   == <<main, caller, ending, partial, sent, wav>>
workerVars == <<worker, stopping, real, broken>>
device     == <<active, played, playing, heard>>
flags      == <<workerStarted, stop, failed>>
vars == <<mainVars, ring, flags, workerVars, device>>

Silence == 0

Init ==
  /\ main = "run" /\ caller = "run" /\ ending = "none" /\ partial = FALSE /\ sent = 0 /\ wav = FALSE
  /\ ring = << >>
  /\ workerStarted = FALSE /\ stop = FALSE /\ failed = FALSE
  /\ worker = "none" /\ stopping = FALSE /\ real = FALSE /\ broken = FALSE
  /\ active = << >> /\ played = 0 /\ playing = FALSE /\ heard = << >>

-----------------------------------------------------------------------------
(* The emulation thread.                                                     *)

(* mutant: a full ring takes one chunk more *)
EnqueueUnbounded == ring' = Append(ring, sent + 1) /\ sent' = sent + 1

(* A full ring gives up its oldest chunk.                                    *)
Enqueue ==
  /\ ring' = Append(IF Len(ring) = RingChunks THEN Tail(ring) ELSE ring, sent + 1)
  /\ sent' = sent + 1

MixSample ==
  /\ main = "run" /\ ~partial
  /\ partial' = TRUE
  /\ UNCHANGED <<main, caller, ending, sent, wav, ring, flags, workerVars, device>>

CompleteChunk ==
  /\ main = "run" /\ partial /\ sent < MaxChunks
  /\ partial' = FALSE
  /\ Enqueue
  /\ main' = "start" /\ caller' = "run"
  /\ UNCHANGED <<ending, wav, flags, workerVars, device>>

StartWorker ==
  /\ main = "start"
  /\ IF workerStarted THEN UNCHANGED <<flags, worker>>
     ELSE /\ workerStarted' = TRUE /\ stop' = FALSE /\ failed' = FALSE
          /\ worker' = "open"
  /\ main' = "check"
  /\ UNCHANGED <<caller, ending, partial, sent, wav, ring, stopping, real, broken, device>>

(* An exception while the run lasts ends it; one from the flush at its normal *)
(* end is caught and the flush repeated; one from the flush of a handler that *)
(* is not guarded ends the process; a guarded one is swallowed.               *)
Thrown ==
  \/ /\ caller = "run" \/ ending = "normal"
     /\ main' = "finish" /\ ending' = "error"
  \/ /\ caller = "finish" /\ ending = "closed"
     /\ main' = "terminated" /\ UNCHANGED ending
  \/ /\ caller = "finish" /\ ending = "error"
     /\ main' = "ended" /\ UNCHANGED ending

CheckWorker ==
  /\ main = "check"
  /\ IF failed THEN Thrown
     ELSE main' = (IF caller = "run" THEN "run" ELSE "stop") /\ UNCHANGED ending
  /\ UNCHANGED <<caller, partial, sent, wav, ring, flags, workerVars, device>>

(* "normal": the program returned; "closed": its window was closed or the     *)
(* capture is complete; "error": any other exception.                         *)
EndRun(how) ==
  /\ main = "run"
  /\ main' = "finish" /\ ending' = how
  /\ UNCHANGED <<caller, partial, sent, wav, ring, flags, workerVars, device>>

FlushStaging ==
  /\ main = "finish"
  /\ caller' = "finish" /\ partial' = FALSE
  /\ IF partial THEN Enqueue /\ main' = "start"
     ELSE main' = "stop" /\ UNCHANGED <<ring, sent>>
  /\ UNCHANGED <<ending, wav, flags, workerVars, device>>

RequestStop ==
  /\ main = "stop"
  /\ IF workerStarted THEN stop' = TRUE /\ main' = "join"
     ELSE UNCHANGED stop /\ main' = "reset"
  /\ UNCHANGED <<caller, ending, partial, sent, wav, ring, workerStarted, failed, workerVars, device>>

Join ==
  /\ main = "join" /\ worker = "exited"
  /\ workerStarted' = FALSE /\ main' = "reset"
  /\ UNCHANGED <<caller, ending, partial, sent, wav, ring, stop, failed, workerVars, device>>

(* The stream is cleared, then the capture is written.                        *)
Reset ==
  /\ main = "reset"
  /\ ring' = << >> /\ active' = << >> /\ played' = 0 /\ partial' = FALSE
  /\ stop' = FALSE /\ failed' = FALSE
  /\ wav' = TRUE /\ main' = "ended"
  /\ UNCHANGED <<caller, ending, sent, workerStarted, workerVars, playing, heard>>

Main == \/ StartWorker \/ CheckWorker \/ FlushStaging \/ RequestStop \/ Join \/ Reset

-----------------------------------------------------------------------------
(* The worker.                                                               *)

Fail == worker' = "failing" /\ broken' = TRUE

Open ==
  /\ worker = "open"
  /\ \/ worker' = "top" /\ playing' = FALSE /\ UNCHANGED broken
     \/ Fail /\ UNCHANGED playing
  /\ UNCHANGED <<mainVars, ring, flags, stopping, real, active, played, heard>>

Undone == SubSeq(active, played + 1, Len(active))

(* Chunks the device is done with leave the queue; an empty queue stops      *)
(* playback until it is prefilled again.                                     *)
Top ==
  /\ worker = "top"
  /\ active' = Undone /\ played' = 0
  /\ playing' = (playing /\ Undone # << >>)
  /\ stopping' = stop /\ real' = FALSE
  /\ worker' = "fill"
  /\ UNCHANGED <<mainVars, ring, flags, broken, heard>>

(* mutant: playback starts only with a longer queue than the worker builds *)
MaybeStartLate(queue) ==
  IF ~playing /\ Len(queue) > Target THEN playing' = TRUE ELSE UNCHANGED playing

(* aica_host_worker_maybe_start, when the device agrees. *)
MaybeStart(queue) ==
  IF ~playing /\ Len(queue) >= Prefill THEN playing' = TRUE ELSE UNCHANGED playing

CanFill == Len(active) < Target /\ ring # << >>

(* mutant: the newest chunk is taken first *)
FillNewest ==
  /\ worker = "fill" /\ CanFill
  /\ ring' = SubSeq(ring, 1, Len(ring) - 1)
  /\ active' = Append(active, ring[Len(ring)])
  /\ MaybeStart(active') /\ real' = TRUE
  /\ UNCHANGED <<mainVars, flags, worker, stopping, broken, played, heard>>

(* One chunk goes from the ring to the device, which may refuse it or refuse  *)
(* to start.                                                                  *)
Fill ==
  /\ worker = "fill" /\ CanFill
  /\ ring' = Tail(ring)
  /\ \/ /\ active' = Append(active, Head(ring))
        /\ MaybeStart(active') /\ real' = TRUE
        /\ UNCHANGED <<worker, broken>>
     \/ /\ \/ UNCHANGED active
           \/ /\ ~playing /\ Len(active) + 1 >= Prefill
              /\ active' = Append(active, Head(ring))
        /\ Fail
        /\ UNCHANGED <<playing, real>>
  /\ UNCHANGED <<mainVars, flags, stopping, played, heard>>

FillDone ==
  /\ worker = "fill" /\ ~CanFill
  /\ worker' = "pad"
  /\ UNCHANGED <<mainVars, ring, flags, stopping, real, broken, device>>

Starved == ~stopping /\ playing /\ ~real /\ Len(active) <= LowWater

Padded == IF Starved THEN active \o [i \in 1 .. Target - Len(active) |-> Silence] ELSE active

Pad ==
  /\ worker = "pad"
  /\ \/ active' = Padded /\ MaybeStart(Padded) /\ worker' = "drain" /\ UNCHANGED broken
     \/ /\ Starved \/ (~playing /\ Len(active) >= Prefill)
        /\ Fail
        /\ UNCHANGED <<active, playing>>
  /\ UNCHANGED <<mainVars, ring, flags, stopping, real, played, heard>>

(* mutant: the worker leaves as soon as the ring is empty *)
DrainUnplayed ==
  /\ worker = "drain"
  /\ worker' = IF stopping /\ ring = << >> THEN "exited" ELSE "top"
  /\ UNCHANGED <<mainVars, ring, flags, stopping, real, broken, device>>

(* mutant: what the device holds at the end is never started *)
DrainPaused ==
  /\ worker = "drain"
  /\ worker' = IF stopping /\ ring = << >> /\ active = << >> THEN "exited" ELSE "top"
  /\ UNCHANGED <<mainVars, ring, flags, stopping, real, broken, device>>

(* The end of a round.  When a stop was seen and the ring is empty, what the  *)
(* device holds is started if need be and played to its end; only then does  *)
(* the worker leave.                                                         *)
Drain ==
  /\ worker = "drain"
  /\ LET last == stopping /\ ring = << >>
     IN  /\ worker' = IF last /\ active = << >> THEN "exited" ELSE "top"
         /\ playing' \in IF last /\ active # << >> THEN {playing, TRUE} ELSE {playing}
  /\ UNCHANGED <<mainVars, ring, flags, stopping, real, broken, active, played, heard>>

(* The same when the device agrees to start.                                 *)
DrainStarts == Drain /\ playing'

ReportFailure ==
  /\ worker = "failing"
  /\ failed' = TRUE /\ stop' = TRUE
  /\ worker' = "closing"
  /\ UNCHANGED <<mainVars, ring, workerStarted, stopping, real, broken, device>>

CloseDevice ==
  /\ worker = "closing"
  /\ active' = << >> /\ played' = 0
  /\ worker' = "exited"
  /\ UNCHANGED <<mainVars, ring, flags, stopping, real, broken, playing, heard>>

Worker == Open \/ Top \/ Fill \/ FillDone \/ Pad \/ Drain \/ ReportFailure \/ CloseDevice

-----------------------------------------------------------------------------
(* The device plays the queue in order while playback is on.                 *)
Play ==
  /\ playing /\ played < Len(active)
  /\ played' = played + 1
  /\ heard' = IF active[played + 1] = Silence THEN heard ELSE Append(heard, active[played + 1])
  /\ UNCHANGED <<mainVars, ring, flags, workerVars, active, playing>>

(* The run is over, and so is the worker.                                    *)
Over == /\ main \in {"ended", "terminated"}
        /\ worker \in {"none", "exited"} \/ main = "terminated"

Next ==
  \/ MixSample
  \/ CompleteChunk
  \/ \E how \in {"normal", "closed", "error"} : EndRun(how)
  \/ Main
  \/ main # "terminated" /\ (Worker \/ Play)
  \/ Over /\ UNCHANGED vars

(* Both threads are scheduled, the device plays what it was given, and it     *)
(* does not refuse for ever to start what is left at the end.                *)
Fairness ==
  /\ WF_vars(Main)
  /\ WF_vars(main # "terminated" /\ Worker)
  /\ WF_vars(main # "terminated" /\ Play)
  /\ SF_vars(DrainStarts)

Spec == Init /\ [][Next]_vars /\ Fairness

-----------------------------------------------------------------------------
(* Properties.                                                               *)

Ids(queue) == {queue[k] : k \in DOMAIN queue} \ {Silence}

(* Every variable keeps its type, and neither queue outgrows its capacity:   *)
(* kAicaHostRingChunks bounds the producer's ring, kAicaHostTargetChunks the *)
(* device queue, padding included.                                           *)
TypeOK ==
  /\ main \in {"run", "start", "check", "finish", "stop", "join", "reset", "ended", "terminated"}
  /\ caller \in {"run", "finish"}
  /\ ending \in {"none", "normal", "closed", "error"}
  /\ partial \in BOOLEAN /\ sent \in Nat /\ wav \in BOOLEAN
  /\ ring \in Seq(Nat \ {0}) /\ Len(ring) <= RingChunks
  /\ workerStarted \in BOOLEAN /\ stop \in BOOLEAN /\ failed \in BOOLEAN
  /\ worker \in {"none", "open", "top", "fill", "pad", "drain", "failing", "closing", "exited"}
  /\ stopping \in BOOLEAN /\ real \in BOOLEAN /\ broken \in BOOLEAN
  /\ active \in Seq(Nat) /\ Len(active) <= Target /\ played \in 0 .. Len(active)
  /\ playing \in BOOLEAN
  /\ heard \in Seq(Nat \ {0})

(* What was mixed and is neither heard nor given up. *)
Waiting == Ids(Undone) \cup Ids(ring)

(* Playback as a listener knows it: what the two threads, the ring and the   *)
(* device queue do together is the lossy ordered playback of Playback.tla    *)
(* (drop-oldest of aica_host_ring_enqueue, drain of aica_host_worker_loop,   *)
(* join and reset of aica_host_stream_finish).                               *)
P == INSTANCE Playback WITH
       Backlog <- RingChunks,
       waiting <- Waiting,
       over    <- main \in {"ended", "terminated"}

PlaybackSpec == P!Spec

(* The ring gives up a chunk only for one that is fresher: unless the device *)
(* failed, the last RingChunks chunks mixed in a run have all been heard     *)
(* when aica_host_stream_finish returns, the forced partial one included.    *)
FreshestHeard ==
  main = "ended" /\ ~broken =>
    \A n \in 1 .. sent : n > sent - RingChunks => \E k \in DOMAIN heard : heard[k] = n

(* aica_host_stream_finish returns or throws: the join in it waits for a     *)
(* worker that drains, restarts a queue shorter than the prefill, and leaves.*)
FinishEnds == main = "finish" ~> main \in {"ended", "terminated"}

(* A chunk in the ring is taken or displaced, or the worker has failed, even *)
(* when the emulator mixes nothing more: playback restarts after every       *)
(* underrun, so the device queue does not stay full.                         *)
RingServed ==
  \A n \in 1 .. MaxChunks :
    (\E k \in DOMAIN ring : ring[k] = n) ~> (failed \/ ~ \E k \in DOMAIN ring : ring[k] = n)
=============================================================================
