---------------------------- MODULE AudioProofs ----------------------------
(***************************************************************************)
(* Audio playback is lossy, ordered playback, for every ring, queue and    *)
(* prefill size.  The argument: the ring always holds the last chunks mixed *)
(* without a gap (RingContiguous), the device queue holds older ones in     *)
(* order (DeviceOrdered), and the hand-shake of the two threads makes the    *)
(* worker leave only after both are empty (Handshake).                      *)
(***************************************************************************)
EXTENDS AudioStream, TLAPS, SequenceTheorems

RingContiguous == \A i \in 1 .. Len(ring) : ring[i] = sent - Len(ring) + i

DeviceOrdered ==
  /\ \A i \in 1 .. Len(active) : active[i] <= sent - Len(ring)
  /\ \A i, j \in 1 .. Len(active) :
       i < j /\ active[i] # Silence /\ active[j] # Silence => active[i] < active[j]

Handshake ==
  /\ failed \/ worker \in {"failing", "closing"} => broken
  /\ stop /\ ~broken => main \in {"join", "reset"}
  /\ stopping /\ worker \in {"fill", "pad", "drain"} => stop
  /\ main = "reset" => worker \in {"none", "exited"}
  /\ workerStarted => worker # "none"
  /\ ~workerStarted /\ main \notin {"reset", "ended"} => worker = "none"
  /\ main \in {"check", "join"} => workerStarted
  /\ worker = "none" /\ main # "start" => ring = << >>
  /\ worker \in {"none", "open"} => active = << >>
  /\ worker = "exited" /\ ~broken => /\ ring = << >> /\ active = << >>
                                     /\ main \in {"join", "reset", "ended"}
  /\ main = "ended" /\ ~broken => worker \in {"none", "exited"}

Inv == TypeOK /\ RingContiguous /\ DeviceOrdered /\ Handshake

LEMMA InitInv == Init => Inv
<1> SUFFICES ASSUME Init PROVE Inv
  OBVIOUS
<1> USE SizeAssumption DEF Init
<1>1. << >> \in Seq(Nat) /\ << >> \in Seq(Nat \ {0}) /\ Len(<< >>) = 0
  BY EmptySeq
<1>2. ring \in Seq(Nat \ {0}) /\ Len(ring) <= RingChunks /\ heard \in Seq(Nat \ {0})
  BY <1>1
<1>3. active \in Seq(Nat) /\ Len(active) <= Target /\ played \in 0 .. Len(active)
  BY <1>1
<1>4. TypeOK
  BY <1>2, <1>3 DEF TypeOK
<1>5. RingContiguous /\ DeviceOrdered
  BY DEF RingContiguous, DeviceOrdered
<1>6. Handshake
  BY DEF Handshake
<1>. QED  BY <1>4, <1>5, <1>6 DEF Inv

LEMMA EnqueueRing ==
  ASSUME TypeOK, RingContiguous, DeviceOrdered, Enqueue, UNCHANGED active
  PROVE  /\ ring' \in Seq(Nat \ {0}) /\ Len(ring') <= RingChunks /\ ring' # << >>
         /\ sent' \in Nat
         /\ RingContiguous'
         /\ DeviceOrdered'
<1> USE SizeAssumption DEF TypeOK
<1>1. sent + 1 \in Nat \ {0}
  OBVIOUS
<1>2. CASE Len(ring) = RingChunks
  <2>1. ring # << >> /\ ring' = Append(Tail(ring), sent + 1)
    BY <1>2 DEF Enqueue
  <2>2. /\ Tail(ring) \in Seq(Nat \ {0}) /\ Len(Tail(ring)) = Len(ring) - 1
        /\ \A i \in 1 .. Len(ring) - 1 : Tail(ring)[i] = ring[i + 1]
    BY <2>1, HeadTailProperties
  <2>3. /\ ring' \in Seq(Nat \ {0}) /\ Len(ring') = Len(ring)
        /\ \A i \in 1 .. Len(ring) - 1 : ring'[i] = ring[i + 1]
        /\ ring'[Len(ring)] = sent + 1
    BY <1>1, <2>1, <2>2, AppendProperties
  <2>4. sent' = sent + 1
    BY DEF Enqueue
  <2>5. RingContiguous'
    <3>1. SUFFICES ASSUME NEW i \in 1 .. Len(ring)
                   PROVE  ring'[i] = sent + 1 - Len(ring) + i
      BY <2>3, <2>4 DEF RingContiguous
    <3>2. CASE i = Len(ring)
      BY <2>3, <3>2
    <3>3. CASE i # Len(ring)
      <4>1. i \in 1 .. Len(ring) - 1 /\ i + 1 \in 1 .. Len(ring)
        BY <3>3
      <4>2. ring'[i] = ring[i + 1] /\ ring[i + 1] = sent - Len(ring) + (i + 1)
        BY <2>3, <4>1 DEF RingContiguous
      <4>. QED  BY <4>2
    <3>. QED  BY <3>2, <3>3
  <2>6. DeviceOrdered'
    <3>1. Len(ring) \in Nat /\ sent \in Nat /\ Len(ring') = Len(ring) /\ sent' = sent + 1 /\ active' = active
      BY <2>3, <2>4
    <3>2. ASSUME NEW i \in 1 .. Len(active) PROVE active[i] \in Nat /\ active[i] <= sent - Len(ring)
      <4>1. active[i] <= sent - Len(ring)
        BY DEF DeviceOrdered
      <4>. QED  BY <4>1, ElementOfSeq
    <3> HIDE DEF TypeOK
    <3>3. \A i \in 1 .. Len(active') : active'[i] <= sent' - Len(ring')
      BY <3>1, <3>2
    <3>. QED  BY <3>1, <3>3 DEF DeviceOrdered
  <2>7. ring' # << >>
    <3>1. Len(ring') # 0
      <4> HIDE DEF TypeOK
      <4>. QED  BY <1>2, <2>3
    <3> HIDE DEF TypeOK
    <3>. QED  BY <3>1, EmptySeq
  <2>8. Len(ring') <= RingChunks
    BY <1>2, <2>3
  <2>9. sent' \in Nat
    BY <1>1, <2>4
  <2>. QED  BY <2>3, <2>5, <2>6, <2>7, <2>8, <2>9
<1>3. CASE Len(ring) # RingChunks
  <2>1. ring' = Append(ring, sent + 1) /\ sent' = sent + 1
    BY <1>3 DEF Enqueue
  <2>2. /\ ring' \in Seq(Nat \ {0}) /\ Len(ring') = Len(ring) + 1
        /\ \A i \in 1 .. Len(ring) : ring'[i] = ring[i]
        /\ ring'[Len(ring) + 1] = sent + 1
    BY <1>1, <2>1, AppendProperties
  <2>3. RingContiguous'
    <3>1. SUFFICES ASSUME NEW i \in 1 .. Len(ring) + 1
                   PROVE  ring'[i] = sent + 1 - (Len(ring) + 1) + i
      BY <2>1, <2>2 DEF RingContiguous
    <3>2. CASE i = Len(ring) + 1
      BY <2>2, <3>2
    <3>3. CASE i # Len(ring) + 1
      <4>1. i \in 1 .. Len(ring)
        BY <3>3
      <4>2. ring'[i] = ring[i] /\ ring[i] = sent - Len(ring) + i
        BY <2>2, <4>1 DEF RingContiguous
      <4>. QED  BY <4>2
    <3>. QED  BY <3>2, <3>3
  <2>4. DeviceOrdered'
    BY <2>1, <2>2 DEF DeviceOrdered
  <2>5. Len(ring) \in Nat /\ Len(ring) + 1 <= RingChunks /\ Len(ring) + 1 # 0
    <3>1. Len(ring) \in Nat /\ Len(ring) <= RingChunks
      BY LenProperties
    <3>. QED  BY <1>3, <3>1
  <2>6. ring' # << >>
    BY <2>2, <2>5, EmptySeq
  <2>7. Len(ring') <= RingChunks
    BY <2>2, <2>5
  <2>8. sent' \in Nat
    BY <1>1, <2>1
  <2>. QED  BY <2>2, <2>3, <2>4, <2>6, <2>7, <2>8
<1>. QED  BY <1>2, <1>3

LEMMA PaddedQueue ==
  ASSUME TypeOK
  PROVE  /\ Padded \in Seq(Nat) /\ Len(Padded) \in Len(active) .. Target
         /\ \A i \in 1 .. Len(active) : Padded[i] = active[i]
         /\ \A i \in Len(active) + 1 .. Len(Padded) : Padded[i] = Silence
<1> USE SizeAssumption DEF TypeOK
<1>1. CASE Starved
  <2>. DEFINE n == Target - Len(active)
              pad == [i \in 1 .. n |-> Silence]
  <2>1. n \in Nat
    OBVIOUS
  <2>2. pad \in Seq(Nat) /\ Len(pad) = n /\ \A i \in 1 .. n : pad[i] = Silence
    BY <2>1 DEF Silence
  <2>3. Padded = active \o pad
    BY <1>1 DEF Padded
  <2>. HIDE DEF pad
  <2>4. /\ Padded \in Seq(Nat) /\ Len(Padded) = Len(active) + n
        /\ \A i \in 1 .. Len(active) + n :
             Padded[i] = IF i <= Len(active) THEN active[i] ELSE pad[i - Len(active)]
    <3>1. active \in Seq(Nat)
      OBVIOUS
    <3> HIDE DEF TypeOK, n
    <3>2. /\ active \o pad \in Seq(Nat) /\ Len(active \o pad) = Len(active) + Len(pad)
          /\ \A i \in 1 .. Len(active) + Len(pad) :
               (active \o pad)[i] = IF i <= Len(active) THEN active[i] ELSE pad[i - Len(active)]
      BY <2>2, <3>1, ConcatProperties
    <3>. QED  BY <2>2, <2>3, <3>2
  <2>5. \A i \in 1 .. Len(active) : Padded[i] = active[i]
    BY <2>1, <2>4
  <2>6. \A i \in Len(active) + 1 .. Len(active) + n : Padded[i] = Silence
    <3>1. SUFFICES ASSUME NEW i \in Len(active) + 1 .. Len(active) + n PROVE Padded[i] = Silence
      OBVIOUS
    <3>2. i \in 1 .. Len(active) + n /\ ~(i <= Len(active)) /\ i - Len(active) \in 1 .. n
      BY <2>1
    <3>3. Padded[i] = pad[i - Len(active)]
      BY <2>4, <3>2
    <3>. QED  BY <2>2, <3>2, <3>3
  <2>7. Len(Padded) \in Len(active) .. Target
    BY <2>1, <2>4
  <2>. QED  BY <2>4, <2>5, <2>6, <2>7
<1>2. CASE ~Starved
  BY <1>2 DEF Padded
<1>. QED  BY <1>1, <1>2

LEMMA UndoneQueue ==
  ASSUME TypeOK
  PROVE  /\ Undone \in Seq(Nat) /\ Len(Undone) = Len(active) - played
         /\ \A i \in 1 .. Len(Undone) : Undone[i] = active[played + i]
<1>1. /\ active \in Seq(Nat) /\ played + 1 \in 1 .. Len(active) + 1 /\ Len(active) \in Nat
      /\ played \in 0 .. Len(active)
  BY DEF TypeOK
<1>. DEFINE sub == SubSeq(active, played + 1, Len(active))
<1>2. /\ sub \in Seq(Nat) /\ Len(sub) = Len(active) - played
      /\ \A i \in 1 .. Len(sub) : sub[i] = active[played + i]
  BY <1>1, SubSeqProperties
<1>. QED  BY <1>2 DEF Undone
(* One case per action; under it one step per part of the invariant.        *)
LEMMA StepInv == Inv /\ [Next]_vars => Inv'
<1> SUFFICES ASSUME Inv, [Next]_vars PROVE Inv'
  OBVIOUS
<1> USE SizeAssumption
<1>0. TypeOK /\ RingContiguous /\ DeviceOrdered /\ Handshake
  BY DEF Inv
<1> USE <1>0
<1>1. CASE MixSample
  <2>1. UNCHANGED <<ring, sent, active, played, heard>>
    BY <1>1 DEF MixSample, vars, mainVars, workerVars, device, flags
  <2>2. TypeOK'
    BY <1>1, <2>1 DEF MixSample, TypeOK, mainVars, workerVars, device, flags
  <2>3. RingContiguous' /\ DeviceOrdered'
    BY <2>1 DEF RingContiguous, DeviceOrdered
  <2>4. Handshake'
    BY <1>1, <2>1 DEF MixSample, TypeOK, Handshake, mainVars, workerVars, device, flags
  <2>. QED  BY <2>2, <2>3, <2>4 DEF Inv
<1>2. ASSUME NEW how \in {"normal", "closed", "error"}, EndRun(how) PROVE Inv'
  <2>1. UNCHANGED <<ring, sent, active, played, heard>>
    BY <1>2 DEF EndRun, vars, mainVars, workerVars, device, flags
  <2>2. TypeOK'
    BY <1>2, <2>1 DEF EndRun, TypeOK, mainVars, workerVars, device, flags
  <2>3. RingContiguous' /\ DeviceOrdered'
    BY <2>1 DEF RingContiguous, DeviceOrdered
  <2>4. Handshake'
    BY <1>2, <2>1 DEF EndRun, TypeOK, Handshake, mainVars, workerVars, device, flags
  <2>. QED  BY <2>2, <2>3, <2>4 DEF Inv
<1>3. CASE StartWorker
  <2>1. UNCHANGED <<ring, sent, active, played, heard>>
    BY <1>3 DEF StartWorker, vars, mainVars, workerVars, device, flags
  <2>2. TypeOK'
    <3>1. /\ partial' \in BOOLEAN /\ wav' \in BOOLEAN /\ workerStarted' \in BOOLEAN /\ stop' \in BOOLEAN
          /\ failed' \in BOOLEAN /\ stopping' \in BOOLEAN /\ real' \in BOOLEAN
          /\ broken' \in BOOLEAN /\ playing' \in BOOLEAN
      BY <1>3, <2>1, Zenon DEF StartWorker, TypeOK, mainVars, workerVars, device, flags
    <3>2. /\ main' \in {"run", "start", "check", "finish", "stop", "join", "reset", "ended", "terminated"}
          /\ caller' \in {"run", "finish"} /\ ending' \in {"none", "normal", "closed", "error"}
          /\ worker' \in {"none", "open", "top", "fill", "pad", "drain", "failing", "closing", "exited"}
      BY <1>3, <2>1 DEF StartWorker, TypeOK, mainVars, workerVars, device, flags
    <3>. QED  BY <1>3, <2>1, <3>1, <3>2 DEF TypeOK
  <2>3. RingContiguous' /\ DeviceOrdered'
    BY <2>1 DEF RingContiguous, DeviceOrdered
  <2>4. Handshake'
    BY <1>3, <2>1 DEF StartWorker, TypeOK, Handshake, mainVars, workerVars, device, flags
  <2>. QED  BY <2>2, <2>3, <2>4 DEF Inv
<1>4. CASE CheckWorker
  <2>1. UNCHANGED <<ring, sent, active, played, heard>>
    BY <1>4 DEF CheckWorker, Thrown, vars, mainVars, workerVars, device, flags
  <2>2. TypeOK'
    BY <1>4, <2>1 DEF CheckWorker, Thrown, TypeOK, mainVars, workerVars, device, flags
  <2>3. RingContiguous' /\ DeviceOrdered'
    BY <2>1 DEF RingContiguous, DeviceOrdered
  <2>4. Handshake'
    BY <1>4, <2>1 DEF CheckWorker, Thrown, TypeOK, Handshake, mainVars, workerVars, device, flags
  <2>. QED  BY <2>2, <2>3, <2>4 DEF Inv
<1>5. CASE RequestStop
  <2>1. UNCHANGED <<ring, sent, active, played, heard>>
    BY <1>5 DEF RequestStop, vars, mainVars, workerVars, device, flags
  <2>2. TypeOK'
    <3>1. /\ partial' \in BOOLEAN /\ wav' \in BOOLEAN /\ workerStarted' \in BOOLEAN /\ stop' \in BOOLEAN
          /\ failed' \in BOOLEAN /\ stopping' \in BOOLEAN /\ real' \in BOOLEAN
          /\ broken' \in BOOLEAN /\ playing' \in BOOLEAN
      BY <1>5, <2>1, Zenon DEF RequestStop, TypeOK, mainVars, workerVars, device, flags
    <3>2. /\ main' \in {"run", "start", "check", "finish", "stop", "join", "reset", "ended", "terminated"}
          /\ caller' \in {"run", "finish"} /\ ending' \in {"none", "normal", "closed", "error"}
          /\ worker' \in {"none", "open", "top", "fill", "pad", "drain", "failing", "closing", "exited"}
      BY <1>5, <2>1 DEF RequestStop, TypeOK, mainVars, workerVars, device, flags
    <3>. QED  BY <1>5, <2>1, <3>1, <3>2 DEF TypeOK
  <2>3. RingContiguous' /\ DeviceOrdered'
    BY <2>1 DEF RingContiguous, DeviceOrdered
  <2>4. Handshake'
    BY <1>5, <2>1 DEF RequestStop, TypeOK, Handshake, mainVars, workerVars, device, flags
  <2>. QED  BY <2>2, <2>3, <2>4 DEF Inv
<1>6. CASE Join
  <2>1. UNCHANGED <<ring, sent, active, played, heard>>
    BY <1>6 DEF Join, vars, mainVars, workerVars, device, flags
  <2>2. TypeOK'
    <3>1. /\ partial' \in BOOLEAN /\ wav' \in BOOLEAN /\ workerStarted' \in BOOLEAN /\ stop' \in BOOLEAN
          /\ failed' \in BOOLEAN /\ stopping' \in BOOLEAN /\ real' \in BOOLEAN
          /\ broken' \in BOOLEAN /\ playing' \in BOOLEAN
      BY <1>6, <2>1, Zenon DEF Join, TypeOK, mainVars, workerVars, device, flags
    <3>2. /\ main' \in {"run", "start", "check", "finish", "stop", "join", "reset", "ended", "terminated"}
          /\ caller' \in {"run", "finish"} /\ ending' \in {"none", "normal", "closed", "error"}
          /\ worker' \in {"none", "open", "top", "fill", "pad", "drain", "failing", "closing", "exited"}
      BY <1>6 DEF Join, TypeOK, mainVars, workerVars, device, flags
    <3>. QED  BY <2>1, <3>1, <3>2 DEF TypeOK
  <2>3. RingContiguous' /\ DeviceOrdered'
    BY <2>1 DEF RingContiguous, DeviceOrdered
  <2>4. Handshake'
    BY <1>6, <2>1 DEF Join, TypeOK, Handshake, mainVars, workerVars, device, flags
  <2>. QED  BY <2>2, <2>3, <2>4 DEF Inv
<1>7. CASE Open
  <2>1. UNCHANGED <<ring, sent, active, played, heard>>
    BY <1>7 DEF Open, Fail, vars, mainVars, workerVars, device, flags
  <2>2. TypeOK'
    <3>1. /\ partial' \in BOOLEAN /\ wav' \in BOOLEAN /\ workerStarted' \in BOOLEAN /\ stop' \in BOOLEAN
          /\ failed' \in BOOLEAN /\ stopping' \in BOOLEAN /\ real' \in BOOLEAN
          /\ broken' \in BOOLEAN /\ playing' \in BOOLEAN
      BY <1>7, <2>1, Zenon DEF Open, Fail, TypeOK, mainVars, workerVars, device, flags
    <3>2. /\ main' \in {"run", "start", "check", "finish", "stop", "join", "reset", "ended", "terminated"}
          /\ caller' \in {"run", "finish"} /\ ending' \in {"none", "normal", "closed", "error"}
          /\ worker' \in {"none", "open", "top", "fill", "pad", "drain", "failing", "closing", "exited"}
      BY <1>7, <2>1 DEF Open, Fail, TypeOK, mainVars, workerVars, device, flags
    <3>. QED  BY <1>7, <2>1, <3>1, <3>2 DEF TypeOK
  <2>3. RingContiguous' /\ DeviceOrdered'
    BY <2>1 DEF RingContiguous, DeviceOrdered
  <2>4. Handshake'
    BY <1>7, <2>1 DEF Open, Fail, TypeOK, Handshake, mainVars, workerVars, device, flags
  <2>. QED  BY <2>2, <2>3, <2>4 DEF Inv
<1>8. CASE FillDone
  <2>1. UNCHANGED <<ring, sent, active, played, heard>>
    BY <1>8 DEF FillDone, vars, mainVars, workerVars, device, flags
  <2>2. TypeOK'
    BY <1>8, <2>1 DEF FillDone, TypeOK, mainVars, workerVars, device, flags
  <2>3. RingContiguous' /\ DeviceOrdered'
    BY <2>1 DEF RingContiguous, DeviceOrdered
  <2>4. Handshake'
    BY <1>8, <2>1 DEF FillDone, TypeOK, Handshake, mainVars, workerVars, device, flags
  <2>. QED  BY <2>2, <2>3, <2>4 DEF Inv
<1>9. CASE Drain
  <2>1. UNCHANGED <<ring, sent, active, played, heard>>
    BY <1>9 DEF Drain, vars, mainVars, workerVars, device, flags
  <2>2. TypeOK'
    <3>1. /\ partial' \in BOOLEAN /\ wav' \in BOOLEAN /\ workerStarted' \in BOOLEAN /\ stop' \in BOOLEAN
          /\ failed' \in BOOLEAN /\ stopping' \in BOOLEAN /\ real' \in BOOLEAN
          /\ broken' \in BOOLEAN /\ playing' \in BOOLEAN
      BY <1>9, <2>1, Zenon DEF Drain, TypeOK, mainVars, workerVars, device, flags
    <3>2. /\ main' \in {"run", "start", "check", "finish", "stop", "join", "reset", "ended", "terminated"}
          /\ caller' \in {"run", "finish"} /\ ending' \in {"none", "normal", "closed", "error"}
          /\ worker' \in {"none", "open", "top", "fill", "pad", "drain", "failing", "closing", "exited"}
      BY <1>9, <2>1 DEF Drain, TypeOK, mainVars, workerVars, device, flags
    <3>. QED  BY <1>9, <2>1, <3>1, <3>2 DEF TypeOK
  <2>3. RingContiguous' /\ DeviceOrdered'
    BY <2>1 DEF RingContiguous, DeviceOrdered
  <2>4. Handshake'
    BY <1>9, <2>1 DEF Drain, TypeOK, Handshake, mainVars, workerVars, device, flags
  <2>. QED  BY <2>2, <2>3, <2>4 DEF Inv
<1>10. CASE ReportFailure
  <2>1. UNCHANGED <<ring, sent, active, played, heard>>
    BY <1>10 DEF ReportFailure, vars, mainVars, workerVars, device, flags
  <2>2. TypeOK'
    BY <1>10, <2>1 DEF ReportFailure, TypeOK, mainVars, workerVars, device, flags
  <2>3. RingContiguous' /\ DeviceOrdered'
    BY <2>1 DEF RingContiguous, DeviceOrdered
  <2>4. Handshake'
    BY <1>10, <2>1 DEF ReportFailure, TypeOK, Handshake, mainVars, workerVars, device, flags
  <2>. QED  BY <2>2, <2>3, <2>4 DEF Inv
<1>11. CASE CompleteChunk
  <2>1. Enqueue /\ UNCHANGED active
    BY <1>11 DEF CompleteChunk, device
  <2>2. /\ ring' \in Seq(Nat \ {0}) /\ Len(ring') <= RingChunks /\ ring' # << >> /\ sent' \in Nat
        /\ RingContiguous' /\ DeviceOrdered'
    BY <2>1, EnqueueRing
  <2>3. TypeOK'
    <3>1. /\ partial' \in BOOLEAN /\ wav' \in BOOLEAN /\ workerStarted' \in BOOLEAN /\ stop' \in BOOLEAN
          /\ failed' \in BOOLEAN /\ stopping' \in BOOLEAN /\ real' \in BOOLEAN
          /\ broken' \in BOOLEAN /\ playing' \in BOOLEAN
      BY <1>11, <2>2, Zenon DEF CompleteChunk, TypeOK, mainVars, workerVars, device, flags
    <3>2. /\ main' \in {"run", "start", "check", "finish", "stop", "join", "reset", "ended", "terminated"}
          /\ caller' \in {"run", "finish"} /\ ending' \in {"none", "normal", "closed", "error"}
          /\ worker' \in {"none", "open", "top", "fill", "pad", "drain", "failing", "closing", "exited"}
      BY <1>11, <2>2 DEF CompleteChunk, TypeOK, mainVars, workerVars, device, flags
    <3>3. UNCHANGED <<active, played, heard>>
      BY <1>11 DEF CompleteChunk, mainVars, workerVars, device, flags
    <3>. QED  BY <1>11, <2>2, <3>1, <3>2, <3>3 DEF TypeOK
  <2>4. Handshake'
    BY <1>11, <2>2 DEF CompleteChunk, TypeOK, Handshake, mainVars, workerVars, device, flags
  <2>. QED  BY <2>2, <2>3, <2>4 DEF Inv
<1>12. CASE FlushStaging
  <2>1. CASE partial
    <3>1. Enqueue /\ UNCHANGED active /\ main' = "start"
      BY <1>12, <2>1 DEF FlushStaging, device
    <3>2. /\ ring' \in Seq(Nat \ {0}) /\ Len(ring') <= RingChunks /\ ring' # << >> /\ sent' \in Nat
          /\ RingContiguous' /\ DeviceOrdered'
      BY <3>1, EnqueueRing
    <3>3. TypeOK'
      <4>1. /\ partial' \in BOOLEAN /\ wav' \in BOOLEAN /\ workerStarted' \in BOOLEAN /\ stop' \in BOOLEAN
            /\ failed' \in BOOLEAN /\ stopping' \in BOOLEAN /\ real' \in BOOLEAN
            /\ broken' \in BOOLEAN /\ playing' \in BOOLEAN
        BY <1>12, <3>1, <3>2, Zenon DEF FlushStaging, TypeOK, mainVars, workerVars, device, flags
      <4>2. /\ main' \in {"run", "start", "check", "finish", "stop", "join", "reset", "ended", "terminated"}
            /\ caller' \in {"run", "finish"} /\ ending' \in {"none", "normal", "closed", "error"}
            /\ worker' \in {"none", "open", "top", "fill", "pad", "drain", "failing", "closing", "exited"}
        BY <1>12, <3>1, <3>2 DEF FlushStaging, TypeOK, mainVars, workerVars, device, flags
      <4>3. UNCHANGED <<active, played, heard>>
        BY <1>12 DEF FlushStaging, mainVars, workerVars, device, flags
      <4>. QED  BY <1>12, <3>1, <3>2, <4>1, <4>2, <4>3 DEF TypeOK
    <3>4. Handshake'
      BY <1>12, <3>1, <3>2 DEF FlushStaging, TypeOK, Handshake, mainVars, workerVars, device, flags
    <3>. QED  BY <3>2, <3>3, <3>4 DEF Inv
  <2>2. CASE ~partial
    <3>1. UNCHANGED <<ring, sent, active, played, heard>> /\ main' = "stop"
      BY <1>12, <2>2 DEF FlushStaging, mainVars, workerVars, device, flags
    <3>2. TypeOK'
      <4>1. /\ partial' \in BOOLEAN /\ wav' \in BOOLEAN /\ workerStarted' \in BOOLEAN /\ stop' \in BOOLEAN
            /\ failed' \in BOOLEAN /\ stopping' \in BOOLEAN /\ real' \in BOOLEAN
            /\ broken' \in BOOLEAN /\ playing' \in BOOLEAN
        BY <1>12, <3>1, Zenon DEF FlushStaging, TypeOK, mainVars, workerVars, device, flags
      <4>2. /\ main' \in {"run", "start", "check", "finish", "stop", "join", "reset", "ended", "terminated"}
            /\ caller' \in {"run", "finish"} /\ ending' \in {"none", "normal", "closed", "error"}
            /\ worker' \in {"none", "open", "top", "fill", "pad", "drain", "failing", "closing", "exited"}
        BY <1>12, <3>1 DEF FlushStaging, TypeOK, mainVars, workerVars, device, flags
      <4>. QED  BY <1>12, <3>1, <4>1, <4>2 DEF TypeOK
    <3>3. RingContiguous' /\ DeviceOrdered'
      BY <3>1 DEF RingContiguous, DeviceOrdered
    <3>4. Handshake'
      BY <1>12, <3>1 DEF FlushStaging, TypeOK, Handshake, mainVars, workerVars, device, flags
    <3>. QED  BY <3>2, <3>3, <3>4 DEF Inv
  <2>. QED  BY <2>1, <2>2 DEF TypeOK
<1>13. CASE Reset
  <2>1. ring' = << >> /\ active' = << >> /\ played' = 0 /\ sent' = sent /\ heard' = heard
    BY <1>13 DEF Reset, mainVars, workerVars, device, flags
  <2>2. /\ << >> \in Seq(Nat) /\ << >> \in Seq(Nat \ {0}) /\ Len(<< >>) = 0
    BY EmptySeq
  <2>3. /\ ring' \in Seq(Nat \ {0}) /\ Len(ring') <= RingChunks
        /\ active' \in Seq(Nat) /\ Len(active') <= Target /\ played' \in 0 .. Len(active')
    BY <2>1, <2>2
  <2>4. TypeOK'
    <3>1. /\ partial' \in BOOLEAN /\ wav' \in BOOLEAN /\ workerStarted' \in BOOLEAN /\ stop' \in BOOLEAN
          /\ failed' \in BOOLEAN /\ stopping' \in BOOLEAN /\ real' \in BOOLEAN
          /\ broken' \in BOOLEAN /\ playing' \in BOOLEAN
      BY <1>13, <2>1, Zenon DEF Reset, TypeOK, mainVars, workerVars, device, flags
    <3>2. /\ main' \in {"run", "start", "check", "finish", "stop", "join", "reset", "ended", "terminated"}
          /\ caller' \in {"run", "finish"} /\ ending' \in {"none", "normal", "closed", "error"}
          /\ worker' \in {"none", "open", "top", "fill", "pad", "drain", "failing", "closing", "exited"}
      BY <1>13 DEF Reset, TypeOK, mainVars, workerVars, device, flags
    <3>. QED  BY <2>1, <2>3, <3>1, <3>2 DEF TypeOK
  <2>5. RingContiguous' /\ DeviceOrdered'
    BY <2>1, <2>2 DEF RingContiguous, DeviceOrdered
  <2>6. Handshake'
    BY <1>13, <2>1 DEF Reset, TypeOK, Handshake, mainVars, workerVars, device, flags
  <2>. QED  BY <2>4, <2>5, <2>6 DEF Inv
<1>14. CASE Top
  <2>1. active' = Undone /\ played' = 0 /\ UNCHANGED <<ring, sent, heard>>
    BY <1>14 DEF Top, mainVars, workerVars, device, flags
  <2>2. /\ Undone \in Seq(Nat) /\ Len(Undone) = Len(active) - played
        /\ \A i \in 1 .. Len(Undone) : Undone[i] = active[played + i]
    BY UndoneQueue
  <2>3. active' \in Seq(Nat) /\ Len(active') <= Target /\ played' \in 0 .. Len(active')
    BY <2>1, <2>2 DEF TypeOK
  <2>4. TypeOK'
    <3>1. /\ partial' \in BOOLEAN /\ wav' \in BOOLEAN /\ workerStarted' \in BOOLEAN /\ stop' \in BOOLEAN
          /\ failed' \in BOOLEAN /\ stopping' \in BOOLEAN /\ real' \in BOOLEAN
          /\ broken' \in BOOLEAN /\ playing' \in BOOLEAN
      BY <1>14, <2>1, Zenon DEF Top, TypeOK, mainVars, workerVars, device, flags
    <3>2. /\ main' \in {"run", "start", "check", "finish", "stop", "join", "reset", "ended", "terminated"}
          /\ caller' \in {"run", "finish"} /\ ending' \in {"none", "normal", "closed", "error"}
          /\ worker' \in {"none", "open", "top", "fill", "pad", "drain", "failing", "closing", "exited"}
      BY <1>14 DEF Top, TypeOK, mainVars, workerVars, device, flags
    <3>. QED  BY <2>1, <2>3, <3>1, <3>2 DEF TypeOK
  <2>5. RingContiguous'
    BY <2>1 DEF RingContiguous
  <2>6. DeviceOrdered'
    <3>1. played \in Nat /\ Len(active) \in Nat /\ Len(ring) \in Nat /\ sent \in Nat
          /\ played <= Len(active) /\ Len(ring') = Len(ring) /\ sent' = sent
      BY <2>1 DEF TypeOK
    <3>2. ASSUME NEW i \in 1 .. Len(active')
          PROVE  played + i \in 1 .. Len(active) /\ active'[i] = active[played + i]
      BY <2>1, <2>2, <3>1
    <3>3. \A i \in 1 .. Len(active') : active'[i] <= sent' - Len(ring')
      BY <3>1, <3>2 DEF DeviceOrdered
    <3>4. ASSUME NEW i \in 1 .. Len(active'), NEW j \in 1 .. Len(active'),
                 i < j, active'[i] # Silence, active'[j] # Silence
          PROVE  active'[i] < active'[j]
      <4>1. /\ played + i \in 1 .. Len(active) /\ active'[i] = active[played + i]
            /\ played + j \in 1 .. Len(active) /\ active'[j] = active[played + j]
        BY <3>2
      <4>2. played + i < played + j
        BY <3>1, <3>4
      <4>. QED  BY <3>4, <4>1, <4>2 DEF DeviceOrdered
    <3>. QED  BY <3>3, <3>4 DEF DeviceOrdered
  <2>7. active = << >> => active' = << >>
    BY <2>1, <2>2, EmptySeq DEF TypeOK
  <2>8. Handshake'
    BY <1>14, <2>1, <2>7 DEF Top, TypeOK, Handshake, mainVars, workerVars, device, flags
  <2>. QED  BY <2>4, <2>5, <2>6, <2>8 DEF Inv
<1>15. CASE Fill
  <2>1. /\ worker = "fill" /\ Len(active) < Target /\ ring # << >> /\ ring' = Tail(ring)
        /\ UNCHANGED <<sent, played, heard>>
        /\ active' = active \/ active' = Append(active, Head(ring))
    BY <1>15 DEF Fill, CanFill, mainVars, workerVars, device, flags
  <2>2. /\ Head(ring) = sent - Len(ring) + 1 /\ Head(ring) \in Nat \ {0}
        /\ ring' \in Seq(Nat \ {0}) /\ Len(ring') = Len(ring) - 1 /\ Len(ring) \in Nat \ {0}
        /\ \A i \in 1 .. Len(ring') : ring'[i] = ring[i + 1]
    <3>1. ring \in Seq(Nat \ {0})
      BY DEF TypeOK
    <3>2. Len(ring) \in Nat \ {0}
      BY <2>1, <3>1, EmptySeq
    <3>3. Head(ring) = ring[1]
      OBVIOUS
    <3>. QED  BY <2>1, <3>1, <3>2, <3>3, HeadTailProperties DEF RingContiguous
  <2>4. /\ active' \in Seq(Nat) /\ Len(active) <= Len(active') /\ Len(active') <= Len(active) + 1
        /\ \A i \in 1 .. Len(active) : active'[i] = active[i]
        /\ \A i \in Len(active) + 1 .. Len(active') : active'[i] = Head(ring)
    <3>1. active \in Seq(Nat) /\ Head(ring) \in Nat
      BY <2>2 DEF TypeOK
    <3>2. CASE active' = active
      BY <3>1, <3>2
    <3>3. CASE active' = Append(active, Head(ring))
      BY <3>1, <3>3, AppendProperties
    <3>. QED  BY <2>1, <3>2, <3>3
  <2>5. TypeOK'
    <3>1. /\ active' \in Seq(Nat) /\ Len(active') <= Target /\ played' \in 0 .. Len(active')
          /\ ring' \in Seq(Nat \ {0}) /\ Len(ring') <= RingChunks
      BY <2>1, <2>2, <2>4 DEF TypeOK
    <3>2. worker' \in {"fill", "failing"} /\ playing' \in BOOLEAN /\ real' \in BOOLEAN /\ broken' \in BOOLEAN
      BY <1>15 DEF Fill, Fail, MaybeStart, TypeOK
    <3>. QED  BY <1>15, <2>1, <3>1, <3>2 DEF Fill, TypeOK, mainVars, workerVars, device, flags
  <2>6. RingContiguous'
    <3>1. SUFFICES ASSUME NEW i \in 1 .. Len(ring')
                   PROVE  ring'[i] = sent - (Len(ring) - 1) + i
      BY <2>1, <2>2 DEF RingContiguous
    <3>2. i + 1 \in 1 .. Len(ring) /\ ring'[i] = ring[i + 1] /\ sent \in Nat
      BY <2>2 DEF TypeOK
    <3>3. ring[i + 1] = sent - Len(ring) + (i + 1)
      BY <3>2 DEF RingContiguous
    <3>. QED  BY <2>2, <3>2, <3>3
  <2>7. DeviceOrdered'
    <3>1. /\ sent \in Nat /\ Len(ring) \in Nat /\ Len(active) \in Nat /\ Len(active') \in Nat
          /\ sent' - Len(ring') = sent - Len(ring) + 1
          /\ \A i \in 1 .. Len(active) : active[i] \in Nat
      <4>1. sent \in Nat /\ ring \in Seq(Nat \ {0}) /\ active \in Seq(Nat)
        BY DEF TypeOK
      <4>2. Len(ring) \in Nat /\ Len(active) \in Nat /\ Len(active') \in Nat
        BY <2>4, <4>1
      <4>3. sent' - Len(ring') = sent - Len(ring) + 1
        BY <2>1, <2>2, <4>1, <4>2
      <4>4. \A i \in 1 .. Len(active) : active[i] \in Nat
        BY <4>1, ElementOfSeq
      <4>. QED  BY <4>1, <4>2, <4>3, <4>4
    <3>2. ASSUME NEW i \in 1 .. Len(active') PROVE active'[i] <= sent' - Len(ring')
      <4>1. CASE i \in 1 .. Len(active)
        BY <2>4, <3>1, <4>1 DEF DeviceOrdered
      <4>2. CASE i \in Len(active) + 1 .. Len(active')
        BY <2>2, <2>4, <3>1, <4>2
      <4>. QED  BY <3>1, <4>1, <4>2
    <3>3. ASSUME NEW i \in 1 .. Len(active'), NEW j \in 1 .. Len(active'),
                 i < j, active'[i] # Silence, active'[j] # Silence
          PROVE  active'[i] < active'[j]
      <4>1. i \in 1 .. Len(active) /\ active'[i] = active[i]
        BY <2>4, <3>1, <3>3
      <4>2. CASE j \in 1 .. Len(active)
        BY <2>4, <3>3, <4>1, <4>2 DEF DeviceOrdered
      <4>3. CASE j \in Len(active) + 1 .. Len(active')
        <5>1. active[i] <= sent - Len(ring)
          BY <4>1 DEF DeviceOrdered
        <5>2. active'[j] = sent - Len(ring) + 1
          BY <2>2, <2>4, <3>1, <4>3
        <5>. QED  BY <3>1, <4>1, <5>1, <5>2
      <4>. QED  BY <3>1, <4>2, <4>3
    <3>. QED  BY <3>2, <3>3 DEF DeviceOrdered
  <2>8. Handshake'
    BY <1>15, <2>1 DEF Fill, Fail, TypeOK, Handshake, mainVars, workerVars, device, flags
  <2>. QED  BY <2>5, <2>6, <2>7, <2>8 DEF Inv
<1>16. CASE Pad
  <2>1. /\ worker = "pad" /\ UNCHANGED <<ring, sent, played, heard>>
        /\ active' = active \/ active' = Padded
    BY <1>16 DEF Pad, mainVars, workerVars, device, flags
  <2>2. /\ active' \in Seq(Nat) /\ Len(active) <= Len(active') /\ Len(active') <= Target
        /\ \A i \in 1 .. Len(active) : active'[i] = active[i]
        /\ \A i \in Len(active) + 1 .. Len(active') : active'[i] = Silence
    <3>1. CASE active' = active
      BY <3>1 DEF TypeOK
    <3>2. CASE active' = Padded
      <4>1. Len(active) \in Nat
        BY DEF TypeOK
      <4>. QED  BY <3>2, <4>1, PaddedQueue
    <3>. QED  BY <2>1, <3>1, <3>2
  <2>3. TypeOK'
    <3>1. played' \in 0 .. Len(active')
      BY <2>1, <2>2 DEF TypeOK
    <3>2. worker' \in {"drain", "failing"} /\ playing' \in BOOLEAN /\ broken' \in BOOLEAN
      BY <1>16 DEF Pad, Fail, MaybeStart, TypeOK
    <3>. QED  BY <1>16, <2>1, <2>2, <3>1, <3>2 DEF Pad, TypeOK, mainVars, workerVars, device, flags
  <2>4. RingContiguous'
    BY <2>1 DEF RingContiguous
  <2>5. DeviceOrdered'
    <3>1. /\ sent' = sent /\ Len(ring') = Len(ring) /\ sent \in Nat /\ Len(ring) \in Nat
          /\ Len(active) \in Nat /\ Len(active') \in Nat /\ Len(ring) <= sent
      <4>1. Len(ring) <= sent
        <5>1. ring \in Seq(Nat \ {0}) /\ Len(ring) \in Nat /\ sent \in Nat
          BY DEF TypeOK
        <5>2. CASE Len(ring) # 0
          <6>1. 1 \in 1 .. Len(ring)
            BY <5>1, <5>2
          <6>2. ring[1] \in Nat \ {0} /\ ring[1] = sent - Len(ring) + 1
            BY <5>1, <6>1, ElementOfSeq DEF RingContiguous
          <6>. QED  BY <5>1, <6>2
        <5>. QED  BY <5>1, <5>2
      <4>. QED  BY <2>1, <2>2, <4>1 DEF TypeOK
    <3>2. ASSUME NEW i \in 1 .. Len(active') PROVE active'[i] <= sent' - Len(ring')
      <4>1. CASE i \in 1 .. Len(active)
        BY <2>2, <3>1, <4>1 DEF DeviceOrdered
      <4>2. CASE i \in Len(active) + 1 .. Len(active')
        BY <2>2, <3>1, <4>2 DEF Silence
      <4>. QED  BY <3>1, <4>1, <4>2
    <3>3. ASSUME NEW i \in 1 .. Len(active'), NEW j \in 1 .. Len(active'),
                 i < j, active'[i] # Silence, active'[j] # Silence
          PROVE  active'[i] < active'[j]
      <4>1. i \in 1 .. Len(active) /\ j \in 1 .. Len(active)
        BY <2>2, <3>1, <3>3
      <4>. QED  BY <2>2, <3>3, <4>1 DEF DeviceOrdered
    <3>. QED  BY <3>2, <3>3 DEF DeviceOrdered
  <2>6. Handshake'
    BY <1>16, <2>1 DEF Pad, Fail, TypeOK, Handshake, mainVars, workerVars, device, flags
  <2>. QED  BY <2>3, <2>4, <2>5, <2>6 DEF Inv
<1>17. CASE CloseDevice
  <2>1. active' = << >> /\ played' = 0 /\ UNCHANGED <<ring, sent, heard>>
    BY <1>17 DEF CloseDevice, mainVars, workerVars, device, flags
  <2>2. << >> \in Seq(Nat) /\ Len(<< >>) = 0
    BY EmptySeq
  <2>3. active' \in Seq(Nat) /\ Len(active') <= Target /\ played' \in 0 .. Len(active')
    BY <2>1, <2>2
  <2>4. TypeOK'
    BY <1>17, <2>1, <2>3 DEF CloseDevice, TypeOK, mainVars, workerVars, device, flags
  <2>5. RingContiguous' /\ DeviceOrdered'
    BY <2>1, <2>2 DEF RingContiguous, DeviceOrdered
  <2>6. Handshake'
    BY <1>17, <2>1 DEF CloseDevice, TypeOK, Handshake, mainVars, workerVars, device, flags
  <2>. QED  BY <2>4, <2>5, <2>6 DEF Inv
<1>18. CASE Play
  <2>1. /\ played < Len(active) /\ played' = played + 1 /\ UNCHANGED <<ring, sent, active>>
        /\ heard' = IF active[played + 1] = Silence THEN heard ELSE Append(heard, active[played + 1])
    BY <1>18 DEF Play, mainVars, workerVars, device, flags
  <2>2. played' \in 0 .. Len(active') /\ active[played + 1] \in Nat
    BY <2>1 DEF TypeOK
  <2>3. heard' \in Seq(Nat \ {0})
    BY <2>1, <2>2, AppendProperties DEF TypeOK, Silence
  <2>4. TypeOK'
    BY <1>18, <2>1, <2>2, <2>3 DEF Play, TypeOK, mainVars, workerVars, device, flags
  <2>5. RingContiguous' /\ DeviceOrdered'
    BY <2>1 DEF RingContiguous, DeviceOrdered
  <2>6. Handshake'
    BY <1>18, <2>1 DEF Play, Handshake, mainVars, workerVars, device, flags
  <2>. QED  BY <2>4, <2>5, <2>6 DEF Inv
<1>19. CASE UNCHANGED vars
  BY <1>19 DEF vars, mainVars, workerVars, device, flags, Inv, TypeOK, RingContiguous, DeviceOrdered, Handshake
<1>. QED
  BY <1>1, <1>2, <1>3, <1>4, <1>5, <1>6, <1>7, <1>8, <1>9, <1>10, <1>11, <1>12, <1>13, <1>14, <1>15, <1>16, <1>17, <1>18, <1>19 DEF Next, Main, Worker

(* Every variable keeps its type and both queues their capacity, whatever     *)
(* the sizes: the worker's fill and pad loops and the ring's drop-oldest.     *)
THEOREM TypeCorrect == Spec => []TypeOK
<1>1. Inv => TypeOK
  BY DEF Inv
<1>. QED  BY InitInv, StepInv, <1>1, PTL DEF Spec

-----------------------------------------------------------------------------
(* The refinement.                                                           *)

WaitingIs ==
  \A c : c \in Waiting <=> \/ \E k \in played + 1 .. Len(active) : c = active[k] /\ c # Silence
                          \/ \E k \in 1 .. Len(ring) : c = ring[k]

LEMMA WaitingMembers == TypeOK => WaitingIs
<1> SUFFICES ASSUME TypeOK PROVE WaitingIs
  OBVIOUS
<1>1. /\ Undone \in Seq(Nat) /\ Len(Undone) = Len(active) - played
      /\ \A i \in 1 .. Len(Undone) : Undone[i] = active[played + i]
  BY UndoneQueue
<1>2. DOMAIN Undone = 1 .. Len(Undone) /\ DOMAIN ring = 1 .. Len(ring)
  BY <1>1 DEF TypeOK
<1>3. Len(active) \in Nat /\ played \in Nat /\ Len(ring) \in Nat
  BY DEF TypeOK
<1>4. \A k \in 1 .. Len(ring) : ring[k] # Silence
  <2>1. ring \in Seq(Nat \ {0})
    BY DEF TypeOK
  <2>. QED  BY <2>1, ElementOfSeq DEF Silence
<1>5. Ids(ring) = {ring[k] : k \in 1 .. Len(ring)}
  BY <1>2, <1>4 DEF Ids
<1>6. ASSUME NEW c
      PROVE  c \in Ids(Undone) <=> \E k \in played + 1 .. Len(active) : c = active[k] /\ c # Silence
  <2>1. c \in Ids(Undone) <=> \E k \in 1 .. Len(active) - played : c = active[played + k] /\ c # Silence
    BY <1>1, <1>2 DEF Ids
  <2>2. ASSUME NEW k \in 1 .. Len(active) - played
        PROVE  played + k \in played + 1 .. Len(active)
    BY <1>3
  <2>3. ASSUME NEW k \in played + 1 .. Len(active)
        PROVE  k - played \in 1 .. Len(active) - played /\ played + (k - played) = k
    BY <1>3
  <2>. QED  BY <2>1, <2>2, <2>3
<1>. QED  BY <1>5, <1>6 DEF Waiting, WaitingIs

(* What waits is a part of what was sent.                                    *)
LEMMA WaitingBounds ==
  ASSUME Inv
  PROVE  Waiting \subseteq 1 .. sent /\ \A k \in 1 .. Len(ring) : ring[k] \in Waiting
<1>0. TypeOK /\ RingContiguous /\ DeviceOrdered
  BY DEF Inv
<1>1. /\ sent \in Nat /\ Len(ring) \in Nat /\ played \in Nat /\ Len(active) \in Nat
      /\ \A k \in 1 .. Len(active) : active[k] \in Nat
      /\ \A k \in 1 .. Len(ring) : ring[k] \in Nat \ {0} /\ ring[k] = sent - Len(ring) + k
  <2>1. active \in Seq(Nat) /\ ring \in Seq(Nat \ {0})
    BY <1>0 DEF TypeOK
  <2>. QED  BY <1>0, <2>1, ElementOfSeq DEF TypeOK, RingContiguous
<1>2. Waiting \subseteq 1 .. sent
  <2>1. ASSUME NEW k \in played + 1 .. Len(active), active[k] # Silence PROVE active[k] \in 1 .. sent
    <3>1. k \in 1 .. Len(active)
      BY <1>1
    <3>2. active[k] <= sent - Len(ring) /\ active[k] \in Nat
      BY <1>0, <1>1, <3>1 DEF DeviceOrdered
    <3>. QED  BY <1>1, <2>1, <3>2 DEF Silence
  <2>2. ASSUME NEW k \in 1 .. Len(ring) PROVE ring[k] \in 1 .. sent
    BY <1>1
  <2>. QED  BY <1>0, <2>1, <2>2, WaitingMembers DEF WaitingIs
<1>3. \A k \in 1 .. Len(ring) : ring[k] \in Waiting
  BY <1>0, WaitingMembers DEF WaitingIs
<1>. QED  BY <1>2, <1>3

(* A chunk is mixed: the ring takes it, and gives up the RingChunks-th last   *)
(* one when it is full.                                                      *)
Mixed ==
  /\ sent' = sent + 1
  /\ \/ Waiting' = Waiting \cup {sent + 1}
     \/ /\ sent - RingChunks + 1 \in Waiting
        /\ Waiting' = (Waiting \ {sent - RingChunks + 1}) \cup {sent + 1}

LEMMA EnqueueMixes ==
  ASSUME Inv, TypeOK', Enqueue, UNCHANGED <<active, played>>
  PROVE  Mixed
<1>0. TypeOK /\ RingContiguous /\ DeviceOrdered
  BY DEF Inv
<1>1. /\ sent \in Nat /\ Len(ring) \in Nat /\ played \in Nat /\ Len(active) \in Nat
      /\ ring \in Seq(Nat \ {0}) /\ sent' = sent + 1 /\ RingChunks \in Nat \ {0}
      /\ \A k \in 1 .. Len(ring) : ring[k] = sent - Len(ring) + k
      /\ \A k \in played + 1 .. Len(active) : active[k] <= sent - Len(ring)
      /\ \A k \in played + 1 .. Len(active) : active[k] \in Nat
  <2>1. ASSUME NEW k \in played + 1 .. Len(active)
        PROVE  active[k] <= sent - Len(ring) /\ active[k] \in Nat
    <3>1. k \in 1 .. Len(active) /\ active \in Seq(Nat)
      BY <1>0 DEF TypeOK
    <3>. QED  BY <1>0, <3>1, ElementOfSeq DEF DeviceOrdered
  <2>2. /\ sent \in Nat /\ Len(ring) \in Nat /\ played \in Nat /\ Len(active) \in Nat
        /\ ring \in Seq(Nat \ {0}) /\ RingChunks \in Nat \ {0}
    BY <1>0, SizeAssumption DEF TypeOK
  <2>3. sent' = sent + 1
    BY DEF Enqueue
  <2>4. \A k \in 1 .. Len(ring) : ring[k] = sent - Len(ring) + k
    BY <1>0 DEF RingContiguous
  <2>. QED  BY <2>1, <2>2, <2>3, <2>4
<1>2. \A c : c \in Waiting <=> \/ \E k \in played + 1 .. Len(active) : c = active[k] /\ c # Silence
                               \/ \E k \in 1 .. Len(ring) : c = ring[k]
  BY <1>0, WaitingMembers DEF WaitingIs
<1>3. \A c : c \in Waiting' <=> \/ \E k \in played + 1 .. Len(active) : c = active[k] /\ c # Silence
                                \/ \E k \in 1 .. Len(ring') : c = ring'[k]
  <2>1. \A c : c \in Waiting' <=> \/ \E k \in played' + 1 .. Len(active') : c = active'[k] /\ c # Silence
                                  \/ \E k \in 1 .. Len(ring') : c = ring'[k]
    <3>1. WaitingIs'
      BY WaitingMembers, PTL
    <3>. QED  BY <3>1 DEF WaitingIs
  <2>. QED  BY <2>1
<1>4. CASE Len(ring) = RingChunks
  <2>1. ring # << >> /\ ring' = Append(Tail(ring), sent + 1)
    BY <1>1, <1>4 DEF Enqueue
  <2>2. /\ Len(ring') = Len(ring)
        /\ \A i \in 1 .. Len(ring) - 1 : ring'[i] = ring[i + 1]
        /\ ring'[Len(ring)] = sent + 1
    <3>1. /\ Tail(ring) \in Seq(Nat \ {0}) /\ Len(Tail(ring)) = Len(ring) - 1
          /\ \A i \in 1 .. Len(ring) - 1 : Tail(ring)[i] = ring[i + 1]
      BY <1>1, <2>1, HeadTailProperties
    <3>. QED  BY <1>1, <2>1, <3>1, AppendProperties
  <2>3. ring[1] = sent - RingChunks + 1 /\ ring[1] \in Waiting
    BY <1>1, <1>2, <1>4
  <2>5. ASSUME NEW c \in Waiting' PROVE c \in (Waiting \ {sent - RingChunks + 1}) \cup {sent + 1}
    <3>1. ASSUME NEW k \in played + 1 .. Len(active), c = active[k], c # Silence PROVE c \in Waiting \ {sent - RingChunks + 1}
      <4>1. c <= sent - RingChunks /\ c \in Nat
        BY <1>1, <1>4, <3>1
      <4>. QED  BY <1>1, <1>2, <3>1, <4>1
    <3>2. ASSUME NEW k \in 1 .. Len(ring), c = ring'[k], k # Len(ring) PROVE c \in Waiting \ {sent - RingChunks + 1}
      <4>1. k \in 1 .. Len(ring) - 1 /\ k + 1 \in 1 .. Len(ring)
        BY <1>1, <3>2
      <4>2. c = ring[k + 1] /\ ring[k + 1] = sent - RingChunks + (k + 1)
        BY <1>1, <1>4, <2>2, <3>2, <4>1
      <4>3. c # sent - RingChunks + 1
        BY <1>1, <4>1, <4>2
      <4>. QED  BY <1>2, <4>1, <4>2, <4>3
    <3>. QED  BY <1>3, <2>2, <2>5, <3>1, <3>2
  <2>6. ASSUME NEW c \in (Waiting \ {sent - RingChunks + 1}) \cup {sent + 1} PROVE c \in Waiting'
    <3>1. CASE c = sent + 1
      BY <1>1, <1>3, <1>4, <2>2, <3>1
    <3>2. CASE c # sent + 1
      <4>1. c \in Waiting /\ c # ring[1]
        BY <2>3, <2>6, <3>2
      <4>2. ASSUME NEW k \in 1 .. Len(ring), c = ring[k] PROVE c \in Waiting'
        <5>1. k # 1 /\ k - 1 \in 1 .. Len(ring) - 1 /\ k - 1 \in 1 .. Len(ring')
          BY <1>1, <2>2, <4>1, <4>2
        <5>2. ring'[k - 1] = ring[(k - 1) + 1] /\ (k - 1) + 1 = k
          BY <2>2, <5>1
        <5>. QED  BY <1>3, <4>2, <5>1, <5>2
      <4>. QED  BY <1>2, <1>3, <4>1, <4>2
    <3>. QED  BY <3>1, <3>2
  <2>. QED  BY <1>1, <2>3, <2>5, <2>6 DEF Mixed
<1>5. CASE Len(ring) # RingChunks
  <2>1. ring' = Append(ring, sent + 1)
    BY <1>5 DEF Enqueue
  <2>2. /\ Len(ring') = Len(ring) + 1
        /\ \A i \in 1 .. Len(ring) : ring'[i] = ring[i]
        /\ ring'[Len(ring) + 1] = sent + 1
    BY <1>1, <2>1, AppendProperties
  <2>3. ASSUME NEW c \in Waiting' PROVE c \in Waiting \cup {sent + 1}
    <3>1. ASSUME NEW k \in 1 .. Len(ring'), c = ring'[k] PROVE c \in Waiting \cup {sent + 1}
      <4>1. CASE k = Len(ring) + 1
        BY <2>2, <3>1, <4>1
      <4>2. CASE k # Len(ring) + 1
        <5>1. k \in 1 .. Len(ring)
          BY <1>1, <2>2, <4>2
        <5>. QED  BY <1>2, <2>2, <3>1, <5>1
      <4>. QED  BY <4>1, <4>2
    <3>. QED  BY <1>2, <1>3, <2>3, <3>1
  <2>4. ASSUME NEW c \in Waiting \cup {sent + 1} PROVE c \in Waiting'
    <3>1. CASE c = sent + 1
      BY <1>1, <1>3, <2>2, <3>1
    <3>2. CASE c \in Waiting
      <4>1. ASSUME NEW k \in 1 .. Len(ring), c = ring[k] PROVE c \in Waiting'
        <5>1. k \in 1 .. Len(ring') /\ ring'[k] = ring[k]
          BY <1>1, <2>2
        <5>. QED  BY <1>3, <4>1, <5>1
      <4>. QED  BY <1>2, <1>3, <3>2, <4>1
    <3>. QED  BY <2>4, <3>1, <3>2
  <2>. QED  BY <1>1, <2>3, <2>4 DEF Mixed
<1>. QED  BY <1>4, <1>5

Finished == main \in {"ended", "terminated"}

(* What a step does to playback.                                             *)
Quiet == UNCHANGED <<sent, Waiting, heard, broken, Finished>>
Fails == broken' /\ Waiting' \subseteq Waiting /\ UNCHANGED <<sent, heard, Finished>>
Mixes == Mixed /\ ~Finished /\ UNCHANGED <<heard, broken, Finished>>
Heard == /\ \E c \in Waiting : /\ \A d \in Waiting : c <= d
                               /\ Waiting' = Waiting \ {c} /\ heard' = Append(heard, c)
         /\ UNCHANGED <<sent, broken, Finished>>
Closes == /\ Waiting = {} \/ broken
          /\ Finished' /\ Waiting' \subseteq Waiting /\ UNCHANGED <<sent, heard, broken>>

(* The queues are left alone: nothing happens, a failure is met, or a failure *)
(* ends everything.                                                          *)
LEMMA QueuesKept ==
  UNCHANGED <<ring, active, played>> => Waiting' = Waiting
BY DEF Waiting, Ids, Undone

LEMMA StepKinds ==
  ASSUME Inv, Inv', [Next]_vars
  PROVE  Quiet \/ Fails \/ Mixes \/ Heard \/ Closes
<1>0. TypeOK /\ RingContiguous /\ DeviceOrdered /\ Handshake
  BY DEF Inv
<1>m. \A c : c \in Waiting <=> \/ \E k \in played + 1 .. Len(active) : c = active[k] /\ c # Silence
                               \/ \E k \in 1 .. Len(ring) : c = ring[k]
  BY <1>0, WaitingMembers DEF WaitingIs
<1>n. \A c : c \in Waiting' <=> \/ \E k \in played' + 1 .. Len(active') : c = active'[k] /\ c # Silence
                                \/ \E k \in 1 .. Len(ring') : c = ring'[k]
  <2>1. WaitingIs'
    <3>1. TypeOK'
      BY DEF Inv
    <3>. QED  BY <3>1, WaitingMembers, PTL
  <2>. QED  BY <2>1 DEF WaitingIs
<1>1. CASE MixSample
  <2>1. UNCHANGED <<ring, active, played, sent, heard, broken>>
    BY <1>1 DEF MixSample, mainVars, workerVars, device, flags
  <2>2. UNCHANGED Finished
    BY <1>1 DEF MixSample, Finished, mainVars, workerVars, device, flags
  <2>. QED  BY <2>1, <2>2, QueuesKept DEF Quiet
<1>2. ASSUME NEW how \in {"normal", "closed", "error"}, EndRun(how) PROVE Quiet
  <2>1. UNCHANGED <<ring, active, played, sent, heard, broken>>
    BY <1>2 DEF EndRun, mainVars, workerVars, device, flags
  <2>2. UNCHANGED Finished
    BY <1>2 DEF EndRun, Finished, mainVars, workerVars, device, flags
  <2>. QED  BY <2>1, <2>2, QueuesKept DEF Quiet
<1>3. CASE StartWorker
  <2>1. UNCHANGED <<ring, active, played, sent, heard, broken>>
    BY <1>3 DEF StartWorker, mainVars, workerVars, device, flags
  <2>2. UNCHANGED Finished
    BY <1>3 DEF StartWorker, Finished, mainVars, workerVars, device, flags
  <2>. QED  BY <2>1, <2>2, QueuesKept DEF Quiet
<1>4. CASE RequestStop
  <2>1. UNCHANGED <<ring, active, played, sent, heard, broken>>
    BY <1>4 DEF RequestStop, mainVars, workerVars, device, flags
  <2>2. UNCHANGED Finished
    BY <1>4 DEF RequestStop, Finished, mainVars, workerVars, device, flags
  <2>. QED  BY <2>1, <2>2, QueuesKept DEF Quiet
<1>5. CASE Join
  <2>1. UNCHANGED <<ring, active, played, sent, heard, broken>>
    BY <1>5 DEF Join, mainVars, workerVars, device, flags
  <2>2. UNCHANGED Finished
    BY <1>5 DEF Join, Finished, mainVars, workerVars, device, flags
  <2>. QED  BY <2>1, <2>2, QueuesKept DEF Quiet
<1>6. CASE FillDone
  <2>1. UNCHANGED <<ring, active, played, sent, heard, broken>>
    BY <1>6 DEF FillDone, mainVars, workerVars, device, flags
  <2>2. UNCHANGED Finished
    BY <1>6 DEF FillDone, Finished, mainVars, workerVars, device, flags
  <2>. QED  BY <2>1, <2>2, QueuesKept DEF Quiet
<1>7. CASE Drain
  <2>1. UNCHANGED <<ring, active, played, sent, heard, broken>>
    BY <1>7 DEF Drain, mainVars, workerVars, device, flags
  <2>2. UNCHANGED Finished
    BY <1>7 DEF Drain, Finished, mainVars, workerVars, device, flags
  <2>. QED  BY <2>1, <2>2, QueuesKept DEF Quiet
<1>8. CASE ReportFailure
  <2>1. UNCHANGED <<ring, active, played, sent, heard, broken>>
    BY <1>8 DEF ReportFailure, mainVars, workerVars, device, flags
  <2>2. UNCHANGED Finished
    BY <1>8 DEF ReportFailure, Finished, mainVars, workerVars, device, flags
  <2>. QED  BY <2>1, <2>2, QueuesKept DEF Quiet
<1>9. CASE CheckWorker
  <2>1. UNCHANGED <<ring, active, played, sent, heard, broken>> /\ main = "check"
    BY <1>9 DEF CheckWorker, mainVars, workerVars, device, flags
  <2>2. failed => broken
    BY <1>0 DEF Handshake
  <2>3. CASE Finished'
    <3>1. failed
      BY <1>9, <2>3 DEF CheckWorker, Finished
    <3>. QED  BY <2>1, <2>2, <2>3, <3>1, QueuesKept DEF Closes
  <2>4. CASE ~Finished'
    <3>1. UNCHANGED Finished
      BY <2>1, <2>4 DEF Finished
    <3>. QED  BY <2>1, <3>1, QueuesKept DEF Quiet
  <2>. QED  BY <2>3, <2>4
<1>10. CASE CompleteChunk
  <2>1. Enqueue /\ TypeOK' /\ UNCHANGED <<active, played, heard, broken>>
    BY <1>10 DEF CompleteChunk, Inv, mainVars, workerVars, device, flags
  <2>2. ~Finished /\ ~Finished'
    BY <1>10 DEF CompleteChunk, Finished
  <2>. QED  BY <2>1, <2>2, EnqueueMixes DEF Mixes, Finished
<1>11. CASE FlushStaging
  <2>1. ~Finished /\ UNCHANGED <<active, played, heard, broken>>
    BY <1>11 DEF FlushStaging, Finished, mainVars, workerVars, device, flags
  <2>2. UNCHANGED Finished
    BY <1>11 DEF FlushStaging, Finished
  <2>3. CASE partial
    <3>1. Enqueue /\ TypeOK'
      BY <1>11, <2>3 DEF FlushStaging, Inv
    <3>. QED  BY <2>1, <2>2, <3>1, EnqueueMixes DEF Mixes
  <2>4. CASE ~partial
    <3>1. UNCHANGED <<ring, sent>>
      BY <1>11, <2>4 DEF FlushStaging
    <3>. QED  BY <2>1, <2>2, <3>1, QueuesKept DEF Quiet
  <2>. QED  BY <2>3, <2>4 DEF TypeOK
<1>12. CASE Reset
  <2>1. /\ main = "reset" /\ ring' = << >> /\ active' = << >> /\ played' = 0
        /\ UNCHANGED <<sent, heard, broken>> /\ Finished'
    BY <1>12 DEF Reset, Finished, mainVars, workerVars, device, flags
  <2>2. Waiting' = {}
    <3>1. Len(ring') = 0 /\ Len(active') = 0
      BY <2>1, EmptySeq
    <3>. QED  BY <1>n, <2>1, <3>1
  <2>3. Waiting = {} \/ broken
    <3>1. ~broken => ring = << >> /\ active = << >>
      BY <1>0, <2>1 DEF Handshake
    <3>2. ~broken => Len(ring) = 0 /\ Len(active) = 0 /\ played = 0
      BY <1>0, <3>1, EmptySeq DEF TypeOK
    <3>. QED  BY <1>m, <3>2
  <2>. QED  BY <2>1, <2>2, <2>3 DEF Closes
<1>13. CASE Open
  <2>1. UNCHANGED <<ring, active, played, sent, heard, Finished>>
    BY <1>13 DEF Open, Finished, mainVars, workerVars, device, flags
  <2>2. broken' \/ broken' = broken
    BY <1>13 DEF Open, Fail
  <2>. QED  BY <2>1, <2>2, QueuesKept DEF Quiet, Fails
<1>14. CASE Top
  <2>1. active' = Undone /\ played' = 0 /\ UNCHANGED <<ring, sent, heard, broken, Finished>>
    BY <1>14 DEF Top, Finished, mainVars, workerVars, device, flags
  <2>2. /\ Undone \in Seq(Nat) /\ Len(Undone) = Len(active) - played
        /\ \A i \in 1 .. Len(Undone) : Undone[i] = active[played + i]
    BY <1>0, UndoneQueue
  <2>3. Len(active) \in Nat /\ played \in Nat
    BY <1>0 DEF TypeOK
  <2>4. ASSUME NEW c
        PROVE  (\E k \in 0 + 1 .. Len(Undone) : c = Undone[k] /\ c # Silence)
                 <=> \E k \in played + 1 .. Len(active) : c = active[k] /\ c # Silence
    <3>1. ASSUME NEW k \in 0 + 1 .. Len(Undone)
          PROVE  played + k \in played + 1 .. Len(active) /\ Undone[k] = active[played + k]
      BY <2>2, <2>3
    <3>2. ASSUME NEW k \in played + 1 .. Len(active)
          PROVE  k - played \in 0 + 1 .. Len(Undone) /\ Undone[k - played] = active[k]
      <4>1. k - played \in 1 .. Len(Undone) /\ played + (k - played) = k
        BY <2>2, <2>3
      <4>. QED  BY <2>2, <4>1
    <3>. QED  BY <3>1, <3>2
  <2>5. Waiting' = Waiting
    BY <1>m, <1>n, <2>1, <2>4
  <2>. QED  BY <2>1, <2>5 DEF Quiet
<1>15. CASE Fill
  <2>1. /\ ring # << >> /\ ring' = Tail(ring) /\ UNCHANGED <<sent, played, heard, Finished>>
        /\ \/ active' = active /\ broken'
           \/ active' = Append(active, Head(ring)) /\ (broken' \/ broken' = broken)
    BY <1>15 DEF Fill, Fail, CanFill, Finished, mainVars, workerVars, device, flags
  <2>2. /\ ring \in Seq(Nat \ {0}) /\ Len(ring) \in Nat \ {0} /\ active \in Seq(Nat)
        /\ Len(active) \in Nat /\ played \in Nat /\ played <= Len(active)
    BY <1>0, <2>1, EmptySeq DEF TypeOK
  <2>3. /\ Head(ring) = ring[1] /\ Head(ring) \in Nat \ {0} /\ Len(ring') = Len(ring) - 1
        /\ \A i \in 1 .. Len(ring') : ring'[i] = ring[i + 1]
    BY <2>1, <2>2, HeadTailProperties
  <2>4. ASSUME NEW c
        PROVE  (\E k \in 1 .. Len(ring) : c = ring[k])
                 <=> c = Head(ring) \/ \E k \in 1 .. Len(ring') : c = ring'[k]
    <3>1. ASSUME NEW k \in 1 .. Len(ring), k # 1
          PROVE  k - 1 \in 1 .. Len(ring') /\ ring'[k - 1] = ring[k]
      <4>1. k - 1 \in 1 .. Len(ring') /\ (k - 1) + 1 = k
        BY <2>2, <2>3, <3>1
      <4>. QED  BY <2>3, <4>1
    <3>2. ASSUME NEW k \in 1 .. Len(ring')
          PROVE  k + 1 \in 1 .. Len(ring) /\ ring'[k] = ring[k + 1]
      BY <2>2, <2>3
    <3>3. 1 \in 1 .. Len(ring)
      BY <2>2
    <3>4. ASSUME NEW k \in 1 .. Len(ring), c = ring[k]
          PROVE  c = Head(ring) \/ \E j \in 1 .. Len(ring') : c = ring'[j]
      <4>1. CASE k = 1
        BY <2>3, <3>4, <4>1
      <4>2. CASE k # 1
        BY <3>1, <3>4, <4>2
      <4>. QED  BY <4>1, <4>2
    <3>5. ASSUME NEW k \in 1 .. Len(ring'), c = ring'[k] PROVE \E j \in 1 .. Len(ring) : c = ring[j]
      BY <3>2, <3>5
    <3>6. c = Head(ring) => c = ring[1]
      BY <2>3
    <3>. QED  BY <3>3, <3>4, <3>5, <3>6
  <2>5. CASE active' = active /\ broken'
    <3>1. Waiting' \subseteq Waiting
      BY <1>m, <1>n, <2>1, <2>4, <2>5
    <3>. QED  BY <2>1, <2>5, <3>1 DEF Fails
  <2>6. CASE active' = Append(active, Head(ring))
    <3>1. /\ Len(active') = Len(active) + 1 /\ active'[Len(active) + 1] = Head(ring)
          /\ \A k \in 1 .. Len(active) : active'[k] = active[k]
      BY <2>2, <2>3, <2>6, AppendProperties
    <3>2. ASSUME NEW c
          PROVE  (\E k \in played' + 1 .. Len(active') : c = active'[k] /\ c # Silence)
                   <=> c = Head(ring) \/ \E k \in played + 1 .. Len(active) : c = active[k] /\ c # Silence
      <4>1. ASSUME NEW k \in played' + 1 .. Len(active')
            PROVE  \/ active'[k] = Head(ring)
                   \/ k \in played + 1 .. Len(active) /\ active'[k] = active[k]
        <5>1. CASE k = Len(active) + 1
          BY <3>1, <5>1
        <5>2. CASE k # Len(active) + 1
          <6>1. k \in played + 1 .. Len(active) /\ k \in 1 .. Len(active)
            BY <2>1, <2>2, <3>1, <5>2
          <6>. QED  BY <3>1, <6>1
        <5>. QED  BY <5>1, <5>2
      <4>2. ASSUME NEW k \in played + 1 .. Len(active)
            PROVE  k \in played' + 1 .. Len(active') /\ active'[k] = active[k]
        BY <2>1, <2>2, <3>1
      <4>3. Len(active) + 1 \in played' + 1 .. Len(active')
        BY <2>1, <2>2, <3>1
      <4>4. Head(ring) # Silence
        BY <2>3 DEF Silence
      <4>. QED  BY <3>1, <4>1, <4>2, <4>3, <4>4
    <3>3. ASSUME NEW c PROVE c \in Waiting' <=> c \in Waiting
      BY <1>m, <1>n, <2>4, <3>2
    <3>4. Waiting' = Waiting
      BY <3>3
    <3>. QED  BY <2>1, <3>4 DEF Quiet, Fails
  <2>. QED  BY <2>1, <2>5, <2>6
<1>16. CASE Pad
  <2>1. /\ UNCHANGED <<ring, sent, played, heard, Finished>>
        /\ active' = active \/ active' = Padded
        /\ broken' \/ broken' = broken
    BY <1>16 DEF Pad, Fail, Finished, mainVars, workerVars, device, flags
  <2>2. Len(active) \in Nat /\ played \in Nat /\ played <= Len(active) /\ Target \in Nat
    BY <1>0, SizeAssumption DEF TypeOK
  <2>3. /\ Len(active) <= Len(active') /\ Len(active') \in Nat
        /\ \A k \in 1 .. Len(active) : active'[k] = active[k]
        /\ \A k \in Len(active) + 1 .. Len(active') : active'[k] = Silence
    <3>1. CASE active' = active
      BY <2>2, <3>1
    <3>2. CASE active' = Padded
      BY <1>0, <2>2, <3>2, PaddedQueue
    <3>. QED  BY <2>1, <3>1, <3>2
  <2>4. ASSUME NEW c
        PROVE  (\E k \in played' + 1 .. Len(active') : c = active'[k] /\ c # Silence)
                 <=> \E k \in played + 1 .. Len(active) : c = active[k] /\ c # Silence
    <3>1. ASSUME NEW k \in played' + 1 .. Len(active'), active'[k] # Silence
          PROVE  k \in played + 1 .. Len(active) /\ active'[k] = active[k]
      <4>1. k \notin Len(active) + 1 .. Len(active')
        BY <2>3, <3>1
      <4>2. k \in played + 1 .. Len(active) /\ k \in 1 .. Len(active)
        BY <2>1, <2>2, <2>3, <4>1
      <4>. QED  BY <2>3, <4>2
    <3>2. ASSUME NEW k \in played + 1 .. Len(active)
          PROVE  k \in played' + 1 .. Len(active') /\ active'[k] = active[k]
      BY <2>1, <2>2, <2>3
    <3>. QED  BY <3>1, <3>2
  <2>5. ASSUME NEW c PROVE c \in Waiting' <=> c \in Waiting
    <3>1. (\E k \in 1 .. Len(ring') : c = ring'[k]) <=> \E k \in 1 .. Len(ring) : c = ring[k]
      BY <2>1
    <3>. QED  BY <1>m, <1>n, <2>4, <3>1
  <2>6. Waiting' = Waiting
    BY <2>5
  <2>. QED  BY <2>1, <2>6 DEF Quiet, Fails
<1>17. CASE CloseDevice
  <2>1. /\ worker = "closing" /\ active' = << >> /\ played' = 0
        /\ UNCHANGED <<ring, sent, heard, broken, Finished>>
    BY <1>17 DEF CloseDevice, Finished, mainVars, workerVars, device, flags
  <2>2. broken
    BY <1>0, <2>1 DEF Handshake
  <2>3. Len(active') = 0
    BY <2>1, EmptySeq
  <2>4. Waiting' \subseteq Waiting
    BY <1>m, <1>n, <2>1, <2>3
  <2>. QED  BY <2>1, <2>2, <2>4 DEF Fails
<1>18. CASE Play
  <2>1. /\ played < Len(active) /\ played' = played + 1
        /\ UNCHANGED <<ring, sent, active, broken, Finished>>
        /\ heard' = IF active[played + 1] = Silence THEN heard ELSE Append(heard, active[played + 1])
    BY <1>18 DEF Play, Finished, mainVars, workerVars, device, flags
  <2>2. /\ Len(active) \in Nat /\ played \in Nat /\ played + 1 \in 1 .. Len(active)
        /\ sent \in Nat /\ Len(ring) \in Nat
        /\ \A k \in 1 .. Len(active) : active[k] \in Nat
    <3>1. active \in Seq(Nat)
      BY <1>0 DEF TypeOK
    <3>. QED  BY <1>0, <2>1, <3>1, ElementOfSeq DEF TypeOK
  <2>. DEFINE c == active[played + 1]
  <2>3. ASSUME NEW k \in played + 1 .. Len(active)
        PROVE  k = played + 1 \/ k \in played' + 1 .. Len(active')
    BY <2>1, <2>2
  <2>4. ASSUME NEW k \in played' + 1 .. Len(active')
        PROVE  /\ k \in played + 1 .. Len(active) /\ active'[k] = active[k]
               /\ k \in 1 .. Len(active) /\ played + 1 < k
    BY <2>1, <2>2
  <2>5. CASE c = Silence
    <3>0. ASSUME NEW d PROVE d \in Waiting' <=> d \in Waiting
      <4>1. (\E k \in 1 .. Len(ring') : d = ring'[k]) <=> \E k \in 1 .. Len(ring) : d = ring[k]
        BY <2>1
      <4>2. (\E k \in played' + 1 .. Len(active') : d = active'[k] /\ d # Silence)
              <=> \E k \in played + 1 .. Len(active) : d = active[k] /\ d # Silence
        BY <2>3, <2>4, <2>5
      <4>. QED  BY <1>m, <1>n, <4>1, <4>2
    <3>1. Waiting' = Waiting
      BY <3>0
    <3>. QED  BY <2>1, <2>5, <3>1 DEF Quiet
  <2>6. CASE c # Silence
    <3>1. c \in Waiting
      <4>1. played + 1 \in played + 1 .. Len(active)
        BY <2>2
      <4>. QED  BY <1>m, <2>6, <4>1
    <3>2. ASSUME NEW k \in played' + 1 .. Len(active'), active[k] # Silence PROVE c < active[k]
      BY <1>0, <2>2, <2>4, <2>6, <3>2 DEF DeviceOrdered
    <3>3. ASSUME NEW k \in 1 .. Len(ring) PROVE c < ring[k]
      <4>1. c <= sent - Len(ring) /\ c \in Nat
        BY <1>0, <2>2 DEF DeviceOrdered
      <4>2. ring[k] = sent - Len(ring) + k
        BY <1>0 DEF RingContiguous
      <4>. QED  BY <2>2, <4>1, <4>2
    <3>4. ASSUME NEW d \in Waiting, d # c PROVE c < d /\ d \in Waiting'
      <4>1. CASE \E k \in played + 1 .. Len(active) : d = active[k] /\ d # Silence
        <5>1. PICK k \in played + 1 .. Len(active) : d = active[k] /\ d # Silence
          BY <4>1
        <5>2. k \in played' + 1 .. Len(active')
          BY <2>3, <3>4, <5>1
        <5>. QED  BY <1>n, <2>4, <3>2, <5>1, <5>2
      <4>2. CASE \E k \in 1 .. Len(ring) : d = ring[k]
        <5>1. Len(ring') = Len(ring) /\ ring' = ring
          BY <2>1
        <5>. QED  BY <1>n, <3>3, <4>2, <5>1
      <4>. QED  BY <1>m, <4>1, <4>2
    <3>5. ASSUME NEW d \in Waiting' PROVE d \in Waiting /\ d # c
      <4>1. CASE \E k \in played' + 1 .. Len(active') : d = active'[k] /\ d # Silence
        <5>1. PICK k \in played' + 1 .. Len(active') : d = active'[k] /\ d # Silence
          BY <4>1
        <5>2. k \in played + 1 .. Len(active) /\ d = active[k] /\ c < d /\ d \in Nat
          BY <2>2, <2>4, <3>2, <5>1
        <5>. QED  BY <1>m, <2>2, <5>1, <5>2
      <4>2. CASE \E k \in 1 .. Len(ring') : d = ring'[k]
        <5>1. PICK k \in 1 .. Len(ring) : d = ring[k]
          BY <2>1, <4>2
        <5>2. c < d /\ d = sent - Len(ring) + k
          BY <1>0, <3>3, <5>1 DEF RingContiguous
        <5>3. c \in Nat /\ d \in Int
          BY <2>2, <5>2
        <5>4. d # c
          BY <5>2, <5>3
        <5>5. d \in Waiting
          BY <1>m, <5>1
        <5>. QED  BY <5>4, <5>5
      <4>. QED  BY <1>n, <4>1, <4>2
    <3>6. Waiting' = Waiting \ {c}
      BY <3>4, <3>5
    <3>7. \A d \in Waiting : c <= d
      <4>1. Waiting \subseteq 1 .. sent
        BY WaitingBounds
      <4>. QED  BY <2>2, <3>4, <4>1
    <3>. QED  BY <2>1, <2>6, <3>1, <3>6, <3>7 DEF Heard
  <2>. QED  BY <2>5, <2>6
<1>19. CASE UNCHANGED vars
  <2>1. UNCHANGED <<ring, active, played, sent, heard, broken, Finished>>
    BY <1>19 DEF vars, Finished, mainVars, workerVars, device, flags
  <2>. QED  BY <2>1, QueuesKept DEF Quiet
<1>. QED
  BY <1>1, <1>2, <1>3, <1>4, <1>5, <1>6, <1>7, <1>8, <1>9, <1>10, <1>11, <1>12, <1>13, <1>14, <1>15, <1>16, <1>17, <1>18, <1>19 DEF Next, Main, Worker

LEMMA StepRefines ==
  ASSUME Inv, Inv', [Next]_vars
  PROVE  [P!Next]_(P!vars)
<1>1. CASE Quiet
  BY <1>1 DEF Quiet, Finished, P!vars
<1>2. CASE Fails
  <2>1. P!Lose
    BY <1>2 DEF Fails, Finished, Inv, TypeOK, P!Lose
  <2>. QED  BY <2>1 DEF P!Next
<1>3. CASE Mixes
  <2>1. P!Send
    <3>1. /\ ~(main \in {"ended", "terminated"}) /\ sent' = sent + 1
          /\ UNCHANGED <<heard, broken, main \in {"ended", "terminated"}>>
      BY <1>3 DEF Mixes, Mixed, Finished
    <3>2. \/ Waiting' = Waiting \cup {sent + 1}
          \/ \E c \in Waiting : /\ c + RingChunks <= sent + 1
                               /\ Waiting' = (Waiting \ {c}) \cup {sent + 1}
      <4>1. sent \in Nat /\ RingChunks \in Nat
        BY SizeAssumption DEF Inv, TypeOK
      <4>2. (sent - RingChunks + 1) + RingChunks <= sent + 1
        BY <4>1
      <4>. QED  BY <1>3, <4>2 DEF Mixes, Mixed
    <3>. QED  BY <3>1, <3>2 DEF P!Send
  <2>. QED  BY <2>1 DEF P!Next
<1>4. CASE Heard
  <2>1. P!Hear
    BY <1>4 DEF Heard, Finished, P!Hear
  <2>. QED  BY <2>1 DEF P!Next
<1>5. CASE Closes
  <2>1. P!Close
    BY <1>5 DEF Closes, Finished, P!Close
  <2>. QED  BY <2>1 DEF P!Next
<1>. QED  BY <1>1, <1>2, <1>3, <1>4, <1>5, StepKinds

(* The two threads, the ring and the device queue implement lossy, ordered    *)
(* playback for every ring and queue size: nothing is heard twice or out of   *)
(* order, a chunk is given up only for a full ring or a failed device, and    *)
(* aica_host_stream_finish does not return before the rest was heard.         *)
THEOREM PlaybackCorrect == Spec => PlaybackSpec
<1>1. Init => P!Init
  <2>1. SUFFICES ASSUME Init PROVE P!Init
    OBVIOUS
  <2>2. Inv
    BY <2>1, InitInv
  <2>3. Waiting \subseteq 1 .. sent /\ sent = 0
    BY <2>1, <2>2, WaitingBounds DEF Init
  <2>4. Waiting = {}
    BY <2>3
  <2>. QED  BY <2>1, <2>4 DEF Init, P!Init
<1>2. Inv /\ Inv' /\ [Next]_vars => [P!Next]_(P!vars)
  BY StepRefines
<1>. QED  BY InitInv, StepInv, <1>1, <1>2, PTL DEF Spec, PlaybackSpec, P!Spec

-----------------------------------------------------------------------------
(* The freshest chunks.                                                      *)

WasHeard(n) == \E k \in DOMAIN heard : heard[k] = n

FreshKept ==
  /\ ~broken => \A n \in 1 .. sent : n > sent - RingChunks => n \in Waiting \/ WasHeard(n)
  /\ main = "ended" /\ ~broken => Waiting = {}

LEMMA FreshStep ==
  ASSUME Inv, Inv', FreshKept, [Next]_vars
  PROVE  FreshKept'
<1>0. /\ sent \in Nat /\ RingChunks \in Nat \ {0} /\ heard \in Seq(Nat \ {0})
      /\ Waiting \subseteq 1 .. sent
  BY SizeAssumption, WaitingBounds DEF Inv, TypeOK
<1>1. CASE Quiet
  <2>1. UNCHANGED <<sent, heard, Waiting>> /\ (broken' <=> broken)
    BY <1>1 DEF Quiet
  <2>2. ASSUME main' = "ended", ~broken' PROVE Waiting' = {}
    <3>1. main \in {"ended", "terminated"}
      BY <1>1, <2>2 DEF Quiet, Finished
    <3>2. main # "terminated"
      BY <2>2, <3>1 DEF Next, vars, mainVars, Main, MixSample, CompleteChunk, EndRun, StartWorker, CheckWorker,
        FlushStaging, RequestStop, Join, Reset, Over
    <3>. QED  BY <2>1, <2>2, <3>1, <3>2 DEF FreshKept
  <2>. QED  BY <2>1, <2>2 DEF FreshKept, WasHeard
<1>2. CASE Fails
  BY <1>2 DEF Fails, FreshKept
<1>3. CASE Mixes
  <2>1. sent' = sent + 1 /\ heard' = heard /\ (broken' <=> broken) /\ main' # "ended"
    BY <1>3 DEF Mixes, Mixed, Finished
  <2>2. ASSUME ~broken', NEW n \in 1 .. sent + 1, n > sent + 1 - RingChunks
        PROVE  n \in Waiting' \/ WasHeard(n)
    <3>1. CASE n = sent + 1
      BY <1>3, <3>1 DEF Mixes, Mixed
    <3>2. CASE n # sent + 1
      <4>1. n \in 1 .. sent /\ n > sent - RingChunks /\ n # sent - RingChunks + 1
        BY <1>0, <2>2, <3>2
      <4>2. n \in Waiting \/ WasHeard(n)
        BY <2>1, <2>2, <4>1 DEF FreshKept
      <4>. QED  BY <1>3, <4>1, <4>2 DEF Mixes, Mixed
    <3>. QED  BY <3>1, <3>2
  <2>3. ASSUME ~broken', NEW n \in 1 .. sent', n > sent' - RingChunks
        PROVE  n \in Waiting' \/ \E k \in DOMAIN heard' : heard'[k] = n
    <3>1. n \in 1 .. sent + 1 /\ n > sent + 1 - RingChunks
      <4>1. sent' = sent + 1
        BY <2>1
      <4>2. n \in 1 .. sent' /\ n > sent' - RingChunks
        BY <2>3
      <4>. QED  BY <1>0, <4>1, <4>2
    <3>2. n \in Waiting' \/ WasHeard(n)
      BY <2>2, <2>3, <3>1
    <3>3. WasHeard(n) => \E k \in DOMAIN heard' : heard'[k] = n
      BY <2>1 DEF WasHeard
    <3>. QED  BY <3>2, <3>3
  <2>. QED  BY <2>1, <2>3 DEF FreshKept, WasHeard
<1>4. CASE Heard
  <2>1. PICK c \in Waiting : Waiting' = Waiting \ {c} /\ heard' = Append(heard, c)
    BY <1>4 DEF Heard
  <2>2. sent' = sent /\ (broken' <=> broken)
    BY <1>4 DEF Heard
  <2>3. /\ DOMAIN heard = 1 .. Len(heard) /\ DOMAIN heard' = 1 .. Len(heard) + 1 /\ Len(heard) \in Nat
        /\ heard'[Len(heard) + 1] = c /\ \A k \in 1 .. Len(heard) : heard'[k] = heard[k]
    <3>1. c \in Nat \ {0}
      BY <1>0
    <3>2. /\ heard' \in Seq(Nat \ {0}) /\ Len(heard') = Len(heard) + 1
          /\ heard'[Len(heard) + 1] = c /\ \A k \in 1 .. Len(heard) : heard'[k] = heard[k]
      BY <1>0, <2>1, <3>1, AppendProperties
    <3>. QED  BY <1>0, <3>2, LenProperties
  <2>4. ASSUME NEW n, WasHeard(n) \/ n = c PROVE \E k \in DOMAIN heard' : heard'[k] = n
    BY <2>3, <2>4 DEF WasHeard
  <2>5. ASSUME main' = "ended", ~broken' PROVE Waiting' = {}
    <3>1. main \in {"ended", "terminated"}
      BY <1>4, <2>5 DEF Heard, Finished
    <3>2. main # "terminated"
      BY <2>5, <3>1 DEF Next, vars, mainVars, Main, MixSample, CompleteChunk, EndRun, StartWorker, CheckWorker,
        FlushStaging, RequestStop, Join, Reset, Over
    <3>. QED  BY <2>1, <2>2, <2>5, <3>1, <3>2 DEF FreshKept
  <2>6. ASSUME ~broken', NEW n \in 1 .. sent, n > sent - RingChunks
        PROVE  n \in Waiting' \/ \E k \in DOMAIN heard' : heard'[k] = n
    BY <2>1, <2>2, <2>4, <2>6 DEF FreshKept
  <2>. QED  BY <2>2, <2>5, <2>6 DEF FreshKept, WasHeard
<1>5. CASE Closes
  <2>1. /\ Waiting = {} \/ broken
        /\ Waiting' \subseteq Waiting /\ sent' = sent /\ heard' = heard /\ (broken' <=> broken)
    BY <1>5 DEF Closes
  <2>. QED  BY <2>1 DEF FreshKept, WasHeard
<1>. QED  BY <1>1, <1>2, <1>3, <1>4, <1>5, StepKinds

(* Unless the device failed, the last RingChunks chunks of a run are heard    *)
(* before aica_host_stream_finish returns, for every ring size.              *)
THEOREM FreshestCorrect == Spec => []FreshestHeard
<1>1. Init => FreshKept
  <2>1. SUFFICES ASSUME Init PROVE FreshKept
    OBVIOUS
  <2>. QED  BY <2>1 DEF Init, FreshKept
<1>2. Inv /\ Inv' /\ FreshKept /\ [Next]_vars => FreshKept'
  BY FreshStep
<1>3. FreshKept => FreshestHeard
  BY DEF FreshKept, FreshestHeard, WasHeard
<1>. QED  BY InitInv, StepInv, <1>1, <1>2, <1>3, PTL DEF Spec
-----------------------------------------------------------------------------
(* Why playback does not stall.  Liveness itself is beyond the prover; these *)
(* are the two facts it rests on.                                            *)

QueuePlays ==
  worker \in {"top", "fill", "pad", "drain"} /\ ~playing => Len(active) < Prefill

LEMMA StepPlays == Inv /\ QueuePlays /\ [Next]_vars => QueuePlays'
<1> SUFFICES ASSUME Inv, QueuePlays, [Next]_vars PROVE QueuePlays'
  OBVIOUS
<1> USE SizeAssumption
<1>0. TypeOK /\ Handshake /\ Len(active) \in Nat /\ Prefill \in Nat \ {0}
  BY DEF Inv, TypeOK
<1>1. Len(<< >>) = 0
  BY EmptySeq
<1>2. ASSUME UNCHANGED <<worker, active, playing>> PROVE QueuePlays'
  BY <1>2 DEF QueuePlays
<1>3. ASSUME worker' \notin {"top", "fill", "pad", "drain"} PROVE QueuePlays'
  BY <1>3 DEF QueuePlays
<1>4. CASE StartWorker
  BY <1>2, <1>3, <1>4 DEF StartWorker, device
<1>5. CASE Reset
  BY <1>0, <1>1, <1>5 DEF Reset, QueuePlays
<1>6. CASE Open
  <2>1. active = << >> /\ active' = active
    BY <1>0, <1>6 DEF Open, Handshake
  <2>. QED  BY <1>0, <1>1, <2>1 DEF QueuePlays
<1>7. CASE Top
  <2>1. active' = Undone /\ playing' = (playing /\ Undone # << >>) /\ worker = "top"
    BY <1>7 DEF Top
  <2>2. Len(Undone) = Len(active) - played /\ played \in Nat
    BY <1>0, UndoneQueue DEF TypeOK
  <2>3. CASE Undone = << >>
    BY <1>0, <1>1, <2>1, <2>3 DEF QueuePlays
  <2>4. CASE Undone # << >>
    <3>1. playing' = playing
      BY <1>0, <2>1, <2>4 DEF TypeOK
    <3>2. ~playing => Len(active) < Prefill
      BY <2>1 DEF QueuePlays
    <3>. QED  BY <1>0, <2>1, <2>2, <3>1, <3>2 DEF QueuePlays
  <2>. QED  BY <2>3, <2>4
<1>8. ASSUME NEW queue, active' = queue, MaybeStart(queue), Len(queue) \in Nat PROVE QueuePlays'
  BY <1>0, <1>8 DEF MaybeStart, QueuePlays
<1>9. CASE Fill
  <2>1. CASE worker' = "failing"
    BY <1>3, <2>1
  <2>2. CASE worker' # "failing"
    <3>1. active' = Append(active, Head(ring)) /\ MaybeStart(active')
      BY <1>9, <2>2 DEF Fill, Fail
    <3>2. Len(active') \in Nat
      <4>1. TypeOK'
        BY StepInv DEF Inv
      <4>. QED  BY <4>1 DEF TypeOK
    <3>. QED  BY <1>8, <3>1, <3>2
  <2>. QED  BY <2>1, <2>2
<1>10. CASE Pad
  <2>1. CASE worker' = "failing"
    BY <1>3, <2>1
  <2>2. CASE worker' # "failing"
    <3>1. active' = Padded /\ MaybeStart(Padded)
      BY <1>10, <2>2 DEF Pad, Fail
    <3>2. Len(active') \in Nat
      <4>1. TypeOK'
        BY StepInv DEF Inv
      <4>. QED  BY <4>1 DEF TypeOK
    <3>. QED  BY <1>8, <3>1, <3>2
  <2>. QED  BY <2>1, <2>2
<1>11. CASE FillDone
  BY <1>11 DEF FillDone, device, QueuePlays
<1>12. CASE Drain
  <2>1. worker = "drain" /\ active' = active /\ (playing => playing')
    BY <1>0, <1>12 DEF Drain, TypeOK
  <2>. QED  BY <2>1 DEF QueuePlays
<1>13. CASE ReportFailure \/ CloseDevice
  BY <1>3, <1>13 DEF ReportFailure, CloseDevice
<1>14. CASE Play
  BY <1>2, <1>14 DEF Play, workerVars
<1>15. CASE \/ MixSample \/ CompleteChunk \/ \E how \in {"normal", "closed", "error"} : EndRun(how)
            \/ CheckWorker \/ FlushStaging \/ RequestStop \/ Join \/ UNCHANGED vars
  BY <1>2, <1>15 DEF MixSample, CompleteChunk, EndRun, CheckWorker, FlushStaging, RequestStop, Join,
                     vars, workerVars, device
<1>. QED
  BY <1>4, <1>5, <1>6, <1>7, <1>9, <1>10, <1>11, <1>12, <1>13, <1>14, <1>15 DEF Next, Main, Worker

(* Between two rounds of aica_host_worker_loop a queue of the prefill length  *)
(* is always being played: the queue that takes no more chunks never waits    *)
(* for a start, after an underrun or padding as little as at the beginning,  *)
(* so the ring behind it is served (RingServed).                             *)
THEOREM FullQueuePlays == Spec => []QueuePlays
<1>1. Init => QueuePlays
  BY DEF Init, QueuePlays
<1>. QED  BY InitInv, StepInv, StepPlays, <1>1, PTL DEF Spec

(* What a drain has still to do: move each chunk of the ring and play it, and *)
(* play what the device holds.                                               *)
Left == 2 * Len(ring) + Len(active) - played

(* From the round in which the worker has seen the stop until the join in     *)
(* aica_host_stream_finish returns.                                          *)
Draining == main = "join" /\ stop /\ stopping

DrainShrinks ==
  [][Draining =>
       /\ sent' = sent /\ Left' <= Left
       /\ Left' < Left \/ UNCHANGED <<ring, heard>>
       /\ worker = "drain" /\ ring = << >> /\ active = << >> => worker' \in {worker, "exited"}]_vars

(* A drain only ever has less to do: nothing is mixed or padded any more,     *)
(* each chunk the worker takes and each one the device plays brings the end   *)
(* nearer, and with nothing left the worker leaves at its next look.         *)
THEOREM DrainEnds == Spec => DrainShrinks
<1> DEFINE Shrinks == /\ sent' = sent /\ Left' <= Left
                      /\ Left' < Left \/ UNCHANGED <<ring, heard>>
                      /\ worker = "drain" /\ ring = << >> /\ active = << >> => worker' \in {worker, "exited"}
<1>1. ASSUME Inv, Next, Draining PROVE Shrinks
  <2> USE SizeAssumption
  <2>0. /\ TypeOK /\ main = "join" /\ stopping /\ sent \in Nat
        /\ ring \in Seq(Nat \ {0}) /\ Len(ring) \in Nat /\ active \in Seq(Nat) /\ Len(active) \in Nat
        /\ played \in Nat /\ played <= Len(active)
    BY <1>1 DEF Inv, TypeOK, Draining
  <2>1. Left \in Nat
    BY <2>0 DEF Left
  <2>2. ASSUME UNCHANGED <<ring, active, played, heard, sent>>,
               worker = "drain" /\ ring = << >> /\ active = << >> => worker' \in {worker, "exited"}
        PROVE  Shrinks
    BY <2>1, <2>2 DEF Left
  <2>3. CASE Join
    BY <2>2, <2>3 DEF Join, mainVars, workerVars, device
  <2>4. CASE Open
    BY <2>2, <2>4 DEF Open, mainVars
  <2>5. CASE Top
    <3>1. Len(Undone) = Len(active) - played
      BY <2>0, UndoneQueue
    <3>2. active' = Undone /\ played' = 0 /\ UNCHANGED <<ring, heard, sent>> /\ worker = "top"
      BY <2>5 DEF Top, mainVars
    <3>. QED  BY <2>0, <3>1, <3>2 DEF Left
  <2>6. CASE Fill
    <3>1. /\ ring # << >> /\ ring' = Tail(ring) /\ UNCHANGED <<played, heard, sent>> /\ worker = "fill"
          /\ active' = active \/ active' = Append(active, Head(ring))
      BY <2>6 DEF Fill, CanFill, mainVars
    <3>2. Head(ring) \in Nat /\ Len(ring') = Len(ring) - 1 /\ Len(ring) \in Nat \ {0}
      BY <2>0, <3>1, EmptySeq, HeadTailProperties
    <3>3. Len(active') = Len(active) \/ Len(active') = Len(active) + 1
      BY <2>0, <3>1, <3>2, AppendProperties
    <3>4. Left' < Left /\ Left' <= Left
      BY <2>0, <3>1, <3>2, <3>3 DEF Left
    <3>. QED  BY <3>1, <3>4
  <2>7. CASE FillDone
    BY <2>2, <2>7 DEF FillDone, mainVars, device
  <2>8. CASE Pad
    <3>1. active' = active /\ UNCHANGED <<ring, played, heard, sent>> /\ worker = "pad"
      BY <2>0, <2>8 DEF Pad, Padded, Starved, mainVars
    <3>. QED  BY <2>2, <3>1
  <2>9. CASE Drain
    <3>1. UNCHANGED <<ring, active, played, heard, sent>>
      BY <2>9 DEF Drain, mainVars
    <3>2. ring = << >> /\ active = << >> => worker' = "exited"
      BY <2>0, <2>9 DEF Drain
    <3>. QED  BY <2>2, <3>1, <3>2
  <2>10. CASE ReportFailure
    BY <2>2, <2>10 DEF ReportFailure, mainVars, device
  <2>11. CASE CloseDevice
    <3>1. active' = << >> /\ played' = 0 /\ UNCHANGED <<ring, heard, sent>> /\ worker = "closing"
      BY <2>11 DEF CloseDevice, mainVars
    <3>2. Len(<< >>) = 0
      BY EmptySeq
    <3>. QED  BY <2>0, <3>1, <3>2 DEF Left
  <2>12. CASE Play
    <3>1. /\ played' = played + 1 /\ UNCHANGED <<ring, active, sent, worker>>
      BY <2>12 DEF Play, mainVars, workerVars
    <3>2. Left' = Left - 1
      BY <2>0, <3>1 DEF Left
    <3>. QED  BY <2>1, <3>1, <3>2
  <2>13. CASE UNCHANGED vars
    BY <2>2, <2>13 DEF vars, mainVars, workerVars, device
  <2>. QED
    BY <1>1, <2>0, <2>3, <2>4, <2>5, <2>6, <2>7, <2>8, <2>9, <2>10, <2>11, <2>12, <2>13
    DEF Next, Main, Worker, MixSample, CompleteChunk, EndRun, StartWorker, CheckWorker, FlushStaging,
        RequestStop, Reset
<1>2. Inv /\ [Next]_vars => [Draining => Shrinks]_vars
  BY <1>1
<1>. QED  BY InitInv, StepInv, <1>2, PTL DEF Spec, DrainShrinks
=============================================================================
