--------------------------- MODULE DispatchProofs ---------------------------
(***************************************************************************)
(* Theorems about Dispatch, for every memory size, set of functions, set   *)
(* of patches, cache size and call depth.                                  *)
(***************************************************************************)
EXTENDS Dispatch, FiniteSetTheorems, SequenceTheorems, TLAPS

(* What a cache slot holds once it is filled. *)
FullEntry == [requested : Addr, target : Addr, source : Addr \cup {NoAddr}, fn : Fn]

Contents == [Phys -> Code]
Entries  == [Slots -> Entry]

LEMMA SlotInRange == \A a \in Addr : Slot(a) \in Slots
  BY SizeAssumption, SMT DEF Slot, Slots, Addr, Phys

LEMMA MirrorInRange == \A a \in Addr : Mirror(a) \in Addr
  BY DEF Mirror, Addr

LEMMA CanonicalInRange ==
  ASSUME TypeOK, NEW a \in Addr
  PROVE  Canonical(a) \in Addr
  BY MirrorInRange DEF Canonical, TypeOK

(* A template is a registered address, or none was found. *)
LEMMA TemplateRegistered ==
  ASSUME TypeOK, NEW a \in Addr, NEW mem
  PROVE  Template(a, mem) \in Addr \cup {NoAddr}
         /\ (Template(a, mem) # NoAddr => Registered(Template(a, mem)))
<1> DEFINE voted == { Displaced(b, a) : b \in Votes(a) }
           trusted == { s \in voted : /\ voted = {s}
                                      /\ Cardinality(Votes(a)) >= 2 \/ mem[s.phys] = mem[a.phys] }
           equal == { s \in Addr \ {a} : targets[s] # NoFn /\ mem[s.phys] = mem[a.phys] }
           memoised == memo[a] # NoMemo /\ Registered(memo[a].source) /\ memo[a].sig = mem[a.phys]
<1>1. Template(a, mem) = IF memoised THEN memo[a].source
                         ELSE IF trusted # {} THEN CHOOSE s \in trusted : TRUE
                         ELSE IF Cardinality(equal) = 1 THEN CHOOSE s \in equal : TRUE
                         ELSE NoAddr
  BY Zenon DEF Template
<1>2. \A s \in voted : Registered(s)
  BY Zenon DEF Votes
<1>3. trusted # {} => Registered(CHOOSE s \in trusted : TRUE)
  BY <1>2
<1>4. Cardinality(equal) = 1 => equal # {}
  BY FS_EmptySet
<1>5. Cardinality(equal) = 1 => Registered(CHOOSE s \in equal : TRUE)
  BY <1>4 DEF Registered
<1> HIDE DEF voted, trusted, equal
<1>6. QED
  BY <1>1, <1>3, <1>5 DEF Registered

-----------------------------------------------------------------------------
(* Type correctness.                                                         *)

LEMMA LookupType ==
  ASSUME TypeOK, NEW a \in Addr, NEW mem \in Contents, NEW over \in BOOLEAN
  PROVE  /\ Lookup(a, mem, over).found \in Addr \cup {NoAddr}
         /\ Lookup(a, mem, over).target \in Addr
         /\ Lookup(a, mem, over).source \in Addr \cup {NoAddr}
         /\ Lookup(a, mem, over).searched \in BOOLEAN
<1>1. Template(a, mem) \in Addr \cup {NoAddr}
  BY TemplateRegistered
<1>2. Canonical(a) \in Addr
  BY CanonicalInRange
<1>3. aliases[a] \in Addr \cup {NoAddr}
  BY DEF TypeOK
<1>4. QED
  BY <1>1, <1>2, <1>3, SentinelAssumption DEF Lookup

LEMMA RememberType ==
  ASSUME TypeOK, NEW a \in Addr, NEW mem \in Contents, NEW source \in Addr \cup {NoAddr}
  PROVE  Remember(a, source, mem) \in [Addr -> [source : Addr, sig : Code] \cup {NoMemo}]
<1>1. mem[a.phys] \in Code
  BY DEF Contents, Addr
<1>2. source # NoAddr => [source |-> source, sig |-> mem[a.phys]] \in [source : Addr, sig : Code]
  BY <1>1
<1>3. QED
  BY <1>2 DEF Remember, TypeOK

LEMMA ActivationType ==
  ASSUME TypeOK, NEW i \in Patch
  PROVE  /\ TargetsWith(i) \in [Addr -> Code \cup {NoFn}]
         /\ DynSigWith(i) \in [Addr -> Patch \cup {NoPatch}]
<1>1. \A a \in Addr : PatchCode[i][a.phys] \in Code
  BY PatchAssumption DEF Addr
<1>2. QED
  BY <1>1 DEF TargetsWith, DynSigWith, Fresh, TypeOK

LEMMA CacheWithoutType ==
  ASSUME NEW i \in Patch, NEW entries \in Entries
  PROVE  CacheWithout(i, entries) \in Entries
  BY DEF CacheWithout, Entries, Entry

(* Entering a full cache entry keeps frames and relocation well typed.       *)
LEMMA RunType ==
  ASSUME TypeOK, NEW e \in FullEntry, Run(e) \/ (\E path \in {"fast", "generated"} : RunFast(e, path))
  PROVE  frames' \in Seq(Frame) /\ active' \in Relocation /\ ready' \in BOOLEAN
<1>1. \A path \in {"call", "fast", "generated"} : Activation(e, path) \in Frame
  BY DEF Activation, Frame, FullEntry, TypeOK
<1>2. \A path \in {"call", "fast", "generated"} : Append(frames, Activation(e, path)) \in Seq(Frame)
  BY <1>1, AppendProperties DEF TypeOK
<1>3. RelocationOf(e) \in Relocation
  BY DEF RelocationOf, Relocation, FullEntry
<1>4. Refresh(RelocationOf(e)) \in BOOLEAN
  BY ScalarAssumption DEF Refresh
<1>5. QED
  BY <1>2, <1>3, <1>4 DEF Run, RunFast, TypeOK

(* However a miss is resolved, one full entry lands in the slot of the       *)
(* called address and is then entered.                                       *)
LEMMA MissFills ==
  ASSUME TypeOK, NEW a \in Addr, NEW mem \in Contents, NEW entries \in Entries, NEW over \in BOOLEAN,
         Miss(a, mem, entries, over)
  PROVE  \E e \in FullEntry, es \in Entries :
            e.requested = a /\ cache' = [es EXCEPT ![Slot(a)] = e] /\ Run(e)
<1> DEFINE look == Lookup(a, mem, over)
           stale == over /\ look.source = NoAddr /\ IsPatched(look.target)
           native == IF stale THEN NoFn ELSE targets[look.target]
           plain(fn) == [requested |-> a, target |-> a, source |-> NoAddr, fn |-> fn]
           found == [requested |-> a, target |-> look.target, source |-> look.source, fn |-> native]
<1>1. look.target \in Addr /\ look.source \in Addr \cup {NoAddr}
  BY LookupType
<1>2. \A fn \in Fn : plain(fn) \in FullEntry
  BY DEF FullEntry
<1>3. native # NoFn => found \in FullEntry
  BY <1>1 DEF FullEntry, TypeOK, Fn
<1>4. \/ native # NoFn /\ cache' = [entries EXCEPT ![Slot(a)] = found] /\ Run(found)
      \/ cache' = [entries EXCEPT ![Slot(a)] = plain(Interp)] /\ Run(plain(Interp))
      \/ \E i \in Activatable(a, mem) :
           \E fn \in {Interp, TargetsWith(i)[a]} :
             /\ fn # NoFn
             /\ cache' = [CacheWithout(i, entries) EXCEPT ![Slot(a)] = plain(fn)]
             /\ Run(plain(fn))
  BY SentinelAssumption DEF Miss
<1>5. \A i \in Activatable(a, mem) : /\ i \in Patch
                                      /\ TargetsWith(i)[a] \in Code \cup {NoFn}
                                      /\ CacheWithout(i, entries) \in Entries
  BY ActivationType, CacheWithoutType DEF Activatable, TypeOK
<1> HIDE DEF look, native, plain, found
<1>6. \A fn \in Fn : plain(fn).requested = a
  BY DEF plain
<1>7. found.requested = a
  BY DEF found
<1>8. QED
  BY <1>2, <1>3, <1>4, <1>5, <1>6, <1>7 DEF Fn

(* What a miss leaves in the tables: nothing, or one patch activated.        *)
LEMMA MissTables ==
  ASSUME TypeOK, NEW a \in Addr, NEW mem, NEW entries, NEW over,
         Miss(a, mem, entries, over)
  PROVE  \/ UNCHANGED tables
         \/ \E i \in pending : /\ pending' = pending \ {i}
                               /\ targets' = TargetsWith(i)
                               /\ dynSig' = DynSigWith(i)
  BY DEF Miss, Activatable

LEMMA MissAliases ==
  ASSUME TypeOK, NEW a \in Addr, NEW mem \in Contents, NEW entries, NEW over \in BOOLEAN,
         Miss(a, mem, entries, over)
  PROVE  /\ aliases' \in [Addr -> Addr \cup {NoAddr}]
         /\ memo' \in [Addr -> [source : Addr, sig : Code] \cup {NoMemo}]
<1>1. Lookup(a, mem, over).found \in Addr \cup {NoAddr}
  BY LookupType
<1>2. aliases' \in [Addr -> Addr \cup {NoAddr}]
  BY <1>1 DEF Miss, TypeOK
<1>3. Remember(a, Lookup(a, mem, over).found, mem) \in [Addr -> [source : Addr, sig : Code] \cup {NoMemo}]
  BY <1>1, RememberType
<1>4. memo' \in {memo, Remember(a, Lookup(a, mem, over).found, mem)}
  BY DEF Miss
<1>5. QED
  BY <1>2, <1>3, <1>4 DEF TypeOK

LEMMA DispatchType ==
  ASSUME TypeOK, NEW a \in Addr, NEW mem \in Contents, NEW entries \in Entries,
         Dispatch(a, mem, entries), ram' = mem,
         shadow' \in [seen : BOOLEAN, armed : BOOLEAN, latched : BOOLEAN]
  PROVE  TypeOK'
<1> DEFINE e == entries[Slot(a)]
<1>1. e \in Entry
  BY SlotInRange DEF Entries
<1>2. Hits(e, a) => e \in FullEntry
  BY <1>1, SentinelAssumption DEF Hits, Entry, FullEntry, EmptyEntry
<1> HIDE DEF e
<1>3. CASE /\ ~Overwritten(a, mem) /\ Hits(e, a)
           /\ IF ready /\ e.source = NoAddr THEN RunFast(e, "fast") ELSE Run(e)
           /\ cache' = entries
           /\ UNCHANGED <<tables, aliases, memo>>
  <2>1. frames' \in Seq(Frame) /\ active' \in Relocation /\ ready' \in BOOLEAN
    BY <1>2, <1>3, RunType
  <2>2. QED
    BY <1>3, <2>1 DEF TypeOK, Entries, Contents, tables
<1>4. CASE Miss(a, mem, entries, Overwritten(a, mem))
  <2>1. Overwritten(a, mem) \in BOOLEAN
    BY DEF Overwritten, OverwrittenStatic, SnapshotMatches
  <2>2. PICK f \in FullEntry, es \in Entries : cache' = [es EXCEPT ![Slot(a)] = f] /\ Run(f)
    BY <1>4, <2>1, MissFills
  <2>3. cache' \in [Slots -> Entry]
    BY <2>2 DEF Entries, Entry, FullEntry
  <2>4. frames' \in Seq(Frame) /\ active' \in Relocation /\ ready' \in BOOLEAN
    BY <2>2, RunType
  <2>5. /\ targets' \in [Addr -> Code \cup {NoFn}]
        /\ dynSig' \in [Addr -> Patch \cup {NoPatch}]
        /\ pending' \subseteq Patch
    <3>1. CASE UNCHANGED tables
      BY <3>1 DEF tables, TypeOK
    <3>2. CASE \E i \in pending : /\ pending' = pending \ {i}
                                  /\ targets' = TargetsWith(i)
                                  /\ dynSig' = DynSigWith(i)
      BY <3>2, ActivationType DEF TypeOK
    <3>3. QED
      BY <1>4, <3>1, <3>2, MissTables
  <2>6. /\ aliases' \in [Addr -> Addr \cup {NoAddr}]
        /\ memo' \in [Addr -> [source : Addr, sig : Code] \cup {NoMemo}]
    BY <1>4, <2>1, MissAliases
  <2>7. QED
    BY <2>3, <2>4, <2>5, <2>6 DEF TypeOK, Contents
<1>5. QED
  BY <1>3, <1>4 DEF Dispatch, e

(* A call dispatches over the memory it leaves behind: RAM as it is, or RAM  *)
(* with IP.BIN restored and the cache emptied.                               *)
LEMMA CallDispatches ==
  ASSUME TypeOK, NEW a \in Addr, CallRecompiled(a)
  PROVE  /\ ram' \in Contents
         /\ shadow' \in [seen : BOOLEAN, armed : BOOLEAN, latched : BOOLEAN]
         /\ \E entries \in {cache, [s \in Slots |-> EmptyEntry]} :
               entries \in Entries /\ Dispatch(a, ram', entries)
<1>1. CASE Dispatch(a, ram, cache) /\ UNCHANGED <<ram, shadow>>
  BY <1>1 DEF TypeOK, Contents, Entries
<1>2. CASE /\ \E sp \in StackCells :
                /\ ram' = RestoredRam(sp)
                /\ Dispatch(a, RestoredRam(sp), [s \in Slots |-> EmptyEntry])
           /\ shadow' = [shadow EXCEPT !.latched = TRUE]
  <2>1. \A sp \in StackCells : RestoredRam(sp) \in Contents
    BY ImageAssumption DEF RestoredRam, Contents, TypeOK
  <2>2. [s \in Slots |-> EmptyEntry] \in Entries
    BY DEF Entries, Entry
  <2>3. shadow' \in [seen : BOOLEAN, armed : BOOLEAN, latched : BOOLEAN]
    BY <1>2 DEF TypeOK
  <2>4. QED
    BY <1>2, <2>1, <2>2, <2>3
<1>3. QED
  BY <1>1, <1>2 DEF CallRecompiled

LEMMA InlineType ==
  ASSUME TypeOK, NEW a \in Addr, InlineFastCall(a)
  PROVE  TypeOK'
<1> DEFINE e == cache[Slot(a)]
<1>1. e \in FullEntry
  BY SlotInRange, SentinelAssumption DEF InlineFastCall, TypeOK, Hits, Entry, FullEntry, EmptyEntry
<1>2. RunFast(e, "generated")
  BY DEF InlineFastCall
<1>3. frames' \in Seq(Frame) /\ active' \in Relocation /\ ready' \in BOOLEAN
  BY <1>1, <1>2, RunType
<1>4. QED
  BY <1>3 DEF InlineFastCall, TypeOK, tables

LEMMA ReturnType ==
  ASSUME TypeOK, Return
  PROVE  TypeOK'
<1>1. Len(frames) \in Nat /\ Len(frames) # 0
  BY EmptySeq, LenProperties DEF Return, TypeOK
<1>2. \A k \in 1 .. Len(frames) : frames[k] \in Frame
  BY ElementOfSeq DEF TypeOK
<1>3. SubSeq(frames, 1, Len(frames) - 1) \in Seq(Frame)
  BY <1>1, <1>2, SubSeqProperties
<1>4. frames[Len(frames)].saved \in Relocation
  BY <1>1, <1>2 DEF Frame
<1>5. Refresh(frames[Len(frames)].saved) \in BOOLEAN
  BY ScalarAssumption DEF Refresh
<1>6. QED
  BY <1>3, <1>4, <1>5 DEF Return, TypeOK, tables

LEMMA InitType == Init => TypeOK
<1> SUFFICES ASSUME Init PROVE TypeOK
  OBVIOUS
<1>1. targets \in [Addr -> Code \cup {NoFn}]
  BY ImageAssumption DEF Init, Addr
<1>2. frames \in Seq(Frame) /\ active \in Relocation
  BY EmptySeq DEF Init, Relocation
<1>3. QED
  BY <1>1, <1>2, ImageAssumption, ScalarAssumption DEF Init, TypeOK, Entry

LEMMA NextType == TypeOK /\ [Next]_vars => TypeOK'
<1> SUFFICES ASSUME TypeOK, [Next]_vars PROVE TypeOK'
  OBVIOUS
<1>1. ASSUME NEW a \in Calls, CallRecompiled(a) PROVE TypeOK'
  BY <1>1, InputAssumption, CallDispatches, DispatchType
<1>2. ASSUME NEW a \in Calls, InlineFastCall(a) PROVE TypeOK'
  BY <1>2, InputAssumption, InlineType
<1>3. CASE Return
  BY <1>3, ReturnType
<1>4. ASSUME NEW w \in Writes, GuestWrite(w[1], w[2]) PROVE TypeOK'
  BY <1>4, InputAssumption DEF GuestWrite, TypeOK, tables
<1>5. CASE ObserveGame
  <2>1. PICK flipped \in {shadow.armed, TRUE} :
          shadow' = [seen |-> TRUE, armed |-> flipped, latched |-> shadow.latched /\ ~flipped]
    BY <1>5 DEF ObserveGame
  <2>2. flipped \in BOOLEAN /\ (shadow.latched /\ ~flipped) \in BOOLEAN
    BY DEF TypeOK
  <2>3. shadow' \in [seen : BOOLEAN, armed : BOOLEAN, latched : BOOLEAN]
    BY <2>1, <2>2
  <2>4. UNCHANGED <<ram, tables, aliases, memo, cache, frames, active, ready>>
    BY <1>5 DEF ObserveGame
  <2>5. QED
    BY <2>3, <2>4 DEF TypeOK, tables
<1>6. CASE UNCHANGED vars
  BY <1>6 DEF vars, TypeOK
<1>7. QED
  BY <1>1, <1>2, <1>3, <1>4, <1>5, <1>6 DEF Next

(* Every reachable state of the dispatcher is well typed.                    *)
THEOREM TypeCorrect == Spec => []TypeOK
  BY InitType, NextType, PTL DEF Spec

-----------------------------------------------------------------------------
(* Relocation context.  Frames entered by a fast path carry no relocation,   *)
(* because the fast paths are open only while none is active.                *)

FastFramesStraight ==
  \A k \in 1 .. Len(frames) :
     frames[k].via # "call" => frames[k].source = NoAddr /\ frames[k].saved = Straight

RelocationInv == TypeOK /\ RelocationMatchesFrames /\ FastFramesStraight

(* How e is entered: by call_recompiled, or by a fast path while that is     *)
(* allowed.                                                                  *)
Enters(e) == \/ Run(e)
             \/ /\ ready /\ e.source = NoAddr
                /\ \E path \in {"fast", "generated"} : RunFast(e, path)

LEMMA DispatchEnters ==
  ASSUME TypeOK, NEW a \in Addr, NEW mem \in Contents, NEW entries \in Entries, Dispatch(a, mem, entries)
  PROVE  \E e \in FullEntry : e.requested = a /\ Enters(e)
<1> DEFINE e == entries[Slot(a)]
<1>1. CASE Hits(e, a) /\ (IF ready /\ e.source = NoAddr THEN RunFast(e, "fast") ELSE Run(e))
  <2>1. e \in FullEntry
    BY <1>1, SlotInRange, SentinelAssumption DEF Hits, Entries, Entry, FullEntry, EmptyEntry
  <2>2. QED
    BY <1>1, <2>1 DEF Enters, Hits
<1>2. CASE Miss(a, mem, entries, Overwritten(a, mem))
  <2>1. Overwritten(a, mem) \in BOOLEAN
    BY DEF Overwritten, OverwrittenStatic, SnapshotMatches
  <2>2. QED
    BY <1>2, <2>1, MissFills DEF Enters
<1>3. QED
  BY <1>1, <1>2 DEF Dispatch

LEMMA CallEnters ==
  ASSUME TypeOK, NEW a \in Addr, CallRecompiled(a) \/ InlineFastCall(a)
  PROVE  \E e \in FullEntry : e.requested = a /\ Enters(e)
<1>1. CASE CallRecompiled(a)
  BY <1>1, CallDispatches, DispatchEnters
<1>2. CASE InlineFastCall(a)
  <2>1. cache[Slot(a)] \in FullEntry
    BY <1>2, SlotInRange, SentinelAssumption DEF InlineFastCall, TypeOK, Hits, Entry, FullEntry, EmptyEntry
  <2>2. QED
    BY <1>2, <2>1 DEF InlineFastCall, Enters, Hits
<1>3. QED
  BY <1>1, <1>2

LEMMA EnteringAppends ==
  ASSUME TypeOK, NEW e \in FullEntry, Enters(e)
  PROVE  \E path \in {"call", "fast", "generated"} :
           /\ path # "call" => ready /\ e.source = NoAddr /\ UNCHANGED <<active, ready>>
           /\ path = "call" => active' = RelocationOf(e) /\ ready' = Refresh(RelocationOf(e))
           /\ frames' = Append(frames, Activation(e, path))
           /\ Len(frames) \in Nat
           /\ Len(frames') = Len(frames) + 1
           /\ \A k \in 1 .. Len(frames) : frames'[k] = frames[k]
           /\ frames'[Len(frames')] = Activation(e, path)
<1>1. PICK path \in {"call", "fast", "generated"} :
        /\ path # "call" => ready /\ e.source = NoAddr /\ UNCHANGED <<active, ready>>
        /\ path = "call" => active' = RelocationOf(e) /\ ready' = Refresh(RelocationOf(e))
        /\ frames' = Append(frames, Activation(e, path))
  BY DEF Enters, Run, RunFast
<1>2. Activation(e, path) \in Frame
  BY DEF Activation, Frame, FullEntry, TypeOK
<1>3. frames \in Seq(Frame) /\ Len(frames) \in Nat
  BY LenProperties DEF TypeOK
<1>4. /\ Len(frames') = Len(frames) + 1
      /\ \A k \in 1 .. Len(frames) : frames'[k] = frames[k]
      /\ frames'[Len(frames')] = Activation(e, path)
  BY <1>1, <1>2, <1>3, AppendProperties
<1>5. QED
  BY <1>1, <1>3, <1>4

LEMMA EnteringKeepsRelocation ==
  ASSUME RelocationInv, NEW e \in FullEntry, Enters(e)
  PROVE  (RelocationMatchesFrames /\ FastFramesStraight)'
<1>0. PICK n \in Nat : n = Len(frames)
  BY LenProperties DEF RelocationInv, TypeOK
<1>1. PICK path \in {"call", "fast", "generated"} :
        /\ path # "call" => ready /\ e.source = NoAddr /\ UNCHANGED <<active, ready>>
        /\ path = "call" => active' = RelocationOf(e) /\ ready' = Refresh(RelocationOf(e))
        /\ Len(frames') = n + 1
        /\ \A k \in 1 .. n : frames'[k] = frames[k]
        /\ frames'[n + 1] = Activation(e, path)
  BY <1>0, EnteringAppends DEF RelocationInv
<1> DEFINE f == Activation(e, path)
<1>2. f.via = path /\ f.source = e.source /\ f.requested = e.requested /\ f.saved = active
  BY DEF Activation
<1>3. RelocationOf(f) = RelocationOf(e)
  BY <1>2 DEF RelocationOf
<1>4. path # "call" => active = Straight /\ RelocationOf(e) = Straight
  BY <1>1 DEF RelocationInv, RelocationMatchesFrames, Refresh, RelocationOf
<1> HIDE DEF f
<1>5. active' = RelocationOf(f) /\ ready' = Refresh(active')
  BY <1>1, <1>3, <1>4 DEF RelocationInv, RelocationMatchesFrames
<1>6. RelocationAt(n + 1)' = RelocationOf(f)
  BY <1>0, <1>1 DEF RelocationAt, f
<1>7. \A k \in 0 .. n : RelocationAt(k)' = RelocationAt(k)
  BY <1>1 DEF RelocationAt
<1>8. \A k \in 1 .. n + 1 : frames'[k].saved = RelocationAt(k - 1)'
  <2> SUFFICES ASSUME NEW k \in 1 .. n + 1 PROVE frames'[k].saved = RelocationAt(k - 1)'
    OBVIOUS
  <2>1. CASE k = n + 1
    BY <1>0, <1>1, <1>2, <1>7, <2>1 DEF RelocationInv, RelocationMatchesFrames, f
  <2>2. CASE k \in 1 .. n
    BY <1>0, <1>1, <1>7, <2>2 DEF RelocationInv, RelocationMatchesFrames
  <2>3. QED
    BY <1>1, <2>1, <2>2
<1>9. \A k \in 1 .. n + 1 : frames'[k].via # "call" => frames'[k].source = NoAddr /\ frames'[k].saved = Straight
  BY <1>0, <1>1, <1>2, <1>4 DEF RelocationInv, FastFramesStraight, f
<1>10. QED
  BY <1>0, <1>1, <1>5, <1>6, <1>8, <1>9 DEF RelocationMatchesFrames, FastFramesStraight

LEMMA ReturnKeepsRelocation ==
  ASSUME RelocationInv, Return
  PROVE  (RelocationMatchesFrames /\ FastFramesStraight)'
<1>0. PICK n \in Nat \ {0} : n = Len(frames)
  BY EmptySeq, LenProperties DEF Return, RelocationInv, TypeOK
<1> DEFINE f == frames[n]
<1>1. frames \in Seq(Frame)
  BY DEF RelocationInv, TypeOK
<1>2. frames' = SubSeq(frames, 1, n - 1)
  BY <1>0 DEF Return
<1>3. \A k \in 1 .. n : frames[k] \in Frame
  BY <1>0, <1>1, ElementOfSeq
<1>4. /\ Len(frames') = n - 1
      /\ \A k \in 1 .. n - 1 : frames'[k] = frames[k]
  <2>1. /\ Len(SubSeq(frames, 1, n - 1)) = IF 1 <= n - 1 THEN n - 1 - 1 + 1 ELSE 0
        /\ \A k \in 1 .. n - 1 - 1 + 1 : SubSeq(frames, 1, n - 1)[k] = frames[1 + k - 1]
    BY <1>3, SubSeqProperties
  <2>2. QED
    BY <1>2, <2>1
<1>5. \A k \in 0 .. n - 1 : RelocationAt(k)' = RelocationAt(k)
  BY <1>0, <1>4 DEF RelocationAt
<1>6. f.saved = RelocationAt(n - 1)
  BY <1>0 DEF RelocationInv, RelocationMatchesFrames
<1>7. active' = f.saved /\ ready' = Refresh(active')
  <2>1. CASE f.via = "call"
    BY <1>0, <2>1 DEF Return
  <2>2. CASE f.via # "call"
    <3>1. f.source = NoAddr /\ f.saved = Straight
      BY <1>0, <2>2 DEF RelocationInv, FastFramesStraight
    <3>2. active = Straight /\ ready = Refresh(active)
      BY <1>0, <3>1 DEF RelocationInv, RelocationMatchesFrames, RelocationAt, RelocationOf
    <3>3. QED
      BY <1>0, <2>2, <3>1, <3>2 DEF Return
  <2>3. QED
    BY <2>1, <2>2
<1>8. active' = RelocationAt(n - 1)'
  BY <1>5, <1>6, <1>7
<1>9. \A k \in 1 .. n - 1 : frames'[k].saved = RelocationAt(k - 1)'
  <2>1. \A k \in 1 .. n : frames[k].saved = RelocationAt(k - 1)
    BY <1>0 DEF RelocationInv, RelocationMatchesFrames
  <2>2. ASSUME NEW k \in 1 .. n - 1
        PROVE  frames'[k].saved = RelocationAt(k - 1)'
    <3>1. k \in 1 .. n /\ k - 1 \in 0 .. n - 1
      BY <1>0
    <3>2. frames'[k] = frames[k]
      BY <1>4
    <3>3. QED
      BY <1>5, <2>1, <3>1, <3>2
  <2>3. QED
    BY <2>2
<1>10. \A k \in 1 .. n - 1 : frames'[k].via # "call" => frames'[k].source = NoAddr /\ frames'[k].saved = Straight
  BY <1>0, <1>4 DEF RelocationInv, FastFramesStraight
<1>11. QED
  BY <1>4, <1>7, <1>8, <1>9, <1>10 DEF RelocationMatchesFrames, FastFramesStraight

LEMMA InitRelocation == Init => RelocationMatchesFrames /\ FastFramesStraight
  BY EmptySeq, ScalarAssumption
  DEF Init, RelocationMatchesFrames, FastFramesStraight, RelocationAt, Refresh

LEMMA NextRelocation == RelocationInv /\ [Next]_vars => RelocationInv'
<1> SUFFICES ASSUME RelocationInv, [Next]_vars PROVE (RelocationMatchesFrames /\ FastFramesStraight)'
  BY NextType DEF RelocationInv
<1>1. ASSUME NEW a \in Calls, CallRecompiled(a) \/ InlineFastCall(a)
      PROVE  (RelocationMatchesFrames /\ FastFramesStraight)'
  BY <1>1, InputAssumption, CallEnters, EnteringKeepsRelocation DEF RelocationInv
<1>2. CASE Return
  BY <1>2, ReturnKeepsRelocation
<1>3. CASE UNCHANGED <<frames, active, ready>>
  BY <1>3 DEF RelocationInv, RelocationMatchesFrames, FastFramesStraight, RelocationAt
<1>4. QED
  BY <1>1, <1>2, <1>3 DEF Next, GuestWrite, ObserveGame, vars

(* However calls, fast calls, returns and unwinding are nested, the published *)
(* relocation is that of the innermost call.                                 *)
THEOREM RelocationCorrect == Spec => []RelocationMatchesFrames
<1>1. Init => RelocationInv
  BY InitType, InitRelocation DEF RelocationInv
<1>2. RelocationInv => RelocationMatchesFrames
  BY DEF RelocationInv
<1>3. QED
  BY <1>1, <1>2, NextRelocation, PTL DEF Spec

-----------------------------------------------------------------------------
(* The dispatch cache, the aliases and the tables.                           *)

EntryAgrees(e, s) ==
  e # EmptyEntry =>
    /\ Slot(e.requested) = s
    /\ e.fn # Interp => e.fn = targets[e.target]
    /\ e.source = aliases[e.requested]
    /\ e.source # NoAddr => e.target = e.source /\ e.fn # Interp
    /\ e.source = NoAddr => e.target \in {e.requested, Mirror(e.requested)}

AllAgree(entries) == \A s \in Slots : EntryAgrees(entries[s], s)

TablesInv == TypeOK /\ AliasesRegistered /\ AllAgree(cache)

(* A registered address keeps its function, whatever a dispatch does.        *)
Kept == \A b \in Addr : targets[b] # NoFn => targets'[b] = targets[b]

LEMMA MissKeeps ==
  ASSUME TypeOK, NEW a \in Addr, NEW mem, NEW entries, NEW over, Miss(a, mem, entries, over)
  PROVE  Kept
<1>1. CASE UNCHANGED tables
  BY <1>1 DEF tables, Kept
<1>2. CASE \E i \in pending : targets' = TargetsWith(i)
  BY <1>2 DEF TargetsWith, Fresh, Kept
<1>3. QED
  BY <1>1, <1>2, MissTables

LEMMA DispatchKeeps ==
  ASSUME TypeOK, NEW a \in Addr, NEW mem, NEW entries, Dispatch(a, mem, entries)
  PROVE  Kept
  BY MissKeeps DEF Dispatch, tables, Kept

(* What the search of a miss settles on.                                     *)
LEMMA LookupAgrees ==
  ASSUME TypeOK, AliasesRegistered, NEW a \in Addr, NEW mem \in Contents, NEW over \in BOOLEAN,
         NEW l, l = Lookup(a, mem, over)
  PROVE  /\ l.found # NoAddr => Registered(l.found)
         /\ l.source = IF l.found # NoAddr THEN l.found ELSE aliases[a]
         /\ l.source # NoAddr => l.target = l.source /\ Registered(l.source)
         /\ l.source = NoAddr => l.target \in {a, Mirror(a)}
<1>1. Template(a, mem) # NoAddr => Registered(Template(a, mem))
  BY TemplateRegistered
<1>2. aliases[a] # NoAddr => Registered(aliases[a])
  BY DEF AliasesRegistered
<1>3. aliases[a] = NoAddr => Canonical(a) \in {a, Mirror(a)}
  BY DEF Canonical
<1>4. QED
  BY <1>1, <1>2, <1>3 DEF Lookup

LEMMA MissAgrees ==
  ASSUME TypeOK, AliasesRegistered, NEW a \in Addr, NEW mem \in Contents, NEW entries \in Entries,
         NEW over \in BOOLEAN, AllAgree(entries), Miss(a, mem, entries, over)
  PROVE  /\ AliasesRegistered'
         /\ \A s \in Slots : EntryAgrees(cache[s], s)'
<1>0. PICK look : look = Lookup(a, mem, over)
  OBVIOUS
<1>00. PICK native : native = IF over /\ look.source = NoAddr /\ IsPatched(look.target)
                             THEN NoFn ELSE targets[look.target]
  OBVIOUS
<1> DEFINE plain(fn) == [requested |-> a, target |-> a, source |-> NoAddr, fn |-> fn]
           full == [requested |-> a, target |-> look.target, source |-> look.source, fn |-> native]
<1>1. Kept
  BY MissKeeps
<1>2. /\ look.found # NoAddr => Registered(look.found)
      /\ look.source = IF look.found # NoAddr THEN look.found ELSE aliases[a]
      /\ look.source # NoAddr => look.target = look.source /\ Registered(look.source)
      /\ look.source = NoAddr => look.target \in {a, Mirror(a)}
      /\ look.target \in Addr
  <2>1. look.target \in Addr
    BY <1>0, LookupType
  <2>2. QED
    BY <1>0, <2>1, LookupAgrees
<1>3. aliases' = IF look.found = NoAddr THEN aliases ELSE [aliases EXCEPT ![a] = look.found]
  BY <1>0 DEF Miss
<1>4. /\ aliases'[a] = look.source
      /\ \A b \in Addr \ {a} : aliases'[b] = aliases[b]
  BY <1>2, <1>3 DEF TypeOK
<1>5. AliasesRegistered'
  <2> SUFFICES ASSUME NEW b \in Addr, aliases'[b] # NoAddr PROVE aliases'[b] \in Addr /\ targets'[aliases'[b]] # NoFn
    BY DEF AliasesRegistered, Registered
  <2>1. aliases'[b] \in Addr /\ targets[aliases'[b]] # NoFn
    BY <1>2, <1>4 DEF AliasesRegistered, Registered, TypeOK
  <2>2. QED
    BY <1>1, <2>1 DEF Kept
<1>6. \A e \in Entry, s \in Slots : s # Slot(a) /\ EntryAgrees(e, s) => EntryAgrees(e, s)'
  <2> SUFFICES ASSUME NEW e \in Entry, NEW s \in Slots, s # Slot(a), EntryAgrees(e, s), e # EmptyEntry
               PROVE  EntryAgrees(e, s)'
    BY DEF EntryAgrees
  <2>1. e \in FullEntry /\ e.requested \in Addr \ {a}
    BY DEF Entry, FullEntry, EntryAgrees
  <2>2. aliases'[e.requested] = aliases[e.requested]
    BY <1>4, <2>1
  <2>3. e.fn # Interp => targets[e.target] # NoFn
    BY <2>1, SentinelAssumption DEF EntryAgrees, FullEntry, Fn
  <2>4. e.fn # Interp => targets'[e.target] = targets[e.target]
    BY <1>1, <2>1, <2>3 DEF Kept, FullEntry
  <2>5. QED
    BY <2>2, <2>4 DEF EntryAgrees
<1>7. \A i \in pending : CacheWithout(i, entries) \in Entries /\ AllAgree(CacheWithout(i, entries))
  BY CacheWithoutType DEF CacheWithout, AllAgree, EntryAgrees, TypeOK
<1>8. ASSUME NEW es \in Entries, AllAgree(es), NEW f, EntryAgrees(f, Slot(a))',
             cache' = [es EXCEPT ![Slot(a)] = f]
      PROVE  \A s \in Slots : EntryAgrees(cache[s], s)'
  <2> SUFFICES ASSUME NEW s \in Slots PROVE EntryAgrees(cache[s], s)'
    OBVIOUS
  <2>1. CASE s = Slot(a)
    <3>1. cache'[s] = f
      BY <1>8, <2>1 DEF Entries
    <3>2. QED
      BY <1>8, <2>1, <3>1 DEF EntryAgrees
  <2>2. CASE s # Slot(a)
    <3>1. cache'[s] = es[s] /\ es[s] \in Entry
      BY <1>8, <2>2 DEF Entries
    <3>2. EntryAgrees(es[s], s)'
      BY <1>6, <1>8, <2>2, <3>1 DEF AllAgree
    <3>3. QED
      BY <3>1, <3>2 DEF EntryAgrees
  <2>3. QED
    BY <2>1, <2>2
<1>9. look.source # NoAddr => native # NoFn
  BY <1>2, <1>00 DEF Registered
<1>10. CASE /\ native # NoFn
            /\ cache' = [entries EXCEPT ![Slot(a)] = full]
  <2>1. targets'[look.target] = targets[look.target] /\ targets[look.target] = native
    BY <1>00, <1>1, <1>2, <1>10 DEF Kept
  <2>2. native # Interp
    BY <1>00, <1>2, <1>10, SentinelAssumption DEF TypeOK
  <2>3. EntryAgrees(full, Slot(a))'
    BY <1>2, <1>4, <2>1, <2>2 DEF EntryAgrees
  <2>4. QED
    BY <1>5, <1>8, <1>10, <2>3
<1>11. CASE /\ native = NoFn
            /\ cache' = [entries EXCEPT ![Slot(a)] = plain(Interp)]
  <2>1. EntryAgrees(plain(Interp), Slot(a))'
    BY <1>4, <1>9, <1>11 DEF EntryAgrees
  <2>2. QED
    BY <1>5, <1>8, <1>11, <2>1
<1>12. ASSUME native = NoFn,
              NEW i \in pending, targets' = TargetsWith(i),
              NEW fn \in {Interp, TargetsWith(i)[a]},
              cache' = [CacheWithout(i, entries) EXCEPT ![Slot(a)] = plain(fn)]
       PROVE  \A s \in Slots : EntryAgrees(cache[s], s)'
  <2>1. EntryAgrees(plain(fn), Slot(a))'
    BY <1>4, <1>9, <1>12 DEF EntryAgrees
  <2>2. QED
    BY <1>7, <1>8, <1>12, <2>1
<1>13. QED
  <2>1. \/ /\ native # NoFn
           /\ cache' = [entries EXCEPT ![Slot(a)] = full]
        \/ /\ native = NoFn
           /\ cache' = [entries EXCEPT ![Slot(a)] = plain(Interp)]
        \/ /\ native = NoFn
           /\ \E i \in pending : /\ targets' = TargetsWith(i)
                                 /\ \E fn \in {Interp, TargetsWith(i)[a]} :
                                      cache' = [CacheWithout(i, entries) EXCEPT ![Slot(a)] = plain(fn)]
    BY <1>0, <1>00 DEF Miss, Activatable
  <2>2. QED
    BY <1>5, <1>10, <1>11, <1>12, <2>1

(* The entry a dispatch enters agrees with the tables it leaves behind.      *)
LEMMA DispatchAgrees ==
  ASSUME TypeOK, AliasesRegistered, NEW a \in Addr, NEW mem \in Contents, NEW entries \in Entries,
         AllAgree(entries), Dispatch(a, mem, entries)
  PROVE  /\ AliasesRegistered'
         /\ \A s \in Slots : EntryAgrees(cache[s], s)'
<1>1. CASE cache' = entries /\ UNCHANGED <<tables, aliases, memo>>
  <2>1. AliasesRegistered'
    BY <1>1 DEF AliasesRegistered, Registered, tables
  <2>2. \A s \in Slots : EntryAgrees(cache[s], s)'
    BY <1>1 DEF AllAgree, EntryAgrees, tables
  <2>3. QED
    BY <2>1, <2>2
<1>2. CASE Miss(a, mem, entries, Overwritten(a, mem))
  <2>1. Overwritten(a, mem) \in BOOLEAN
    BY DEF Overwritten, OverwrittenStatic, SnapshotMatches
  <2>2. QED
    BY <1>2, <2>1, MissAgrees
<1>3. QED
  BY <1>1, <1>2 DEF Dispatch

LEMMA EmptyAgrees == AllAgree([s \in Slots |-> EmptyEntry])
  BY DEF AllAgree, EntryAgrees

LEMMA InitTables == Init => TablesInv
<1> SUFFICES ASSUME Init PROVE TablesInv
  OBVIOUS
<1>1. AliasesRegistered
  BY DEF Init, AliasesRegistered
<1>2. AllAgree(cache)
  BY EmptyAgrees DEF Init
<1>3. QED
  BY <1>1, <1>2, InitType DEF TablesInv

LEMMA NextTables == TablesInv /\ [Next]_vars => TablesInv'
<1> SUFFICES ASSUME TablesInv, [Next]_vars
             PROVE  AliasesRegistered' /\ \A s \in Slots : EntryAgrees(cache[s], s)'
  BY NextType DEF TablesInv, AllAgree, EntryAgrees
<1>1. ASSUME NEW a \in Calls, CallRecompiled(a)
      PROVE  AliasesRegistered' /\ \A s \in Slots : EntryAgrees(cache[s], s)'
  <2>1. a \in Addr
    BY InputAssumption
  <2>2. PICK entries \in {cache, [s \in Slots |-> EmptyEntry]} :
          entries \in Entries /\ Dispatch(a, ram', entries)
    BY <1>1, <2>1, CallDispatches DEF TablesInv
  <2>3. ram' \in Contents
    BY <1>1, <2>1, CallDispatches DEF TablesInv
  <2>4. AllAgree(entries)
    BY EmptyAgrees DEF TablesInv
  <2>5. QED
    BY <2>1, <2>2, <2>3, <2>4, DispatchAgrees DEF TablesInv
<1>2. CASE UNCHANGED <<tables, aliases, cache>>
  <2>1. AliasesRegistered'
    BY <1>2 DEF TablesInv, AliasesRegistered, Registered, tables
  <2>2. \A s \in Slots : EntryAgrees(cache[s], s)'
    BY <1>2 DEF TablesInv, AllAgree, EntryAgrees, tables
  <2>3. QED
    BY <2>1, <2>2
<1>3. QED
  BY <1>1, <1>2 DEF Next, InlineFastCall, Return, GuestWrite, ObserveGame, vars, tables

(* An alias always leads to a registered function.                           *)
THEOREM AliasesCorrect == Spec => []AliasesRegistered
<1>1. TablesInv => AliasesRegistered
  BY DEF TablesInv
<1>2. QED
  BY <1>1, InitTables, NextTables, PTL DEF Spec

(* The dispatch cache never disagrees with the tables behind it, whatever    *)
(* patches were activated, aliases established or bootstraps restored.       *)
THEOREM CacheCorrect == Spec => []CacheAgrees
<1>1. TablesInv => CacheAgrees
  BY DEF TablesInv, AllAgree, EntryAgrees, CacheAgrees
<1>2. QED
  BY <1>1, InitTables, NextTables, PTL DEF Spec

(* Cache, aliases and registered functions always agree.                     *)
THEOREM TablesCorrect == Spec => []TablesAgree
<1>1. CacheAgrees /\ AliasesRegistered => TablesAgree
  BY DEF TablesAgree
<1>2. QED
  BY <1>1, CacheCorrect, AliasesCorrect, PTL

-----------------------------------------------------------------------------
(* Registrations and signatures.                                             *)

(* Addresses of the boot image keep their boot function and get no snapshot. *)
BootRegistered == \A a \in Base \cup Incremental : targets[a] # NoFn /\ dynSig[a] = NoPatch

SignatureInv == TypeOK /\ SignaturesMatchFunctions /\ BootRegistered

LEMMA InitSignatures == Init => SignatureInv
<1> SUFFICES ASSUME Init PROVE SignatureInv
  OBVIOUS
<1>1. \A a \in Addr : Image[a.phys] \in Code
  BY ImageAssumption DEF Addr
<1>2. SignaturesMatchFunctions
  BY <1>1, SentinelAssumption DEF Init, SignaturesMatchFunctions
<1>3. BootRegistered
  BY <1>1, SentinelAssumption, TargetAssumption DEF Init, BootRegistered
<1>4. QED
  BY <1>2, <1>3, InitType DEF SignatureInv

(* A step leaves the tables alone or activates one patch.                    *)
LEMMA StepTables ==
  ASSUME TypeOK, [Next]_vars
  PROVE  \/ UNCHANGED tables
         \/ \E i \in pending : /\ pending' = pending \ {i}
                               /\ targets' = TargetsWith(i)
                               /\ dynSig' = DynSigWith(i)
<1>1. ASSUME NEW a \in Calls, CallRecompiled(a)
      PROVE  \/ UNCHANGED tables
             \/ \E i \in pending : /\ pending' = pending \ {i}
                                   /\ targets' = TargetsWith(i)
                                   /\ dynSig' = DynSigWith(i)
  <2>1. PICK entries : Dispatch(a, ram', entries)
    BY <1>1, InputAssumption, CallDispatches
  <2>2. CASE UNCHANGED <<tables, aliases, memo>>
    BY <2>2
  <2>3. CASE Miss(a, ram', entries, Overwritten(a, ram'))
    BY <2>3, InputAssumption, MissTables
  <2>4. QED
    BY <2>1, <2>2, <2>3 DEF Dispatch
<1>2. (\E a \in Calls : CallRecompiled(a)) \/ UNCHANGED tables
  BY DEF Next, InlineFastCall, Return, GuestWrite, ObserveGame, vars, tables
<1>3. QED
  BY <1>1, <1>2

LEMMA NextSignatures == SignatureInv /\ [Next]_vars => SignatureInv'
<1> SUFFICES ASSUME SignatureInv, [Next]_vars PROVE SignaturesMatchFunctions' /\ BootRegistered'
  BY NextType DEF SignatureInv
<1>1. CASE UNCHANGED tables
  BY <1>1 DEF tables, SignatureInv, SignaturesMatchFunctions, BootRegistered
<1>2. ASSUME NEW i \in pending, targets' = TargetsWith(i), dynSig' = DynSigWith(i)
      PROVE  SignaturesMatchFunctions' /\ BootRegistered'
  <2>1. i \in Patch /\ i # NoPatch
    BY SentinelAssumption DEF SignatureInv, TypeOK
  <2>2. \A a \in Addr : IF a \in Fresh(i) THEN targets'[a] = PatchCode[i][a.phys] /\ dynSig'[a] = i
                                           ELSE targets'[a] = targets[a] /\ dynSig'[a] = dynSig[a]
    BY <1>2 DEF TargetsWith, DynSigWith
  <2>3. SignaturesMatchFunctions'
    BY <2>1, <2>2 DEF SignatureInv, SignaturesMatchFunctions
  <2>4. BootRegistered'
    BY <2>2, TargetAssumption DEF SignatureInv, BootRegistered, Fresh
  <2>5. QED
    BY <2>3, <2>4
<1>3. QED
  BY <1>1, <1>2, StepTables DEF SignatureInv

(* The snapshot that guards a patched address is the one its function was    *)
(* compiled from, however patches and calls interleave.                      *)
THEOREM SignaturesCorrect == Spec => []SignaturesMatchFunctions
<1>1. SignatureInv => SignaturesMatchFunctions
  BY DEF SignatureInv
<1>2. QED
  BY <1>1, InitSignatures, NextSignatures, PTL DEF Spec

(* No activation ever replaces a registered function.                        *)
THEOREM RegistrationsCorrect == Spec => RegistrationsKept
<1>1. TypeOK /\ [Next]_vars => [\A a \in Addr : targets[a] # NoFn => targets'[a] = targets[a]]_vars
  BY StepTables DEF tables, TargetsWith, Fresh
<1>2. QED
  BY <1>1, TypeCorrect, PTL DEF Spec, RegistrationsKept

-----------------------------------------------------------------------------
(* What a call enters.                                                       *)

(* The entry that CallRecompiled enters agrees with the tables afterwards.   *)
LEMMA DispatchEntersAgreed ==
  ASSUME TypeOK, AliasesRegistered, NEW a \in Addr, NEW mem \in Contents, NEW entries \in Entries,
         AllAgree(entries), Dispatch(a, mem, entries)
  PROVE  \E e \in FullEntry : /\ e.requested = a /\ Enters(e) /\ e = cache'[Slot(a)]
                              /\ EntryAgrees(e, Slot(a))'
<1>1. \A s \in Slots : EntryAgrees(cache[s], s)'
  BY DispatchAgrees
<1>2. Slot(a) \in Slots
  BY SlotInRange
<1>3. CASE /\ Hits(entries[Slot(a)], a) /\ cache' = entries
           /\ IF ready /\ entries[Slot(a)].source = NoAddr
              THEN RunFast(entries[Slot(a)], "fast") ELSE Run(entries[Slot(a)])
  <2>1. PICK e : e = entries[Slot(a)]
    OBVIOUS
  <2>2. e \in FullEntry
    BY <1>2, <1>3, <2>1, SentinelAssumption DEF Hits, Entries, Entry, FullEntry, EmptyEntry
  <2>3. EntryAgrees(e, Slot(a))'
    BY <1>1, <1>2, <1>3, <2>1 DEF EntryAgrees
  <2>4. QED
    BY <1>3, <2>1, <2>2, <2>3 DEF Enters, Hits
<1>4. CASE Miss(a, mem, entries, Overwritten(a, mem))
  <2>1. Overwritten(a, mem) \in BOOLEAN
    BY DEF Overwritten, OverwrittenStatic, SnapshotMatches
  <2>2. PICK e \in FullEntry, es \in Entries : e.requested = a /\ cache' = [es EXCEPT ![Slot(a)] = e] /\ Run(e)
    BY <1>4, <2>1, MissFills
  <2>3. cache'[Slot(a)] = e
    BY <1>2, <2>2 DEF Entries
  <2>4. EntryAgrees(e, Slot(a))'
    BY <1>1, <1>2, <2>3 DEF EntryAgrees
  <2>5. QED
    BY <2>2, <2>3, <2>4 DEF Enters
<1>5. QED
  BY <1>3, <1>4 DEF Dispatch

LEMMA CallEntersAgreed ==
  ASSUME TablesInv, NEW a \in Addr, CallRecompiled(a) \/ InlineFastCall(a)
  PROVE  \E e \in FullEntry : /\ e.requested = a /\ Enters(e) /\ e = cache'[Slot(a)]
                              /\ EntryAgrees(e, Slot(a))'
<1>1. CASE CallRecompiled(a)
  <2>1. PICK entries \in {cache, [s \in Slots |-> EmptyEntry]} :
          entries \in Entries /\ Dispatch(a, ram', entries)
    BY <1>1, CallDispatches DEF TablesInv
  <2>2. ram' \in Contents
    BY <1>1, CallDispatches DEF TablesInv
  <2>3. AllAgree(entries)
    BY EmptyAgrees DEF TablesInv
  <2>4. QED
    BY <2>1, <2>2, <2>3, DispatchEntersAgreed DEF TablesInv
<1>2. CASE InlineFastCall(a)
  <2>1. PICK e : e = cache[Slot(a)]
    OBVIOUS
  <2>2. e \in FullEntry /\ EntryAgrees(e, Slot(a))
    BY <1>2, <2>1, SlotInRange, SentinelAssumption
    DEF InlineFastCall, TablesInv, AllAgree, TypeOK, Hits, Entry, FullEntry, EmptyEntry
  <2>3. EntryAgrees(e, Slot(a))'
    BY <1>2, <2>2 DEF InlineFastCall, EntryAgrees, tables
  <2>4. QED
    BY <1>2, <2>1, <2>2, <2>3 DEF InlineFastCall, Enters, Hits
<1>3. QED
  BY <1>1, <1>2

LEMMA NextAnnounced == TablesInv /\ RelocatedIsAnnounced /\ [Next]_vars => RelocatedIsAnnounced'
<1> SUFFICES ASSUME TablesInv, RelocatedIsAnnounced, [Next]_vars PROVE RelocatedIsAnnounced'
  OBVIOUS
<1>1. ASSUME NEW a \in Calls, CallRecompiled(a) \/ InlineFastCall(a) PROVE RelocatedIsAnnounced'
  <2>1. a \in Addr
    BY InputAssumption
  <2>2. PICK e \in FullEntry : e.requested = a /\ Enters(e) /\ EntryAgrees(e, Slot(a))'
    BY <1>1, <2>1, CallEntersAgreed
  <2>3. e # EmptyEntry
    BY <2>1, <2>2, SentinelAssumption DEF EmptyEntry
  <2>4. e.target.phys # e.requested.phys => e.source = e.target
    BY <2>2, <2>3 DEF EntryAgrees, Mirror, FullEntry, Addr
  <2>5. e.target # NoAddr
    BY SentinelAssumption DEF FullEntry
  <2>6. PICK path \in {"call", "fast", "generated"} :
           /\ path # "call" => e.source = NoAddr
           /\ Len(frames) \in Nat
           /\ Len(frames') = Len(frames) + 1
           /\ \A k \in 1 .. Len(frames) : frames'[k] = frames[k]
           /\ frames'[Len(frames')] = Activation(e, path)
    BY <2>2, EnteringAppends DEF TablesInv
  <2> SUFFICES ASSUME NEW k \in 1 .. Len(frames'), frames'[k].target.phys # frames'[k].requested.phys
               PROVE  frames'[k].via = "call" /\ frames'[k].source = frames'[k].target
    BY DEF RelocatedIsAnnounced
  <2>7. CASE k = Len(frames')
    BY <2>4, <2>5, <2>6, <2>7 DEF Activation
  <2>8. CASE k \in 1 .. Len(frames)
    BY <2>6, <2>8 DEF RelocatedIsAnnounced
  <2>9. QED
    BY <2>6, <2>7, <2>8
<1>2. CASE Return
  <2>0. PICK n \in Nat \ {0} : n = Len(frames)
    BY <1>2, EmptySeq, LenProperties DEF Return, TablesInv, TypeOK
  <2>1. \A k \in 1 .. n : frames[k] \in Frame
    BY <2>0, ElementOfSeq DEF TablesInv, TypeOK
  <2>2. frames' = SubSeq(frames, 1, n - 1)
    BY <1>2, <2>0 DEF Return
  <2>3. /\ Len(SubSeq(frames, 1, n - 1)) = IF 1 <= n - 1 THEN n - 1 - 1 + 1 ELSE 0
        /\ \A k \in 1 .. n - 1 - 1 + 1 : SubSeq(frames, 1, n - 1)[k] = frames[1 + k - 1]
    BY <2>1, SubSeqProperties
  <2>4. Len(frames') = n - 1 /\ \A k \in 1 .. n - 1 : frames'[k] = frames[k]
    BY <2>2, <2>3
  <2>5. QED
    BY <2>0, <2>4 DEF RelocatedIsAnnounced
<1>3. CASE UNCHANGED frames
  BY <1>3 DEF RelocatedIsAnnounced
<1>4. QED
  BY <1>1, <1>2, <1>3 DEF Next, GuestWrite, ObserveGame, vars

(* Code never runs in place of other cells without being announced, whatever *)
(* was cached before.                                                        *)
THEOREM RelocatedCorrect == Spec => []RelocatedIsAnnounced
<1>1. Init => RelocatedIsAnnounced
  BY EmptySeq DEF Init, RelocatedIsAnnounced
<1>2. QED
  BY <1>1, InitTables, NextTables, NextAnnounced, PTL DEF Spec

(* What the runtime has published about relocation is what runs.             *)
THEOREM TrackedCorrect == Spec => []RelocationTracked
<1>1. RelocationMatchesFrames /\ RelocatedIsAnnounced => RelocationTracked
  BY DEF RelocationTracked
<1>2. QED
  BY <1>1, RelocationCorrect, RelocatedCorrect, PTL

-----------------------------------------------------------------------------
(* Bytes are compared before a patch is entered.                             *)

LEMMA NotOverwritten ==
  ASSUME SignatureInv, NEW a \in Addr, NEW mem \in Contents, ~Overwritten(a, mem)
  PROVE  /\ dynSig[a] # NoPatch => SnapshotMatches(dynSig[a], mem)
         /\ a \in Incremental /\ Commercial => mem[a.phys] = Image[a.phys]
<1>1. dynSig[a] # NoPatch => SnapshotMatches(dynSig[a], mem)
  BY DEF Overwritten
<1>2. a \in Incremental => Canonical(a) = a /\ dynSig[a] = NoPatch
  BY DEF SignatureInv, BootRegistered, Canonical
<1>3. a \in Incremental /\ Commercial => mem[a.phys] = Image[a.phys]
  BY <1>2 DEF Overwritten, OverwrittenStatic
<1>4. QED
  BY <1>1, <1>3

LEMMA DispatchBytes ==
  ASSUME SignatureInv, NEW a \in Addr, NEW mem \in Contents, NEW entries \in Entries,
         Dispatch(a, mem, entries)
  PROVE  \E e \in FullEntry :
           /\ e.requested = a /\ Enters(e)
           /\ ~(pending' # pending /\ Registered(a)) /\ e.fn # Interp /\ e.source = NoAddr /\ e.target = a
                => BytesMatch(a, mem)
<1>0. TypeOK
  BY DEF SignatureInv
<1>1. CASE /\ ~Overwritten(a, mem) /\ Hits(entries[Slot(a)], a) /\ UNCHANGED tables
           /\ IF ready /\ entries[Slot(a)].source = NoAddr
              THEN RunFast(entries[Slot(a)], "fast") ELSE Run(entries[Slot(a)])
  <2>1. BytesMatch(a, mem)
    BY <1>1, NotOverwritten DEF BytesMatch, tables
  <2>2. entries[Slot(a)] \in FullEntry
    BY <1>1, SlotInRange, SentinelAssumption DEF Hits, Entries, Entry, FullEntry, EmptyEntry
  <2>3. QED
    BY <1>1, <2>1, <2>2 DEF Enters, Hits
<1>2. CASE Miss(a, mem, entries, Overwritten(a, mem))
  <2>1. PICK over \in BOOLEAN : over = Overwritten(a, mem)
    BY DEF Overwritten, OverwrittenStatic, SnapshotMatches
  <2>2. PICK look : look = Lookup(a, mem, over)
    OBVIOUS
  <2>3. look.target \in Addr /\ look.source \in Addr \cup {NoAddr}
    BY <1>0, <2>2, LookupType
  <2>4. PICK native : native = IF over /\ look.source = NoAddr /\ IsPatched(look.target)
                             THEN NoFn ELSE targets[look.target]
    OBVIOUS
  <2> DEFINE full == [requested |-> a, target |-> look.target, source |-> look.source, fn |-> native]
             plain(fn) == [requested |-> a, target |-> a, source |-> NoAddr, fn |-> fn]
  <2>5. CASE native # NoFn /\ Run(full) /\ UNCHANGED tables
    <3>1. full \in FullEntry
      BY <1>0, <2>3, <2>4, <2>5 DEF FullEntry, TypeOK, Fn
    <3>2. ASSUME look.source = NoAddr, look.target = a PROVE BytesMatch(a, mem)
      <4>1. CASE ~over
        BY <2>1, <2>5, <4>1, NotOverwritten DEF BytesMatch, tables
      <4>2. CASE ~IsPatched(a)
        BY <2>5, <4>2 DEF BytesMatch, IsPatched, tables
      <4>3. QED
        BY <2>4, <2>5, <3>2, <4>1, <4>2
    <3>3. QED
      BY <2>5, <3>1, <3>2 DEF Enters
  <2>6. CASE Run(plain(Interp))
    BY <2>6 DEF Enters, FullEntry, Fn
  <2>7. ASSUME NEW i \in Activatable(a, mem), NEW fn,
               dynSig' = DynSigWith(i), Run(plain(fn)), pending' # pending,
               fn = IF Fresh(i) # {} /\ TargetsWith(i)[a] # NoFn THEN TargetsWith(i)[a] ELSE Interp
        PROVE  \E e \in FullEntry :
                 /\ e.requested = a /\ Enters(e)
                 /\ ~(pending' # pending /\ Registered(a)) /\ e.fn # Interp /\ e.source = NoAddr /\ e.target = a
                      => BytesMatch(a, mem)
    <3> DEFINE e == plain(fn)
    <3>1. i \in Patch /\ SnapshotMatches(i, mem)
      BY <1>0 DEF Activatable, TypeOK
    <3>2. TargetsWith(i)[a] \in Code \cup {NoFn}
      BY <1>0, <3>1, ActivationType
    <3>3. e \in FullEntry /\ Enters(e)
      BY <2>7, <3>2 DEF FullEntry, Fn, Enters
    <3>4. ASSUME ~Registered(a), fn # Interp PROVE BytesMatch(a, mem)
      <4>1. a \in Fresh(i)
        BY <2>7, <3>4 DEF TargetsWith, Registered
      <4>2. dynSig'[a] = i
        BY <2>7, <4>1 DEF DynSigWith
      <4>3. a \notin Incremental
        BY <3>4 DEF SignatureInv, BootRegistered, Registered
      <4>4. QED
        BY <3>1, <4>2, <4>3 DEF BytesMatch
    <3>5. QED
      BY <2>7, <3>3, <3>4
  <2>8. \/ native # NoFn /\ Run(full) /\ UNCHANGED tables
        \/ Run(plain(Interp))
        \/ \E i \in Activatable(a, mem) : \E fn \in {Interp, TargetsWith(i)[a]} :
              /\ dynSig' = DynSigWith(i) /\ pending' # pending /\ Run(plain(fn))
              /\ fn = IF Fresh(i) # {} /\ TargetsWith(i)[a] # NoFn THEN TargetsWith(i)[a] ELSE Interp
    BY <1>2, <2>1, <2>2, <2>4 DEF Miss, Activatable
  <2>9. QED
    BY <2>5, <2>6, <2>7, <2>8
<1>3. QED
  BY <1>1, <1>2 DEF Dispatch

LEMMA OnlyCallsEnter ==
  ASSUME TypeOK, [Next]_vars, Entered
  PROVE  \E a \in Calls : CallRecompiled(a) \/ (InlineFastCall(a) /\ Callee.via = "generated")
<1>0. PICK n \in Nat : n = Len(frames)
  BY LenProperties DEF TypeOK
<1>1. ASSUME Return PROVE FALSE
  <2>1. \A k \in 1 .. n : frames[k] \in Frame
    BY <1>0, ElementOfSeq DEF TypeOK
  <2>2. Len(SubSeq(frames, 1, n - 1)) = IF 1 <= n - 1 THEN n - 1 - 1 + 1 ELSE 0
    BY <2>1, SubSeqProperties
  <2>3. QED
    BY <1>0, <1>1, <2>2 DEF Return, Entered
<1>2. ASSUME UNCHANGED frames PROVE FALSE
  BY <1>0, <1>2 DEF Entered
<1>3. ASSUME NEW a \in Calls, InlineFastCall(a) PROVE Callee.via = "generated"
  <2>1. PICK e : e = cache[Slot(a)]
    OBVIOUS
  <2>2. e \in FullEntry
    BY <1>3, <2>1, InputAssumption, SlotInRange, SentinelAssumption
    DEF InlineFastCall, TypeOK, Hits, Entry, FullEntry, EmptyEntry
  <2>3. Activation(e, "generated") \in Frame
    BY <2>2 DEF Activation, Frame, FullEntry, TypeOK
  <2>4. frames' = Append(frames, Activation(e, "generated"))
    BY <1>3, <2>1 DEF InlineFastCall, RunFast
  <2>5. frames'[Len(frames) + 1] = Activation(e, "generated") /\ Len(frames') = Len(frames) + 1
    BY <2>3, <2>4, AppendProperties DEF TypeOK
  <2>6. QED
    BY <2>5 DEF Callee, Activation
<1>4. QED
  BY <1>1, <1>2, <1>3 DEF Next, GuestWrite, ObserveGame, vars

(* call_recompiled enters a patch, from the cache, from the table or freshly *)
(* activated, only over the bytes it was compiled from; what escapes is a    *)
(* call that activates another patch of an entry already registered.         *)
THEOREM PatchBytesCorrect == Spec => PatchBytesChecked
<1> DEFINE Checked == Entered /\ Native /\ Callee.via # "generated" /\ ~EscapesCheck
                      /\ Callee.source = NoAddr /\ Callee.target = Callee.requested
                        => BytesMatch(Callee.target, ram')
<1>1. ASSUME SignatureInv, [Next]_vars, Entered, Native, Callee.via # "generated", ~EscapesCheck,
             Callee.source = NoAddr, Callee.target = Callee.requested
      PROVE  BytesMatch(Callee.target, ram')
  <2>0. TypeOK
    BY <1>1 DEF SignatureInv
  <2>1. PICK a \in Calls : CallRecompiled(a)
    BY <1>1, <2>0, OnlyCallsEnter
  <2>2. a \in Addr
    BY InputAssumption
  <2>3. PICK entries \in Entries : Dispatch(a, ram', entries)
    BY <2>0, <2>1, <2>2, CallDispatches
  <2>4. ram' \in Contents
    BY <2>0, <2>1, <2>2, CallDispatches
  <2>5. PICK e \in FullEntry :
           /\ e.requested = a /\ Enters(e)
           /\ ~(pending' # pending /\ Registered(a)) /\ e.fn # Interp /\ e.source = NoAddr /\ e.target = a
                => BytesMatch(a, ram')
    BY <1>1, <2>2, <2>3, <2>4, DispatchBytes
  <2>6. \E path : Callee = Activation(e, path)
    BY <2>0, <2>5, EnteringAppends DEF Callee
  <2>7. /\ Callee.requested = a /\ Callee.fn = e.fn
        /\ Callee.source = e.source /\ Callee.target = e.target
    BY <2>5, <2>6 DEF Activation
  <2>8. QED
    BY <1>1, <2>5, <2>7 DEF Native, EscapesCheck
<1>2. SignatureInv /\ [Next]_vars => [Checked]_vars
  BY <1>1 DEF Entered, Callee
<1>3. QED
  BY <1>2, InitSignatures, NextSignatures, PTL DEF Spec, PatchBytesChecked

-----------------------------------------------------------------------------
(* Activation and re-entry.                                                  *)

(* Functions a deferred patch registers are reached from then on.            *)
THEOREM InterpreterYieldsCorrect == Spec => InterpreterYields
<1> DEFINE Yields == \A a \in Addr : targets[a] = NoFn /\ targets'[a] # NoFn
                        => cache'[Slot(a)].requested # a \/ cache'[Slot(a)].fn # Interp
<1>1. ASSUME TypeOK, NEW a \in Addr, NEW mem, NEW entries \in Entries, Dispatch(a, mem, entries),
             NEW b \in Addr, targets[b] = NoFn, targets'[b] # NoFn
      PROVE  cache'[Slot(b)].requested # b \/ cache'[Slot(b)].fn # Interp
  <2>1. PICK i \in pending : \E fn :
          /\ targets' = TargetsWith(i)
          /\ fn = IF Fresh(i) # {} /\ TargetsWith(i)[a] # NoFn THEN TargetsWith(i)[a] ELSE Interp
          /\ cache' = [CacheWithout(i, entries) EXCEPT
                         ![Slot(a)] = [requested |-> a, target |-> a, source |-> NoAddr, fn |-> fn]]
    BY <1>1 DEF Dispatch, Miss, Activatable, tables
  <2>2. i \in Patch /\ b \in Fresh(i) /\ b \in PatchFns[i]
    BY <1>1, <2>1 DEF TargetsWith, Fresh, TypeOK
  <2>3. Slot(b) \in Slots /\ CacheWithout(i, entries) \in Entries
    BY <1>1, <2>2, SlotInRange, CacheWithoutType
  <2>4. b = a => TargetsWith(i)[a] # NoFn /\ TargetsWith(i)[a] # Interp
    BY <1>1, <2>1, <2>2, ActivationType, SentinelAssumption
  <2>5. CacheWithout(i, entries)[Slot(b)].requested # b
    BY <1>1, <2>2, <2>3, SentinelAssumption DEF CacheWithout, EmptyEntry
  <2>6. QED
    BY <1>1, <2>1, <2>2, <2>3, <2>4, <2>5 DEF Entries
<1>2. TypeOK /\ [Next]_vars
        => [\A a \in Addr : targets[a] = NoFn /\ targets'[a] # NoFn
              => cache'[Slot(a)].requested # a \/ cache'[Slot(a)].fn # Interp]_vars
  <2> SUFFICES ASSUME TypeOK, [Next]_vars PROVE Yields
    OBVIOUS
  <2>1. ASSUME NEW a \in Calls, CallRecompiled(a) PROVE Yields
    BY <1>1, <2>1, InputAssumption, CallDispatches
  <2>2. (\E a \in Calls : CallRecompiled(a)) \/ UNCHANGED targets
    BY DEF Next, InlineFastCall, Return, GuestWrite, ObserveGame, vars, tables
  <2>3. QED
    BY <2>1, <2>2
<1>3. QED
  BY <1>2, TypeCorrect, PTL DEF Spec, InterpreterYields

(* Re-entering IP.BIN restores it around live copies and forgets the cache.  *)
THEOREM ReentryCorrect == Spec => ReentryKeepsLiveCopies
<1> DEFINE Kept4 ==
        /\ \A b \in Addr : aliases[b] # NoAddr => ram'[b.phys] = ram[b.phys]
        /\ \A p \in Phys : ram'[p] # ram[p] => p \in IpBin /\ ram'[p] = Image[p]
        /\ \A s \in Slots : cache'[s] # EmptyEntry => s = Slot(Callee.requested)
        /\ \A p \in IpBin : (\A sp \in StackCells : PageOf(p) \notin LivePages(sp)) => ram'[p] = Image[p]
<1>1. ASSUME TypeOK, [Next]_vars, Entered, shadow'.latched, ~shadow.latched PROVE Kept4
  <2>1. PICK a \in Calls : CallRecompiled(a) \/ InlineFastCall(a)
    BY <1>1, OnlyCallsEnter
  <2>2. PICK sp \in StackCells : /\ ram' = RestoredRam(sp)
                                 /\ Dispatch(a, RestoredRam(sp), [s \in Slots |-> EmptyEntry])
    BY <1>1, <2>1 DEF CallRecompiled, InlineFastCall
  <2>3. a \in Addr /\ IpBin \subseteq Phys
    BY InputAssumption, ImageAssumption
  <2>4. \A b \in Addr : aliases[b] # NoAddr => ram'[b.phys] = ram[b.phys]
    BY <2>2 DEF RestoredRam, LivePages, Addr
  <2>5. \A p \in Phys : ram'[p] # ram[p] => p \in IpBin /\ ram'[p] = Image[p]
    BY <2>2 DEF RestoredRam
  <2>6. \A p \in IpBin : (\A x \in StackCells : PageOf(p) \notin LivePages(x)) => ram'[p] = Image[p]
    BY <2>2, <2>3 DEF RestoredRam
  <2>7. Callee.requested = a
    <3>1. PICK e \in FullEntry : e.requested = a /\ Enters(e)
      BY <1>1, <2>1, <2>3, CallEnters
    <3>2. \E path : Callee = Activation(e, path)
      BY <1>1, <3>1, EnteringAppends DEF Callee
    <3>3. QED
      BY <3>1, <3>2 DEF Activation
  <2>8. ASSUME NEW s \in Slots, s # Slot(a) PROVE cache'[s] = EmptyEntry
    <3>0. PICK empty : empty = [x \in Slots |-> EmptyEntry]
      OBVIOUS
    <3>1. PICK over : Miss(a, RestoredRam(sp), empty, over)
      BY <2>2, <2>3, <3>0, SlotInRange DEF Dispatch, Hits, EmptyEntry
    <3>2. \/ \E f : cache' = [empty EXCEPT ![Slot(a)] = f]
          \/ \E i \in pending : \E f : cache' = [CacheWithout(i, empty) EXCEPT ![Slot(a)] = f]
      BY <3>1, Zenon DEF Miss, Activatable
    <3>3. QED
      BY <2>8, <3>0, <3>2 DEF CacheWithout
  <2>9. QED
    BY <2>4, <2>5, <2>6, <2>7, <2>8
<1>2. TypeOK /\ [Next]_vars => [Reentry => Kept4]_vars
  BY <1>1 DEF Reentry
<1>3. QED
  BY <1>2, TypeCorrect, PTL DEF Spec, ReentryKeepsLiveCopies
=============================================================================
