---------------------------- MODULE TextureProofs ----------------------------
(***************************************************************************)
(* Proofs about the ownership of texture pixels, for every VRAM, set of    *)
(* textures, cache geometry, hash, render targets and guest program.       *)
(*                                                                         *)
(* The invariants come in layers, each proved with the ones before it:     *)
(* types, the page table, the render targets, the freshness of entries,    *)
(* the state that may be reused, the raw snapshots, and what every state   *)
(* of the frame can still show.  CacheSteps sorts the actions by what they *)
(* do to the decoded-texture cache.                                        *)
(***************************************************************************)
EXTENDS TextureCache, TLAPS, WellFoundedInduction

-----------------------------------------------------------------------------
(* Slots *)

(* Every set of naturals has a least element *)
LEMMA LeastNatural ==
  ASSUME NEW S, S \subseteq Nat, S # {}
  PROVE  \E x \in S : \A y \in S : x <= y
<1> DEFINE R == {ss \in Nat \X Nat : ss[1] < ss[2]}
<1>1. IsWellFoundedOn(R, Nat)
  BY NatLessThanWellFounded DEF OpToRel
<1> HIDE DEF R
<1>2. PICK x \in S : \A y \in S : ~ (<<y, x>> \in R)
  BY <1>1, WFMin
<1>3. ASSUME NEW y \in S PROVE x <= y
  <2>1. ~(y < x)
    BY <1>2, Zenon DEF R
  <2> QED
    BY <2>1, SMT
<1> QED
  BY <1>3, Zenon

LEMMA FirstOfIn ==
  ASSUME NEW s, NEW ks \in SUBSET SlotsOf(s), ks # {}
  PROVE  FirstOf(ks) \in ks
<1> DEFINE W == {k[2] : k \in ks}
<1>1. W \subseteq Nat /\ W # {}
  BY TextureAssumption, SMT DEF SlotsOf
<1>2. PICK w \in W : \A v \in W : w <= v
  BY <1>1, LeastNatural
<1>3. PICK k \in ks : k[2] = w
  BY Zenon
<1>4. \A j \in ks : k[2] <= j[2]
  BY <1>2, <1>3
<1> HIDE DEF W
<1> QED
  BY <1>4, Zenon DEF FirstOf

LEMMA SlotsOfSet ==
  ASSUME NEW id \in Identities
  PROVE  SetOf[id] \in Sets /\ SlotsOf(SetOf[id]) \subseteq Slots /\ \A k \in SlotsOf(SetOf[id]) : k[1] = SetOf[id]
BY TextureAssumption DEF SlotsOf, Slots

(* pvr_prepare_texture_cache either finds the texture clean, or decodes it   *)
(* into a slot of its set, which is the slot that has it if there is one    *)
LEMMA PreparedCases ==
  ASSUME cache \in Caches, NEW id \in Identities
  PROVE  \/ \E k \in Matching(id) : ~Dirty(k) /\ Prepared(id) = [cache EXCEPT !.active = k]
         \/ \E k \in SlotsOf(SetOf[id]) :
              (Matching(id) # {} => k \in Matching(id)) /\ Prepared(id) = Refilled(id, k)
<1>1. Matching(id) \in SUBSET SlotsOf(SetOf[id]) /\ Free(SetOf[id]) \in SUBSET SlotsOf(SetOf[id])
  BY DEF Matching, Free
<1>2. CASE Matching(id) # {}
  <2>1. FirstOf(Matching(id)) \in Matching(id)
    BY <1>1, <1>2, FirstOfIn
  <2>2. Victim(id) = FirstOf(Matching(id))
    BY <1>2 DEF Victim
  <2> QED
    BY <1>1, <1>2, <2>1, <2>2 DEF Prepared
<1>3. CASE Matching(id) = {} /\ Free(SetOf[id]) # {}
  <2>1. FirstOf(Free(SetOf[id])) \in Free(SetOf[id])
    BY <1>1, <1>3, FirstOfIn
  <2>2. Victim(id) = FirstOf(Free(SetOf[id]))
    BY <1>3 DEF Victim, Evicts
  <2> QED
    BY <1>1, <1>3, <2>1, <2>2 DEF Prepared
<1>4. CASE Matching(id) = {} /\ Free(SetOf[id]) = {}
  <2>1. Victim(id) = <<SetOf[id], cache.nextWay[SetOf[id]]>>
    BY <1>4 DEF Victim, Evicts
  <2>2. cache.nextWay[SetOf[id]] \in 0 .. WayCount - 1
    BY SlotsOfSet DEF Caches
  <2>3. Victim(id) \in SlotsOf(SetOf[id])
    BY <2>1, <2>2 DEF SlotsOf
  <2> QED
    BY <1>4, <2>3 DEF Prepared
<1> QED
  BY <1>2, <1>3, <1>4

-----------------------------------------------------------------------------
(* Types *)

LEMMA AreaIn ==
  ASSUME NEW id, id \in Identities \/ id \in RawKeys
  PROVE  Area(id) \subseteq Pages
BY TextureAssumption DEF Area, Identities, RawKeys

LEMMA IdentityTyped ==
  ASSUME TypeOK, NEW t \in Textures
  PROVE  Identity(t) \in Identities /\ Identity(t).tex = t /\ RawKey(t) \in RawKeys
<1>1. regs.stride \in Strides /\ regs.format \in Formats
  BY DEF TypeOK
<1> QED
  BY <1>1, TextureAssumption DEF Identity, RawKey, Identities, RawKeys

LEMMA ImageTyped ==
  ASSUME regs.palette \in Values, NEW id \in Identities, NEW mem \in [Pages -> Values]
  PROVE  Image(id, mem) \in Images /\ Image(id, mem) # Nothing /\ Image(id, mem).id = id
<1>1. [p \in Area(id) |-> mem[p]] \in Texels
  BY AreaIn DEF Texels
<1>2. Image(id, mem) \in Images
  BY <1>1, TextureAssumption DEF Image, Images
<1> QED
  BY <1>2, TextureAssumption DEF Image

LEMMA RefilledTyped ==
  ASSUME TypeOK, NEW id \in Identities, NEW k \in Slots
  PROVE  /\ Refilled(id, k) \in Caches
         /\ Refilled(id, k).active = k /\ Refilled(id, k).entry[k] = Image(id, vram)
         /\ Refilled(id, k).entry[k] # Nothing
<1>1. cache \in Caches /\ vram \in [Pages -> Values] /\ regs.palette \in Values
  BY DEF TypeOK
<1>2. Image(id, vram) \in Images /\ Image(id, vram) # Nothing
  BY <1>1, ImageTyped
<1>3. [cache.entry EXCEPT ![k] = Image(id, vram)] \in [Slots -> Maybe(Images)]
  BY <1>1, <1>2 DEF Caches, Maybe
<1>4. Delisted(k) \in [Pages -> SUBSET Slots]
  BY <1>1 DEF Caches, Delisted
<1>5. Listed(Delisted(k), k, id) \in [Pages -> SUBSET Slots]
  BY <1>4 DEF Listed
<1>6. Advanced(id) \in [Sets -> 0 .. WayCount - 1]
  <2>1. WayCount \in Nat /\ WayCount > 0 /\ SetOf[id] \in Sets
    BY TextureAssumption
  <2>2. \A w \in 0 .. WayCount - 1 : (w + 1) % WayCount \in 0 .. WayCount - 1
    BY <2>1, SMT
  <2>3. cache.nextWay \in [Sets -> 0 .. WayCount - 1]
    BY <1>1 DEF Caches
  <2> QED
    BY <2>1, <2>2, <2>3 DEF Advanced
<1>7. cache.dirty \ {k} \in SUBSET Slots /\ cache.outdated \ {k} \in SUBSET Slots /\ k \in Maybe(Slots)
  BY <1>1 DEF Caches, Maybe
<1>8. cache.entry \in [Slots -> Maybe(Images)]
  BY <1>1 DEF Caches
<1> QED
  BY <1>2, <1>3, <1>5, <1>6, <1>7, <1>8 DEF Refilled, Caches

(* After pvr_prepare_texture_cache the active slot holds a texture *)
LEMMA PreparedTyped ==
  ASSUME TypeOK, NEW id \in Identities
  PROVE  /\ Prepared(id) \in Caches /\ Prepared(id).active \in Slots
         /\ Prepared(id).entry[Prepared(id).active] \in Images
         /\ Prepared(id).entry[Prepared(id).active] # Nothing
<1>1. cache \in Caches
  BY DEF TypeOK
<1>2. CASE \E k \in Matching(id) : ~Dirty(k) /\ Prepared(id) = [cache EXCEPT !.active = k]
  <2>1. PICK k \in Matching(id) : Prepared(id) = [cache EXCEPT !.active = k]
    BY <1>2
  <2>2. k \in Slots /\ cache.entry[k] # Nothing
    BY SlotsOfSet DEF Matching
  <2> QED
    BY <1>1, <2>1, <2>2 DEF Caches, Maybe
<1>3. CASE \E k \in SlotsOf(SetOf[id]) : Prepared(id) = Refilled(id, k)
  <2>1. PICK k \in Slots : Prepared(id) = Refilled(id, k)
    BY <1>3, SlotsOfSet
  <2>2. Image(id, vram) \in Images
    BY ImageTyped DEF TypeOK
  <2> QED
    BY <2>1, <2>2, RefilledTyped
<1> QED
  BY <1>1, <1>2, <1>3, PreparedCases

LEMMA TargetsTyped ==
  ASSUME TypeOK
  PROVE  /\ \A g \in Targets : rtt[g] # Nothing => rtt[g] \in Pictures
         /\ Live \in [Pages -> Values]
         /\ \A done \in SUBSET Ahead : ReadInto(done) \in [Pages -> Values]
                                       /\ Synced(done) \in [Targets -> Maybe(Pictures)]
         /\ \A read : Readbacks(read) \subseteq SUBSET Ahead
<1>1. \A g \in Targets : rtt[g] # Nothing => rtt[g] \in Pictures
  BY DEF TypeOK, Maybe
<1>2. \A g \in Ahead : g \in Targets /\ rtt[g].value \in Values
  BY <1>1 DEF Ahead, Pictures
<1>3. vram \in [Pages -> Values]
  BY DEF TypeOK
<1>4. ASSUME NEW done \in SUBSET Ahead
      PROVE  /\ ReadInto(done) \in [Pages -> Values]
             /\ Synced(done) \in [Targets -> Maybe(Pictures)]
  <2>1. ASSUME NEW p \in Pages, \E g \in done : p \in TargetPages[g]
        PROVE  rtt[CHOOSE g \in done : p \in TargetPages[g]].value \in Values
    <3>1. (CHOOSE g \in done : p \in TargetPages[g]) \in done
      BY <2>1
    <3> QED
      BY <1>2, <3>1
  <2>2. ReadInto(done) \in [Pages -> Values]
    BY <1>3, <2>1 DEF ReadInto
  <2>3. \A g \in done : [rtt[g] EXCEPT !.synced = TRUE] \in Pictures
    BY <1>1 DEF Ahead, Pictures, Pictures
  <2>4. rtt \in [Targets -> Maybe(Pictures)]
    BY DEF TypeOK
  <2> QED
    BY <2>2, <2>3, <2>4 DEF Synced, Maybe
<1>5. Live \in [Pages -> Values]
  <2>1. Live = ReadInto(Ahead)
    BY DEF Live, ReadInto
  <2> QED
    BY <1>4, <2>1
<1>6. \A read : Readbacks(read) \subseteq SUBSET Ahead
  BY DEF Readbacks
<1> QED
  BY <1>1, <1>4, <1>5, <1>6

LEMMA MemoryTyped ==
  ASSUME TypeOK, NEW written \in SUBSET Pages
  PROVE  /\ Dirtied(written) \in Caches
         /\ Dirtied(written).active = cache.active /\ Dirtied(written).entry = cache.entry
         /\ Kept(written) \in [Targets -> Maybe(Pictures)]
         /\ \A snapshots \in [RawKeys -> Maybe(Snapshots)] :
              /\ Unwritten(snapshots, written) \in [RawKeys -> Maybe(Snapshots)]
              /\ Owned(snapshots) \in [RawKeys -> Maybe(Snapshots)]
<1>1. cache \in Caches /\ rtt \in [Targets -> Maybe(Pictures)]
  BY DEF TypeOK
<1>2. UNION {cache.members[p] : p \in written} \subseteq Slots
  BY <1>1 DEF Caches
<1>3. cache.dirty \cup UNION {cache.members[p] : p \in written} \in SUBSET Slots
  BY <1>1, <1>2 DEF Caches
<1>4. Dirtied(written) \in Caches /\ Dirtied(written).active = cache.active /\ Dirtied(written).entry = cache.entry
  <2> DEFINE d == cache.dirty \cup UNION {cache.members[p] : p \in written}
  <2>1. Dirtied(written) = [cache EXCEPT !.dirty = d]
    BY <1>1 DEF Dirtied, Caches
  <2> HIDE DEF d
  <2>2. d \in SUBSET Slots
    BY <1>3 DEF d
  <2> QED
    BY <1>1, <2>1, <2>2 DEF Caches
<1>5. Kept(written) \in [Targets -> Maybe(Pictures)]
  BY <1>1 DEF Kept, Maybe
<1>6. ASSUME NEW snapshots \in [RawKeys -> Maybe(Snapshots)]
      PROVE  /\ Unwritten(snapshots, written) \in [RawKeys -> Maybe(Snapshots)]
             /\ Owned(snapshots) \in [RawKeys -> Maybe(Snapshots)]
  BY DEF Unwritten, Owned, Maybe
<1> QED
  BY <1>4, <1>5, <1>6

(* The snapshot of a state that a capture can still find has not been dropped *)
KeysHeld == \A i \in DOMAIN states : states[i].key # Nothing => raw[states[i].key] # Nothing
TypeInv == TypeOK /\ KeysHeld

LEMMA DecodedTyped ==
  ASSUME TypeInv, NEW keys \in SUBSET HeldKeys
  PROVE  Decoded(keys) \in [RawKeys -> Maybe(Snapshots)]
<1>1. raw \in [RawKeys -> Maybe(Snapshots)]
  BY DEF TypeInv, TypeOK
<1>2. \A k \in RawKeys : Identity(k.tex).stride \in Strides
  BY IdentityTyped DEF TypeInv, RawKeys, Identities
<1>3. \A k \in keys : k \in RawKeys /\ raw[k] # Nothing
  BY TextureAssumption DEF TypeInv, KeysHeld, HeldKeys, Held
<1>4. \A k \in keys : raw[k] \in Snapshots
  BY <1>1, <1>3 DEF Maybe
<1>5. \A k \in keys : [raw[k] EXCEPT !.decoded = Identity(k.tex).stride] \in Snapshots
  BY <1>2, <1>3, <1>4 DEF Maybe, Snapshots
<1> QED
  BY <1>1, <1>3, <1>5 DEF Decoded, Maybe

LEMMA StatesTyped ==
  ASSUME TypeOK
  PROVE  /\ \A i \in DOMAIN states : states[i] \in DeferredStates
         /\ DOMAIN states = 1 .. Len(states) /\ Len(states) \in Nat
         /\ \A written : Orphaned(written) \in Seq(DeferredStates) /\ Len(Orphaned(written)) = Len(states)
         /\ \A i \in DOMAIN states, image \in Maybe(Images) :
              LET new == [states EXCEPT ![i].pixels = image]
              IN  new \in Seq(DeferredStates) /\ Len(new) = Len(states)
         /\ \A state \in DeferredStates :
              Append(states, state) \in Seq(DeferredStates) /\ Len(Append(states, state)) = Len(states) + 1
<1>1. states \in Seq(DeferredStates)
  BY DEF TypeOK
<1>2. DOMAIN states = 1 .. Len(states) /\ Len(states) \in Nat /\ \A i \in DOMAIN states : states[i] \in DeferredStates
  BY <1>1
<1>3. ASSUME NEW written
      PROVE  Orphaned(written) \in Seq(DeferredStates) /\ Len(Orphaned(written)) = Len(states)
  <2>1. \A i \in DOMAIN states : [states[i] EXCEPT !.key = Nothing] \in DeferredStates
    BY <1>2 DEF DeferredStates, Maybe
  <2>2. Orphaned(written) \in [1 .. Len(states) -> DeferredStates]
    BY <1>2, <2>1 DEF Orphaned
  <2> QED
    BY <1>2, <2>2
<1>4. ASSUME NEW i \in DOMAIN states, NEW image \in Maybe(Images)
      PROVE  /\ [states EXCEPT ![i].pixels = image] \in Seq(DeferredStates)
             /\ Len([states EXCEPT ![i].pixels = image]) = Len(states)
  <2>1. [states[i] EXCEPT !.pixels = image] \in DeferredStates
    BY <1>2 DEF DeferredStates
  <2>2. [states EXCEPT ![i].pixels = image] \in [1 .. Len(states) -> DeferredStates]
    BY <1>1, <1>2, <2>1
  <2> QED
    BY <1>2, <2>2
<1>5. ASSUME NEW state \in DeferredStates
      PROVE  Append(states, state) \in Seq(DeferredStates) /\ Len(Append(states, state)) = Len(states) + 1
  BY <1>1
<1> QED
  BY <1>2, <1>3, <1>4, <1>5

LEMMA BlankTyped ==
  ASSUME TypeOK, surface # Nothing
  PROVE  Blank \in DeferredStates /\ surface.tex \in Textures /\ Identity(surface.tex) \in Identities
<1>1. surface.tex \in Textures
  BY DEF TypeOK, Maybe
<1>2. Identity(surface.tex) \in Identities
  BY <1>1, IdentityTyped
<1>3. Image(Identity(surface.tex), Live) \in Images
  <2>1. regs.palette \in Values
    BY DEF TypeOK
  <2> QED
    BY <1>2, <2>1, ImageTyped, TargetsTyped
<1> QED
  BY <1>1, <1>2, <1>3 DEF Blank, DeferredStates, Maybe

(* Appending a state of the right type and caching its index *)
LEMMA CaptureTyped ==
  ASSUME TypeOK, NEW state \in DeferredStates, Capture(state)
  PROVE  /\ states' \in Seq(DeferredStates) /\ Len(states') <= setup'.surfaces /\ cached' \in 0 .. Len(states')
         /\ left' \subseteq DOMAIN states'
         /\ setup' \in Setups /\ regs' = regs /\ surface' = surface /\ phase' = phase
<1>1. states' = Append(states, state) /\ cached' = Len(states) + 1 /\ left' = left /\ setup' = setup /\ Len(states) < setup.surfaces
  BY DEF Capture, submission
<1>2. Len(states) \in Nat /\ states' \in Seq(DeferredStates) /\ Len(states') = Len(states) + 1
  BY <1>1, StatesTyped
<1>3. DOMAIN states = 1 .. Len(states) /\ DOMAIN states' = 1 .. Len(states')
  BY <1>2, StatesTyped
<1>4. left \subseteq DOMAIN states /\ setup \in Setups /\ setup.surfaces \in Nat
  BY TextureAssumption DEF TypeOK, Configurations
<1> QED
  BY <1>1, <1>2, <1>3, <1>4 DEF Capture, submission

(* Emptying the scene *)
LEMMA EndSceneTyped ==
  ASSUME TypeOK, EndScene
  PROVE  /\ states' \in Seq(DeferredStates) /\ Len(states') <= setup'.surfaces /\ cached' \in 0 .. Len(states')
         /\ left' \subseteq DOMAIN states' /\ geometry' \in BOOLEAN /\ phase' \in {"guest", "software"}
         /\ setup' \in Setups /\ regs' = regs /\ surface' = Nothing
<1>1. setup \in Setups /\ setup.surfaces \in Nat
  BY TextureAssumption DEF TypeOK, Configurations
<1>2. << >> \in Seq(DeferredStates) /\ Len(<< >>) = 0
  OBVIOUS
<1>3. 0 \in 0 .. 0 /\ 0 <= setup.surfaces
  BY <1>1
<1> QED
  BY <1>1, <1>2, <1>3 DEF EndScene

(* The parts of TypeOK that no action touches by hand *)
Unsurfaced ==
  /\ setup \in Setups /\ vram \in [Pages -> Values]
  /\ regs \in [palette : Values, format : Formats, stride : Strides]
  /\ rtt \in [Targets -> Maybe(Pictures)]
  /\ raw \in [RawKeys -> Maybe(Snapshots)]
CacheTyped == cache \in Caches /\ (cache.active # Nothing => cache.entry[cache.active] # Nothing)
SceneTyped ==
  /\ surface \in Maybe([tex : Textures, translucent : BOOLEAN])
  /\ states \in Seq(DeferredStates)
  /\ Len(states) <= setup.surfaces /\ cached \in 0 .. Len(states)
  /\ geometry \in BOOLEAN /\ phase \in {"guest", "software"} /\ left \subseteq DOMAIN states

LEMMA TypeParts == TypeOK <=> Unsurfaced /\ CacheTyped /\ SceneTyped
BY DEF TypeOK, Unsurfaced, CacheTyped, SceneTyped

LEMMA InitTyped == Init => TypeInv
<1> SUFFICES ASSUME Init PROVE TypeInv
  OBVIOUS
<1>1. setup \in Setups /\ setup.surfaces \in Nat
  BY TextureAssumption DEF Init, Configurations
<1>2. << >> \in Seq(DeferredStates) /\ Len(<< >>) = 0 /\ DOMAIN << >> = {}
  OBVIOUS
<1>3. Unsurfaced
  BY <1>1, TextureAssumption DEF Init, Unsurfaced, Maybe
<1>4. CacheTyped
  <2>1. 0 \in 0 .. WayCount - 1
    BY TextureAssumption
  <2>2. [k \in Slots |-> Nothing] \in [Slots -> Maybe(Images)] /\ [p \in Pages |-> {}] \in [Pages -> SUBSET Slots]
    BY DEF Maybe
  <2> QED
    BY <2>1, <2>2 DEF Init, CacheTyped, Caches, Maybe
<1>5. SceneTyped
  <2>1. 0 \in 0 .. 0 /\ 0 <= setup.surfaces
    BY <1>1
  <2> QED
    BY <1>2, <2>1, Zenon DEF Init, SceneTyped, Maybe
<1>6. KeysHeld
  BY <1>2, Zenon DEF KeysHeld, Init
<1> QED
  BY <1>3, <1>4, <1>5, <1>6, TypeParts DEF TypeInv

LEMMA GuestTyped == TypeInv /\ Guest => TypeInv'
<1> SUFFICES ASSUME TypeInv, Guest PROVE TypeInv'
  OBVIOUS
<1> USE DEF TypeInv
<1>1. ASSUME NEW p \in Pages, NEW v \in Values, GuestWrite(p, v) PROVE TypeInv'
  <2>1. {p} \in SUBSET Pages
    OBVIOUS
  <2>2. cache' \in Caches /\ cache'.active = cache.active /\ cache'.entry = cache.entry
    BY <1>1, <2>1, MemoryTyped DEF GuestWrite
  <2>3. CacheTyped'
    BY <2>2 DEF CacheTyped, TypeOK
  <2>4. rtt' \in [Targets -> Maybe(Pictures)]
    BY <1>1, <2>1, MemoryTyped DEF GuestWrite
  <2>5. raw' \in [RawKeys -> Maybe(Snapshots)]
    BY <1>1, <2>1, MemoryTyped DEF GuestWrite, TypeOK
  <2>6. Unsurfaced'
    BY <1>1, <2>4, <2>5 DEF GuestWrite, Unsurfaced, TypeOK
  <2>7. states' \in Seq(DeferredStates) /\ Len(states') = Len(states) /\ DOMAIN states' = DOMAIN states
    BY <1>1, StatesTyped DEF GuestWrite, Orphaned
  <2>8. SceneTyped'
    <3>1. cached' \in 0 .. Len(states')
      <4>1. cached' = 0 \/ cached' = cached
        BY <1>1, Zenon DEF GuestWrite
      <4>2. cached \in 0 .. Len(states) /\ Len(states) \in Nat
        BY StatesTyped DEF TypeOK
      <4> QED
        BY <2>7, <4>1, <4>2
    <3> QED
      BY <1>1, <2>7, <3>1, Zenon DEF GuestWrite, SceneTyped, TypeOK, submission
  <2>9. KeysHeld'
    <3> SUFFICES ASSUME NEW i \in DOMAIN states', states'[i].key # Nothing PROVE raw'[states'[i].key] # Nothing
      BY DEF KeysHeld
    <3> i \in DOMAIN states
      BY <2>7
    <3>1. states'[i] = Orphaned({p})[i]
      BY <1>1 DEF GuestWrite
    <3>2. states[i] \in DeferredStates
      BY StatesTyped
    <3>3. states'[i] = states[i] /\ Area(states[i].key) \cap {p} = {} /\ states[i].key # Nothing
      BY <3>1, <3>2 DEF Orphaned, DeferredStates
    <3>4. states[i].key \in RawKeys
      BY <3>2, <3>3 DEF DeferredStates, Maybe
    <3> QED
      BY <1>1, <3>3, <3>4 DEF GuestWrite, Unwritten, KeysHeld
  <2> QED
    BY <2>3, <2>6, <2>8, <2>9, TypeParts DEF TypeOK, Unsurfaced, CacheTyped, SceneTyped
<1>2. ASSUME NEW p \in Pages, GuestRead(p) PROVE TypeInv'
  <2>1. PICK done \in Readbacks({p}) : vram' = ReadInto(done) /\ rtt' = Synced(done)
    BY <1>2 DEF GuestRead
  <2>2. vram' \in [Pages -> Values] /\ rtt' \in [Targets -> Maybe(Pictures)]
    BY <2>1, TargetsTyped
  <2> QED
    BY <1>2, <2>2 DEF GuestRead, TypeOK, KeysHeld, scene, submission
<1>3. ASSUME NEW field \in {"palette", "format"}, NEW v, v \in IF field = "palette" THEN Values ELSE Formats, NewPalette(field, v) PROVE TypeInv'
  <2>1. regs' \in [palette : Values, format : Formats, stride : Strides]
    BY <1>3 DEF NewPalette, TypeOK
  <2> DEFINE d == {k \in Slots : cache.entry[k] # Nothing /\ cache.entry[k].id.tex \in Paletted}
  <2>2. cache' = [cache EXCEPT !.outdated = d]
    BY <1>3 DEF NewPalette
  <2>3. d \in SUBSET Slots
    OBVIOUS
  <2> HIDE DEF d
  <2>4. cache' \in Caches /\ cache'.active = cache.active /\ cache'.entry = cache.entry
    BY <2>2, <2>3 DEF Caches, TypeOK
  <2>5. CacheTyped'
    BY <2>4 DEF CacheTyped, TypeOK
  <2>6. Unsurfaced'
    BY <1>3, <2>1 DEF NewPalette, Unsurfaced, TypeOK, memory
  <2>7. SceneTyped'
    BY <1>3, StatesTyped DEF NewPalette, SceneTyped, TypeOK, submission
  <2>8. KeysHeld'
    BY <1>3 DEF NewPalette, KeysHeld, memory
  <2> QED
    BY <2>5, <2>6, <2>7, <2>8 DEF TypeOK, Unsurfaced, CacheTyped, SceneTyped
<1>4. ASSUME NEW s \in Strides, StrideWrite(s) PROVE TypeInv'
  <2>1. regs' \in [palette : Values, format : Formats, stride : Strides]
    BY <1>4 DEF StrideWrite, TypeOK
  <2>2. 0 \in 0 .. Len(states)
    BY StatesTyped
  <2> QED
    BY <1>4, <2>1, <2>2 DEF StrideWrite, TypeOK, KeysHeld, memory, submission
<1>5. setup.palettes \subseteq Values /\ setup.strides \subseteq Strides
  BY TextureAssumption DEF TypeOK, Configurations
<1> QED
  BY <1>1, <1>2, <1>3, <1>4, <1>5 DEF Guest, PaletteWrite, FormatWrite

LEMMA CacheKept ==
  ASSUME TypeOK, NEW id \in Identities, cache' = Prepared(id)
  PROVE  CacheTyped' /\ cache'.entry[cache'.active] \in Images
BY PreparedTyped DEF CacheTyped

LEMMA RegisterTyped == TypeInv /\ Register => TypeInv'
<1> SUFFICES ASSUME TypeInv, Register PROVE TypeInv'
  OBVIOUS
<1> USE DEF TypeInv
<1>a. 0 \in 0 .. Len(states)
  BY StatesTyped
<1>1. ASSUME NEW t \in setup.textures, NEW translucent \in BOOLEAN, Header(t, translucent) PROVE TypeInv'
  <2>1. t \in Textures
    BY TextureAssumption DEF TypeOK, Configurations
  <2> QED
    BY <1>a, <1>1, <2>1 DEF Header, TypeOK, KeysHeld, memory, submission, Maybe
<1>2. CASE ListCont
  BY <1>a, <1>2 DEF ListCont, TypeOK, KeysHeld, memory, submission, Maybe
<1>3. CASE DrawNow
  <2>1. CacheTyped'
    BY <1>3, CacheKept, BlankTyped DEF DrawNow, Strip
  <2>2. Unsurfaced' /\ SceneTyped' /\ KeysHeld'
    BY <1>3 DEF DrawNow, Strip, Unsurfaced, SceneTyped, TypeOK, KeysHeld, memory, submission
  <2> QED
    BY <2>1, <2>2 DEF TypeOK, Unsurfaced, CacheTyped, SceneTyped
<1>4. CASE Reuse
  BY <1>4 DEF Reuse, Deferring, Strip, TypeOK, KeysHeld, memory, submission
<1>5. ASSUME NEW state \in DeferredStates, Capture(state), geometry' = TRUE, Unsurfaced', CacheTyped',
             \A k \in RawKeys : raw[k] # Nothing => raw'[k] # Nothing, state.key # Nothing => raw'[state.key] # Nothing
      PROVE  TypeInv'
  <2>1. SceneTyped'
    BY <1>5, CaptureTyped DEF SceneTyped, TypeOK
  <2>2. KeysHeld'
    <3>1. states' = Append(states, state) /\ states \in Seq(DeferredStates)
      BY <1>5 DEF Capture, TypeOK
    <3>2. \A i \in DOMAIN states' : (i \in DOMAIN states /\ states'[i] = states[i]) \/ states'[i] = state
      BY <3>1
    <3>3. \A i \in DOMAIN states : states[i] \in DeferredStates
      BY StatesTyped
    <3> QED
      BY <1>5, <3>2, <3>3 DEF KeysHeld, DeferredStates, Maybe
  <2> QED
    BY <1>5, <2>1, <2>2 DEF TypeOK, Unsurfaced, CacheTyped, SceneTyped
<1>6. ASSUME Deferring, Capture(Blank), Unsurfaced', cache' = cache, raw' = raw PROVE TypeInv'
  <2>1. Blank \in DeferredStates /\ Blank.key = Nothing
    BY <1>6, BlankTyped DEF Deferring, Strip, Blank
  <2>2. CacheTyped'
    BY <1>6 DEF CacheTyped, TypeOK
  <2> QED
    BY <1>5, <1>6, <2>1, <2>2 DEF Deferring, Strip
<1>7. ASSUME NEW state, Capture(state), UNCHANGED memory PROVE Unsurfaced'
  BY <1>7 DEF Capture, memory, Unsurfaced, TypeOK
<1>8. CASE CaptureNothing
  BY <1>6, <1>7, <1>8 DEF CaptureNothing, memory
<1>9. CASE CaptureDirect
  BY <1>6, <1>7, <1>9 DEF CaptureDirect, memory
<1>10. CASE CapturePixels
  <2>1. CacheTyped' /\ cache'.entry[cache'.active] \in Images
    BY <1>10, CacheKept, BlankTyped DEF CapturePixels, Deferring, Strip
  <2> DEFINE state == [Blank EXCEPT !.pixels = cache'.entry[cache'.active]]
  <2>2. Blank \in DeferredStates
    BY <1>10, BlankTyped DEF CapturePixels, Deferring, Strip
  <2>3. state \in DeferredStates /\ state.key = Nothing
    BY <2>1, <2>2 DEF DeferredStates, Maybe, Blank
  <2>4. Capture(state)
    BY <1>10 DEF CapturePixels
  <2>5. Unsurfaced' /\ raw' = raw /\ geometry' = TRUE
    BY <1>7, <1>10 DEF CapturePixels, Deferring, Strip, memory
  <2> HIDE DEF state
  <2> QED
    BY <1>5, <2>1, <2>3, <2>4, <2>5
<1>11. ASSUME NEW k \in RawKeys, NEW gone \in BOOLEAN, CaptureRaw(k, gone) PROVE TypeInv'
  <2>1. PICK done \in Readbacks(Area(k)) : vram' = ReadInto(done) /\ rtt' = Synced(done)
    BY <1>11 DEF CaptureRaw
  <2>2. vram' \in [Pages -> Values] /\ rtt' \in [Targets -> Maybe(Pictures)]
    BY <2>1, TargetsTyped
  <2> DEFINE snapshot == [texels |-> [p \in Area(k) |-> vram'[p]], decoded |-> Nothing]
  <2>3. snapshot \in Snapshots
    BY <2>2, AreaIn DEF Texels, Maybe, Snapshots
  <2>4. raw' = raw \/ raw' = [raw EXCEPT ![k] = snapshot]
    BY <1>11 DEF CaptureRaw
  <2>5. raw \in [RawKeys -> Maybe(Snapshots)] /\ snapshot # Nothing
    BY <2>3, TextureAssumption DEF TypeOK
  <2>6. raw[k] # Nothing \/ raw' = [raw EXCEPT ![k] = snapshot]
    BY <1>11 DEF CaptureRaw
  <2> HIDE DEF snapshot
  <2>7. raw' \in [RawKeys -> Maybe(Snapshots)] /\ raw'[k] # Nothing /\ \A j \in RawKeys : raw[j] # Nothing => raw'[j] # Nothing
    BY <2>3, <2>4, <2>5, <2>6 DEF Maybe
  <2>8. raw'[k] \in Snapshots
    BY <2>7 DEF Maybe
  <2> DEFINE state == [Blank EXCEPT !.key = k, !.decoded = raw'[k].decoded, !.ok = surface.tex \in Supported,
                         !.copy = [Image(Identity(surface.tex), vram) EXCEPT !.texels = raw'[k].texels]]
  <2>9. state \in DeferredStates /\ state.key = k
    <3>1. Image(Identity(surface.tex), vram) \in Images
      <4>1. vram \in [Pages -> Values] /\ regs.palette \in Values
        BY DEF TypeOK
      <4> QED
        BY <1>11, <4>1, ImageTyped, BlankTyped DEF CaptureRaw, Deferring, Strip
    <3>2. raw'[k].texels \in Texels /\ raw'[k].decoded \in Maybe(Strides)
      BY <2>8 DEF Snapshots
    <3>3. [Image(Identity(surface.tex), vram) EXCEPT !.texels = raw'[k].texels] \in Maybe(Images)
      BY <3>1, <3>2 DEF Images, Maybe
    <3>4. Blank \in DeferredStates
      BY <1>11, BlankTyped DEF CaptureRaw, Deferring, Strip
    <3>5. k \in Maybe(RawKeys) /\ (surface.tex \in Supported) \in BOOLEAN
      BY DEF Maybe
    <3> QED
      BY <3>2, <3>3, <3>4, <3>5 DEF DeferredStates
  <2>10. Capture(state) /\ cache' = cache /\ geometry' = TRUE
    BY <1>11 DEF CaptureRaw, Deferring, Strip
  <2> HIDE DEF state
  <2>11. Unsurfaced'
    BY <2>2, <2>7, <2>10 DEF Capture, Unsurfaced, TypeOK
  <2>12. CacheTyped'
    BY <2>10 DEF CacheTyped, TypeOK
  <2> QED
    BY <1>5, <2>7, <2>9, <2>10, <2>11, <2>12
<1> QED
  BY <1>1, <1>2, <1>3, <1>4, <1>8, <1>9, <1>10, <1>11 DEF Register

LEMMA FinishTyped == TypeInv /\ Finish => TypeInv'
<1> SUFFICES ASSUME TypeInv, Finish PROVE TypeInv'
  OBVIOUS
<1> USE DEF TypeInv
<1>1. ASSUME EndScene, Unsurfaced', CacheTyped' PROVE TypeInv'
  <2>1. SceneTyped'
    BY <1>1, EndSceneTyped DEF SceneTyped, Maybe
  <2>2. states' = << >>
    BY <1>1 DEF EndScene
  <2>3. KeysHeld'
    BY <2>2 DEF KeysHeld
  <2> QED
    BY <1>1, <2>1, <2>3 DEF TypeOK, Unsurfaced, CacheTyped, SceneTyped
<1>2. \A dst \in Targets : TargetPages[dst] \in SUBSET Pages
  BY TextureAssumption
<1>3. ASSUME NEW dst \in Targets \cup {Display}, NEW v \in Values, DrawGpu(dst, v) PROVE TypeInv'
  <2>1. HeldKeys \in SUBSET HeldKeys
    OBVIOUS
  <2>2. Decoded(HeldKeys) \in [RawKeys -> Maybe(Snapshots)]
    BY <2>1, DecodedTyped
  <2>3. EndScene /\ vram' = vram
    BY <1>3 DEF DrawGpu
  <2>4. CASE dst = Display
    BY <1>1, <1>3, <2>2, <2>3, <2>4, EndSceneTyped DEF DrawGpu, Unsurfaced, CacheTyped, TypeOK
  <2>5. CASE dst # Display
    <3>1. dst \in Targets /\ TargetPages[dst] \in SUBSET Pages
      BY <1>2, <2>5
    <3>2. Kept(TargetPages[dst]) \in [Targets -> Maybe(Pictures)]
      BY <3>1, MemoryTyped
    <3>3. [value |-> v, synced |-> FALSE] \in Maybe(Pictures)
      BY DEF Maybe, Pictures
    <3>4. rtt' \in [Targets -> Maybe(Pictures)]
      BY <1>3, <2>5, <3>2, <3>3 DEF DrawGpu
    <3>5. raw' \in [RawKeys -> Maybe(Snapshots)]
      BY <1>3, <2>2, <2>5, <3>1, MemoryTyped DEF DrawGpu
    <3>6. cache' \in Caches /\ cache'.active = cache.active /\ cache'.entry = cache.entry
      BY <1>3, <2>5, <3>1, MemoryTyped DEF DrawGpu
    <3>7. CacheTyped'
      BY <3>6 DEF CacheTyped, TypeOK
    <3>8. Unsurfaced'
      BY <2>3, <3>4, <3>5, EndSceneTyped DEF Unsurfaced, TypeOK
    <3> QED
      BY <1>1, <2>3, <3>7, <3>8
  <2> QED
    BY <2>4, <2>5
<1>4. ASSUME NEW done \in SUBSET HeldKeys, StartSoftware(done) PROVE TypeInv'
  <2>1. raw' \in [RawKeys -> Maybe(Snapshots)]
    BY <1>4, DecodedTyped DEF StartSoftware
  <2>2. KeysHeld'
    <3>1. \A k \in RawKeys : raw[k] # Nothing => raw'[k] # Nothing
      <4> SUFFICES ASSUME NEW k \in RawKeys, raw[k] # Nothing PROVE raw'[k] # Nothing
        OBVIOUS
      <4>1. raw[k] \in Snapshots
        BY DEF TypeOK, Maybe
      <4>2. Identity(k.tex).stride \in Strides
        BY IdentityTyped DEF RawKeys, Identities
      <4>3. [raw[k] EXCEPT !.decoded = Identity(k.tex).stride] \in Snapshots
        BY <4>1, <4>2 DEF Snapshots, Maybe
      <4>4. raw'[k] = raw[k] \/ raw'[k] = [raw[k] EXCEPT !.decoded = Identity(k.tex).stride]
        BY <1>4 DEF StartSoftware, Decoded
      <4> QED
        BY <4>3, <4>4, TextureAssumption
    <3>2. \A i \in DOMAIN states : states[i].key \in Maybe(RawKeys)
      BY StatesTyped DEF DeferredStates
    <3> QED
      BY <1>4, <3>1, <3>2 DEF StartSoftware, KeysHeld, scene, Maybe
  <2>3. Unsurfaced' /\ CacheTyped'
    BY <1>4, <2>1 DEF StartSoftware, Unsurfaced, CacheTyped, TypeOK
  <2>4. SceneTyped'
    BY <1>4 DEF StartSoftware, SceneTyped, TypeOK, scene
  <2> QED
    BY <2>2, <2>3, <2>4 DEF TypeOK, Unsurfaced, CacheTyped, SceneTyped
<1>5. ASSUME NEW i \in left \cup DOMAIN states, Look(i) PROVE TypeInv'
  <2>1. i \in DOMAIN states /\ states[i] \in DeferredStates /\ left \subseteq DOMAIN states
    BY StatesTyped DEF TypeOK
  <2>2. states[i].tex \in Textures
    BY <2>1 DEF DeferredStates
  <2>3. CacheTyped' /\ cache'.entry[cache'.active] \in Images
    BY <1>5, <2>2, CacheKept, IdentityTyped DEF Look
  <2>4. states' = states \/ states' = [states EXCEPT ![i].pixels = cache'.entry[cache'.active]]
    BY <1>5 DEF Look
  <2>5. states' \in Seq(DeferredStates) /\ Len(states') = Len(states)
    BY <2>1, <2>3, <2>4, StatesTyped DEF TypeOK, Maybe
  <2>6. DOMAIN states' = DOMAIN states
    BY <2>5, StatesTyped
  <2>7. SceneTyped'
    BY <1>5, <2>1, <2>5, <2>6 DEF Look, SceneTyped, TypeOK
  <2>8. KeysHeld'
    <3>1. \A j \in DOMAIN states : states'[j].key = states[j].key
      BY <2>4, StatesTyped DEF DeferredStates
    <3> QED
      BY <1>5, <2>6, <3>1 DEF Look, KeysHeld, memory
  <2>9. Unsurfaced'
    BY <1>5 DEF Look, Unsurfaced, TypeOK, memory
  <2> QED
    BY <2>3, <2>7, <2>8, <2>9 DEF TypeOK, Unsurfaced, CacheTyped, SceneTyped
<1>6. ASSUME NEW dst \in Targets \cup {Display}, NEW v \in Values, DrawSoftware(dst, v) PROVE TypeInv'
  <2>1. EndScene
    BY <1>6 DEF DrawSoftware
  <2>2. raw \in [RawKeys -> Maybe(Snapshots)] /\ vram \in [Pages -> Values]
    BY DEF TypeOK
  <2>3. CASE dst = Display
    <3>1. raw' \in [RawKeys -> Maybe(Snapshots)]
      BY <1>6, <2>2, <2>3, MemoryTyped DEF DrawSoftware
    <3> QED
      BY <1>1, <1>6, <2>1, <2>3, <3>1, EndSceneTyped DEF DrawSoftware, Unsurfaced, CacheTyped, TypeOK
  <2>4. CASE dst # Display
    <3>1. dst \in Targets /\ TargetPages[dst] \in SUBSET Pages
      BY <1>2, <2>4
    <3>2. rtt' \in [Targets -> Maybe(Pictures)]
      BY <1>6, <2>4, <3>1, MemoryTyped DEF DrawSoftware
    <3>3. raw' \in [RawKeys -> Maybe(Snapshots)]
      BY <1>6, <2>2, <2>4, <3>1, MemoryTyped DEF DrawSoftware
    <3>4. vram' \in [Pages -> Values]
      BY <1>6, <2>2, <2>4 DEF DrawSoftware
    <3>5. cache' \in Caches /\ cache'.active = cache.active /\ cache'.entry = cache.entry
      BY <1>6, <2>4, <3>1, MemoryTyped DEF DrawSoftware
    <3>6. CacheTyped'
      BY <3>5 DEF CacheTyped, TypeOK
    <3>7. Unsurfaced'
      BY <2>1, <3>2, <3>3, <3>4, EndSceneTyped DEF Unsurfaced, TypeOK
    <3> QED
      BY <1>1, <2>1, <3>6, <3>7
  <2> QED
    BY <2>3, <2>4
<1> QED
  BY <1>3, <1>4, <1>5, <1>6 DEF Finish

LEMMA TypeInvariance == Spec => []TypeInv
<1>1. TypeInv /\ [Next]_vars => TypeInv'
  <2> SUFFICES ASSUME TypeInv, [Next]_vars PROVE TypeInv'
    OBVIOUS
  <2>1. CASE Next
    BY <2>1, GuestTyped, RegisterTyped, FinishTyped DEF Next
  <2>2. CASE UNCHANGED vars
    BY <2>2 DEF vars, TypeInv, TypeOK, KeysHeld
  <2> QED
    BY <2>1, <2>2
<1> QED
  BY <1>1, InitTyped, PTL DEF Spec

(* The cached state index that pvr_deferred_state_index hands out unchecked *)
(* is always one of this frame's states, and the active slot that           *)
(* pvr_mark_vram_write tests unchecked always holds a texture.              *)
THEOREM TypeCorrect == Spec => []TypeOK
<1>1. TypeInv => TypeOK
  BY DEF TypeInv
<1> QED
  BY <1>1, TypeInvariance, PTL

-----------------------------------------------------------------------------
(* What a step does to the decoded textures and to the memory under them *)

Prepares == \E id \in Identities : cache' = Prepared(id) /\ vram' = vram /\ regs' = regs
Writes ==
  \E written \in SUBSET Pages :
    /\ cache' = Dirtied(written) /\ regs' = regs
    /\ \A p \in Pages \ written : vram'[p] = vram[p]
Repaints ==
  /\ cache' = [cache EXCEPT !.outdated = {k \in Slots : cache.entry[k] # Nothing /\ cache.entry[k].id.tex \in Paletted}]
  /\ vram' = vram
Spares ==
  /\ cache' = cache /\ regs'.palette = regs.palette
  /\ vram' = vram \/ \E done \in SUBSET Ahead : vram' = ReadInto(done)

LEMMA CacheSteps ==
  ASSUME TypeOK, [Next]_vars
  PROVE  Prepares \/ Writes \/ Repaints \/ Spares
<1>a. vram \in [Pages -> Values] /\ regs \in [palette : Values, format : Formats, stride : Strides]
  BY DEF TypeOK
<1>1. ASSUME NEW p \in Pages, NEW v \in Values, GuestWrite(p, v) PROVE Writes
  <2>1. {p} \in SUBSET Pages /\ cache' = Dirtied({p}) /\ regs' = regs /\ vram' = [vram EXCEPT ![p] = v]
    BY <1>1 DEF GuestWrite
  <2> QED
    BY <1>a, <2>1 DEF Writes
<1>2. ASSUME NEW p \in Pages, GuestRead(p) PROVE Spares
  BY <1>2, TargetsTyped DEF GuestRead, Spares
<1>3. ASSUME NEW field, NEW v, NewPalette(field, v) PROVE Repaints
  BY <1>3 DEF NewPalette, Repaints, memory
<1>4. ASSUME NEW s \in Strides, StrideWrite(s) PROVE Spares
  BY <1>a, <1>4 DEF StrideWrite, Spares, memory
<1>5. ASSUME NEW t, NEW translucent, Header(t, translucent) PROVE Spares
  BY <1>5 DEF Header, Spares, memory
<1>6. CASE ListCont
  BY <1>6 DEF ListCont, Spares, memory
<1>7. CASE DrawNow
  <2>1. Identity(surface.tex) \in Identities
    BY <1>7, BlankTyped DEF DrawNow, Strip
  <2> QED
    BY <1>7, <2>1 DEF DrawNow, Prepares, memory
<1>8. CASE Reuse
  BY <1>8 DEF Reuse, Spares, memory
<1>9. CASE CaptureNothing \/ CaptureDirect
  BY <1>9 DEF CaptureNothing, CaptureDirect, Capture, Spares, memory
<1>10. CASE CapturePixels
  <2>1. Identity(surface.tex) \in Identities
    BY <1>10, BlankTyped DEF CapturePixels, Deferring, Strip
  <2> QED
    BY <1>10, <2>1 DEF CapturePixels, Capture, Prepares, memory
<1>11. ASSUME NEW k \in RawKeys, NEW gone, CaptureRaw(k, gone) PROVE Spares
  BY <1>11, TargetsTyped DEF CaptureRaw, Capture, Spares
<1>12. ASSUME NEW dst \in Targets \cup {Display}, NEW v, DrawGpu(dst, v) PROVE Writes \/ Spares
  <2>1. CASE dst = Display
    BY <1>12, <2>1 DEF DrawGpu, EndScene, Spares
  <2>2. CASE dst # Display
    <3>1. TargetPages[dst] \in SUBSET Pages
      BY <2>2, TextureAssumption
    <3> QED
      BY <1>12, <2>2, <3>1 DEF DrawGpu, EndScene, Writes
  <2> QED
    BY <2>1, <2>2
<1>13. ASSUME NEW done, StartSoftware(done) PROVE Spares
  BY <1>13 DEF StartSoftware, Spares
<1>14. ASSUME NEW i \in left \cup DOMAIN states, Look(i) PROVE Prepares
  <2>1. i \in DOMAIN states /\ states[i] \in DeferredStates
    BY StatesTyped DEF TypeOK
  <2>2. Identity(states[i].tex) \in Identities
    BY <2>1, IdentityTyped DEF DeferredStates
  <2> QED
    BY <1>14, <2>2 DEF Look, Prepares, memory
<1>15. ASSUME NEW dst \in Targets \cup {Display}, NEW v, DrawSoftware(dst, v) PROVE Writes \/ Spares
  <2>1. CASE dst = Display
    BY <1>15, <2>1 DEF DrawSoftware, EndScene, Spares
  <2>2. CASE dst # Display
    <3>1. TargetPages[dst] \in SUBSET Pages
      BY <2>2, TextureAssumption
    <3> QED
      BY <1>15, <2>2, <3>1 DEF DrawSoftware, EndScene, Writes
  <2> QED
    BY <2>1, <2>2
<1>16. CASE UNCHANGED vars
  BY <1>16 DEF vars, Spares
<1>17. setup.strides \subseteq Strides
  BY TextureAssumption DEF TypeOK, Configurations
<1>18. CASE Guest
  BY <1>1, <1>2, <1>3, <1>4, <1>17, <1>18 DEF Guest, PaletteWrite, FormatWrite
<1>19. CASE Register
  BY <1>5, <1>6, <1>7, <1>8, <1>9, <1>10, <1>11, <1>19 DEF Register
<1>20. CASE Finish
  BY <1>12, <1>13, <1>14, <1>15, <1>20 DEF Finish
<1> QED
  BY <1>16, <1>18, <1>19, <1>20 DEF Next

-----------------------------------------------------------------------------
(* The table from pages to entries, and one entry for a texture *)

LEMMA PreparedListed ==
  ASSUME TypeOK, MembershipExact, OneEntryPerTexture, NEW id \in Identities, cache' = Prepared(id)
  PROVE  MembershipExact' /\ OneEntryPerTexture'
<1>1. cache.entry \in [Slots -> Maybe(Images)] /\ cache.members \in [Pages -> SUBSET Slots] /\ cache \in Caches
  BY DEF TypeOK, Caches
<1>2. CASE \E k \in Matching(id) : Prepared(id) = [cache EXCEPT !.active = k]
  <2>1. cache'.entry = cache.entry /\ cache'.members = cache.members
    BY <1>1, <1>2 DEF Caches
  <2> QED
    BY <2>1 DEF MembershipExact, OneEntryPerTexture
<1>3. ASSUME NEW k \in SlotsOf(SetOf[id]), Matching(id) # {} => k \in Matching(id), Prepared(id) = Refilled(id, k)
      PROVE  MembershipExact' /\ OneEntryPerTexture'
  <2> DEFINE image == Image(id, vram)
  <2>1. image.id = id /\ image # Nothing
    BY ImageTyped DEF TypeOK
  <2>2. k \in Slots /\ k[1] = SetOf[id]
    BY <1>3, SlotsOfSet
  <2>3. cache'.entry = [cache.entry EXCEPT ![k] = image] /\ cache'.members = Listed(Delisted(k), k, id)
    BY <1>3 DEF Refilled
  <2> HIDE DEF image
  <2>4. \A j \in Slots : cache'.entry[j] = IF j = k THEN image ELSE cache.entry[j]
    BY <1>1, <2>2, <2>3
  <2>5. MembershipExact'
    <3> SUFFICES ASSUME NEW j \in Slots, NEW p \in Pages
                 PROVE  j \in cache'.members[p] <=> cache'.entry[j] # Nothing /\ p \in Area(cache'.entry[j].id)
      BY DEF MembershipExact, Area
    <3>1. j \in cache.members[p] <=> cache.entry[j] # Nothing /\ p \in Area(cache.entry[j].id)
      BY DEF MembershipExact
    <3>2. cache'.members[p] = IF p \in Area(id) THEN Delisted(k)[p] \cup {k} ELSE Delisted(k)[p]
      BY <2>3 DEF Listed
    <3>3. Delisted(k)[p] = IF cache.entry[k] # Nothing /\ p \in Area(cache.entry[k].id)
                           THEN cache.members[p] \ {k} ELSE cache.members[p]
      BY DEF Delisted
    <3>4. CASE j = k
      BY <2>1, <2>4, <3>1, <3>2, <3>3, <3>4
    <3>5. CASE j # k
      BY <2>4, <3>1, <3>2, <3>3, <3>5
    <3> QED
      BY <3>4, <3>5
  <2>6. ASSUME NEW j \in Slots, j # k, cache.entry[j] # Nothing PROVE cache.entry[j].id # id
    <3>1. SUFFICES ASSUME cache.entry[j].id = id PROVE FALSE
      OBVIOUS
    <3>2. j[1] = SetOf[id]
      BY <2>6, <3>1 DEF OneEntryPerTexture
    <3>3. j \in SlotsOf(SetOf[id])
      BY <3>2 DEF Slots, SlotsOf
    <3>4. k \in Matching(id)
      BY <1>3, <2>6, <3>1, <3>3 DEF Matching
    <3>5. cache.entry[k] # Nothing /\ cache.entry[k].id = id
      BY <3>4 DEF Matching
    <3> QED
      BY <2>2, <2>6, <3>1, <3>5 DEF OneEntryPerTexture
  <2>7. OneEntryPerTexture'
    <3> SUFFICES ASSUME NEW j \in Slots, cache'.entry[j] # Nothing
                 PROVE  /\ j[1] = SetOf[cache'.entry[j].id]
                        /\ \A i \in Slots : cache'.entry[i] # Nothing /\ cache'.entry[i].id = cache'.entry[j].id => i = j
      BY DEF OneEntryPerTexture
    <3>1. CASE j = k
      BY <2>1, <2>2, <2>4, <2>6, <3>1
    <3>2. CASE j # k
      <4>1. cache'.entry[j] = cache.entry[j] /\ cache.entry[j] # Nothing
        BY <2>4, <3>2
      <4>2. cache.entry[j].id # id
        BY <2>6, <3>2, <4>1
      <4> QED
        BY <2>1, <2>4, <4>1, <4>2 DEF OneEntryPerTexture
    <3> QED
      BY <3>1, <3>2
  <2> QED
    BY <2>5, <2>7
<1> QED
  BY <1>1, <1>2, <1>3, PreparedCases

LEMMA TableInvariance == Spec => [](MembershipExact /\ OneEntryPerTexture)
<1>1. Init => MembershipExact /\ OneEntryPerTexture
  BY DEF Init, MembershipExact, OneEntryPerTexture
<1>2. TypeInv /\ MembershipExact /\ OneEntryPerTexture /\ [Next]_vars => MembershipExact' /\ OneEntryPerTexture'
  <2> SUFFICES ASSUME TypeOK, MembershipExact, OneEntryPerTexture, [Next]_vars
               PROVE  MembershipExact' /\ OneEntryPerTexture'
    BY DEF TypeInv
  <2>1. CASE Prepares
    BY <2>1, PreparedListed DEF Prepares
  <2>2. ASSUME cache'.entry = cache.entry, cache'.members = cache.members
        PROVE  MembershipExact' /\ OneEntryPerTexture'
    BY <2>2 DEF MembershipExact, OneEntryPerTexture
  <2>3. CASE Writes
    <3>1. PICK written \in SUBSET Pages : cache' = Dirtied(written)
      BY <2>3 DEF Writes
    <3>2. cache \in Caches
      BY DEF TypeOK
    <3> QED
      BY <2>2, <3>1, <3>2 DEF Dirtied, Caches
  <2>4. CASE Repaints \/ Spares
    <3>1. cache \in Caches
      BY DEF TypeOK
    <3> QED
      BY <2>2, <2>4, <3>1 DEF Repaints, Spares, Caches
  <2> QED
    BY <2>1, <2>3, <2>4, CacheSteps
<1> QED
  BY <1>1, <1>2, TypeInvariance, PTL DEF Spec

(* The page -> slot table that pvr_mark_vram_write trusts is exact *)
THEOREM MembershipCorrect == Spec => []MembershipExact
BY TableInvariance, PTL

(* No texture is in the cache twice, or where the lookup misses it *)
THEOREM OneEntryCorrect == Spec => []OneEntryPerTexture
BY TableInvariance, PTL

(* Decoded textures are found by their pages and by their identity *)
THEOREM TablesCorrect == Spec => []TablesExact
<1>1. MembershipExact /\ OneEntryPerTexture => TablesExact
  BY DEF TablesExact
<1> QED
  BY <1>1, MembershipCorrect, OneEntryCorrect, PTL

-----------------------------------------------------------------------------
(* Render targets *)

Apart(pictures) ==
  \A g, h \in Targets : pictures[g] # Nothing /\ pictures[h] # Nothing /\ g # h => TargetPages[g] \cap TargetPages[h] = {}
Agree(pictures, mem) ==
  \A g \in Targets : pictures[g] # Nothing /\ pictures[g].synced => \A p \in TargetPages[g] : mem[p] = pictures[g].value
NoTargets == setup.mode # "gpu" => \A g \in Targets : rtt[g] = Nothing
TargetInv == TargetsCoherent /\ NoTargets

(* What a readback puts into VRAM is the picture, of every target it takes *)
LEMMA ReadIntoTargets ==
  ASSUME TypeOK, Apart(rtt), NEW done \in SUBSET Ahead, NEW g \in Targets, rtt[g] # Nothing, NEW p \in TargetPages[g]
  PROVE  ReadInto(done)[p] = IF g \in done THEN rtt[g].value ELSE vram[p]
<1>1. p \in Pages
  BY TextureAssumption
<1>2. \A h \in done : h \in Targets /\ rtt[h] # Nothing
  BY DEF Ahead
<1>3. \A h \in done : p \in TargetPages[h] => h = g
  BY <1>2 DEF Apart
<1>4. CASE g \in done
  <2>1. (CHOOSE h \in done : p \in TargetPages[h]) = g
    BY <1>3, <1>4
  <2> QED
    BY <1>1, <1>4, <2>1 DEF ReadInto
<1>5. CASE g \notin done
  BY <1>1, <1>3, <1>5 DEF ReadInto
<1> QED
  BY <1>4, <1>5

LEMMA TargetStep == TypeInv /\ TargetInv /\ [Next]_vars => TargetInv'
<1> SUFFICES ASSUME TypeOK, TargetInv, [Next]_vars PROVE TargetInv'
  BY DEF TypeInv
<1>a. TargetsCoherent <=> Apart(rtt) /\ Agree(rtt, vram)
  BY DEF TargetsCoherent, Apart, Agree
<1>b. TargetsCoherent' <=> Apart(rtt') /\ Agree(rtt', vram')
  BY DEF TargetsCoherent, Apart, Agree
<1>c. Apart(rtt) /\ Agree(rtt, vram) /\ vram \in [Pages -> Values] /\ rtt \in [Targets -> Maybe(Pictures)]
  BY <1>a DEF TargetInv, TypeOK
<1>d. \A g \in Targets : TargetPages[g] \subseteq Pages
  BY TextureAssumption
<1>1. ASSUME rtt' = rtt, vram' = vram, setup' = setup PROVE TargetInv'
  BY <1>a, <1>b, <1>1 DEF TargetInv, NoTargets
<1>2. ASSUME NEW done \in SUBSET Ahead, vram' = ReadInto(done), rtt' = Synced(done), setup' = setup PROVE TargetInv'
  <2>1. \A g \in Targets : rtt'[g] = IF g \in done THEN [rtt[g] EXCEPT !.synced = TRUE] ELSE rtt[g]
    BY <1>2 DEF Synced
  <2>2. \A g \in done : g \in Targets /\ rtt[g] # Nothing
    BY DEF Ahead
  <2>3. Apart(rtt')
    BY <1>c, <2>1, <2>2 DEF Apart
  <2>4. Agree(rtt', vram')
    <3> SUFFICES ASSUME NEW g \in Targets, rtt'[g] # Nothing, rtt'[g].synced, NEW p \in TargetPages[g]
                 PROVE  vram'[p] = rtt'[g].value
      BY DEF Agree
    <3>1. rtt[g] # Nothing
      BY <2>1, <2>2
    <3>2. vram'[p] = IF g \in done THEN rtt[g].value ELSE vram[p]
      BY <1>2, <1>c, <3>1, ReadIntoTargets
    <3>3. CASE g \in done
      <4>1. rtt[g] \in Pictures
        BY <3>1, <1>c DEF Maybe
      <4>2. rtt'[g].value = rtt[g].value
        BY <2>1, <3>3, <4>1 DEF Pictures
      <4> QED
        BY <3>2, <3>3, <4>2
    <3>4. CASE g \notin done
      BY <1>c, <2>1, <3>1, <3>2, <3>4 DEF Agree
    <3> QED
      BY <3>3, <3>4
  <2>5. NoTargets'
    BY <1>2, <2>1, <2>2 DEF TargetInv, NoTargets
  <2> QED
    BY <1>b, <2>3, <2>4, <2>5 DEF TargetInv
<1>3. ASSUME NEW written \in SUBSET Pages, rtt' = Kept(written), \A p \in Pages \ written : vram'[p] = vram[p], setup' = setup
      PROVE  TargetInv'
  <2>1. \A g \in Targets : rtt'[g] = IF TargetPages[g] \cap written # {} THEN Nothing ELSE rtt[g]
    BY <1>3 DEF Kept
  <2>2. Apart(rtt') /\ Agree(rtt', vram')
    BY <1>3, <1>c, <1>d, <2>1 DEF Apart, Agree
  <2>3. NoTargets'
    BY <1>3, <2>1 DEF TargetInv, NoTargets
  <2> QED
    BY <1>b, <2>2, <2>3 DEF TargetInv
<1>4. ASSUME NEW dst \in Targets, NEW v \in Values, DrawGpu(dst, v) PROVE TargetInv'
  <2>1. dst # Display /\ setup.mode = "gpu" /\ setup' = setup /\ vram' = vram
    BY <1>4, TextureAssumption DEF DrawGpu, EndScene
  <2>2. rtt' = [Kept(TargetPages[dst]) EXCEPT ![dst] = [value |-> v, synced |-> FALSE]]
    BY <1>4, <2>1 DEF DrawGpu
  <2>3. \A g \in Targets : rtt'[g] = IF g = dst THEN [value |-> v, synced |-> FALSE]
                                     ELSE IF TargetPages[g] \cap TargetPages[dst] # {} THEN Nothing ELSE rtt[g]
    BY <2>2 DEF Kept
  <2>4. Apart(rtt')
    BY <1>c, <2>3 DEF Apart
  <2>5. Agree(rtt', vram')
    BY <1>c, <2>1, <2>3 DEF Agree
  <2> QED
    BY <1>b, <2>1, <2>4, <2>5 DEF TargetInv, NoTargets
<1>5. ASSUME NEW p \in Pages, NEW v \in Values, GuestWrite(p, v) PROVE TargetInv'
  <2>1. {p} \in SUBSET Pages /\ \A q \in Pages \ {p} : vram'[q] = vram[q]
    BY <1>5, <1>c DEF GuestWrite
  <2> QED
    BY <1>3, <1>5, <2>1 DEF GuestWrite
<1>6. ASSUME NEW p \in Pages, GuestRead(p) PROVE TargetInv'
  BY <1>2, <1>6, TargetsTyped DEF GuestRead
<1>7. ASSUME NEW k \in RawKeys, NEW gone, CaptureRaw(k, gone) PROVE TargetInv'
  BY <1>2, <1>7, TargetsTyped DEF CaptureRaw, Capture
<1>8. ASSUME NEW dst \in Targets, NEW v, DrawSoftware(dst, v) PROVE TargetInv'
  <2>1. dst # Display /\ TargetPages[dst] \in SUBSET Pages
    BY <1>d, TextureAssumption
  <2> QED
    BY <1>3, <1>8, <2>1 DEF DrawSoftware, EndScene
<1>9. ASSUME NEW v, DrawGpu(Display, v) \/ DrawSoftware(Display, v) PROVE TargetInv'
  BY <1>1, <1>9 DEF DrawGpu, DrawSoftware, EndScene
<1>10. CASE Guest
  BY <1>1, <1>5, <1>6, <1>10 DEF Guest, PaletteWrite, FormatWrite, NewPalette, StrideWrite, memory
<1>11. CASE Register
  BY <1>1, <1>7, <1>11
     DEF Register, Header, ListCont, DrawNow, Reuse, CaptureNothing, CapturePixels, CaptureDirect, Capture, memory
<1>12. CASE Finish
  BY <1>1, <1>4, <1>8, <1>9, <1>12 DEF Finish, StartSoftware, Look, memory
<1>13. CASE UNCHANGED vars
  BY <1>1, <1>13 DEF vars
<1> QED
  BY <1>10, <1>11, <1>12, <1>13 DEF Next

LEMMA TargetInvariance == Spec => []TargetInv
<1>1. Init => TargetInv
  BY DEF Init, TargetInv, TargetsCoherent, NoTargets
<1> QED
  BY <1>1, TargetStep, TypeInvariance, PTL DEF Spec

(* Render targets on the GPU never overlap, and one that was read back      *)
(* agrees with VRAM for as long as it lives                                 *)
THEOREM TargetsCorrect == Spec => []TargetsCoherent
<1>1. TargetInv => TargetsCoherent
  BY DEF TargetInv
<1> QED
  BY <1>1, TargetInvariance, PTL

-----------------------------------------------------------------------------
(* Freshness of the decoded textures *)

(* Where nothing is ahead of VRAM a read changes nothing *)
LEMMA QuietReads ==
  ASSUME TypeOK, TargetInv, setup.mode # "gpu", NEW done \in SUBSET Ahead
  PROVE  ReadInto(done) = vram
<1>1. done = {}
  BY DEF TargetInv, NoTargets, Ahead
<1>2. ReadInto({}) = [p \in Pages |-> vram[p]]
  BY DEF ReadInto
<1> QED
  BY <1>1, <1>2 DEF TypeOK

(* Nothing sets the configuration *)
LEMMA SetupStep ==
  ASSUME [Next]_vars
  PROVE  setup' = setup
<1>1. CASE Guest
  BY <1>1 DEF Guest, PaletteWrite, FormatWrite, GuestWrite, GuestRead, NewPalette, StrideWrite
<1>2. CASE Register
  BY <1>2 DEF Register, Header, ListCont, DrawNow, Reuse, CaptureNothing, CapturePixels, CaptureDirect, CaptureRaw, Capture
<1>3. CASE Finish
  BY <1>3 DEF Finish, DrawGpu, StartSoftware, Look, DrawSoftware, EndScene
<1>4. CASE UNCHANGED vars
  BY <1>4 DEF vars
<1> QED
  BY <1>1, <1>2, <1>3, <1>4 DEF Next

(* An image shows memory and a palette as they are *)
Shows(image, mem, palette) ==
  /\ image.texels = [p \in Area(image.id) |-> mem[p]]
  /\ image.palette = IF image.id.tex \in Paletted THEN palette ELSE 0
AllFresh ==
  setup.mode # "gpu" =>
    \A k \in Slots : cache.entry[k] # Nothing /\ k \notin cache.dirty \cup cache.outdated => Shows(cache.entry[k], vram, regs.palette)
PalettesFresh ==
  \A k \in Slots : cache.entry[k] # Nothing /\ k \notin cache.dirty \cup cache.outdated =>
    cache.entry[k].palette = IF cache.entry[k].id.tex \in Paletted THEN regs.palette ELSE 0
PalettedOutdated == \A k \in cache.outdated : k \in Slots /\ cache.entry[k] # Nothing /\ cache.entry[k].id.tex \in Paletted
FreshInv == AllFresh /\ PalettesFresh /\ PalettedOutdated

LEMMA ShowsImage ==
  ASSUME NEW image \in Images
  PROVE  Shows(image, vram, regs.palette) <=> image = Image(image.id, vram)
BY DEF Shows, Image, Images

LEMMA FreshStep == TypeInv /\ MembershipExact /\ TargetInv /\ FreshInv /\ [Next]_vars => FreshInv'
<1> SUFFICES ASSUME TypeOK, MembershipExact, TargetInv, AllFresh, PalettesFresh, PalettedOutdated, [Next]_vars
             PROVE  AllFresh' /\ PalettesFresh' /\ PalettedOutdated'
  BY DEF TypeInv, FreshInv
<1>a. cache \in Caches /\ cache.entry \in [Slots -> Maybe(Images)] /\ cache.outdated \subseteq Slots
  BY DEF TypeOK, Caches
<1>b. setup' = setup
  BY SetupStep
<1>c. ASSUME NEW k \in Slots, cache.entry[k] # Nothing
      PROVE  cache.entry[k].id \in Identities /\ Area(cache.entry[k].id) \subseteq Pages
  <2>1. cache.entry[k].id \in Identities
    BY <1>a, <1>c DEF Maybe, Images
  <2> QED
    BY <2>1, AreaIn
<1>1. CASE Prepares
  <2>1. PICK id \in Identities : cache' = Prepared(id) /\ vram' = vram /\ regs' = regs
    BY <1>1 DEF Prepares
  <2>2. CASE \E j \in Matching(id) : cache' = [cache EXCEPT !.active = j]
    <3>1. cache'.entry = cache.entry /\ cache'.dirty = cache.dirty /\ cache'.outdated = cache.outdated
      BY <1>a, <2>2 DEF Caches
    <3> QED
      BY <1>b, <2>1, <3>1 DEF AllFresh, PalettesFresh, PalettedOutdated
  <2>3. CASE \E j \in SlotsOf(SetOf[id]) : cache' = Refilled(id, j)
    <3>1. PICK j \in Slots : cache' = Refilled(id, j)
      BY <2>3, SlotsOfSet
    <3>2. \A k \in Slots : cache'.entry[k] = IF k = j THEN Image(id, vram) ELSE cache.entry[k]
      BY <1>a, <3>1 DEF Refilled
    <3>3. cache'.dirty = cache.dirty \ {j} /\ cache'.outdated = cache.outdated \ {j}
      BY <3>1 DEF Refilled
    <3>4. Shows(Image(id, vram), vram, regs.palette)
      BY DEF Shows, Image
    <3>5. AllFresh'
      BY <1>b, <2>1, <3>2, <3>3, <3>4 DEF AllFresh
    <3>6. PalettedOutdated'
      BY <1>a, <3>2, <3>3 DEF PalettedOutdated
    <3>7. PalettesFresh'
      BY <2>1, <3>2, <3>3, <3>4 DEF PalettesFresh, Shows, Image
    <3> QED
      BY <3>5, <3>6, <3>7
  <2> QED
    BY <1>a, <2>1, <2>2, <2>3, PreparedCases
<1>2. CASE Writes
  <2>1. PICK written \in SUBSET Pages :
          cache' = Dirtied(written) /\ regs' = regs /\ \A p \in Pages \ written : vram'[p] = vram[p]
    BY <1>2 DEF Writes
  <2>2. cache'.entry = cache.entry /\ cache'.outdated = cache.outdated
        /\ cache'.dirty = cache.dirty \cup UNION {cache.members[p] : p \in written}
    BY <1>a, <2>1 DEF Dirtied, Caches
  <2>3. AllFresh'
    <3> SUFFICES ASSUME setup.mode # "gpu", NEW k \in Slots, cache.entry[k] # Nothing, k \notin cache'.dirty \cup cache'.outdated
                 PROVE  Shows(cache.entry[k], vram', regs'.palette)
      BY <1>b, <2>2 DEF AllFresh
    <3>1. k \notin cache.dirty \cup cache.outdated /\ \A p \in written : k \notin cache.members[p]
      BY <2>2
    <3>2. Area(cache.entry[k].id) \subseteq Pages \ written
      BY <1>c, <3>1 DEF MembershipExact
    <3>3. Shows(cache.entry[k], vram, regs.palette)
      BY <3>1 DEF AllFresh
    <3> QED
      BY <2>1, <3>2, <3>3 DEF Shows
  <2>4. PalettedOutdated' /\ PalettesFresh'
    BY <2>1, <2>2 DEF PalettedOutdated, PalettesFresh
  <2> QED
    BY <2>3, <2>4
<1>3. CASE Repaints
  <2>1. cache'.entry = cache.entry /\ cache'.dirty = cache.dirty /\ vram' = vram
        /\ cache'.outdated = {j \in Slots : cache.entry[j] # Nothing /\ cache.entry[j].id.tex \in Paletted}
    BY <1>a, <1>3 DEF Repaints, Caches
  <2>2. PalettedOutdated'
    BY <2>1 DEF PalettedOutdated
  <2>3. AllFresh'
    <3> SUFFICES ASSUME setup.mode # "gpu", NEW k \in Slots, cache.entry[k] # Nothing, k \notin cache'.dirty \cup cache'.outdated
                 PROVE  Shows(cache.entry[k], vram', regs'.palette)
      BY <1>b, <2>1 DEF AllFresh
    <3>1. k \notin cache.dirty \cup cache.outdated /\ cache.entry[k].id.tex \notin Paletted
      BY <2>1 DEF PalettedOutdated
    <3>2. Shows(cache.entry[k], vram, regs.palette)
      BY <3>1 DEF AllFresh
    <3> QED
      BY <2>1, <3>1, <3>2 DEF Shows
  <2>4. PalettesFresh'
    BY <2>1 DEF PalettesFresh, PalettedOutdated
  <2> QED
    BY <2>2, <2>3, <2>4
<1>4. CASE Spares
  <2>1. setup.mode # "gpu" => vram' = vram
    BY <1>4, QuietReads DEF Spares
  <2> QED
    BY <1>4, <1>b, <2>1 DEF Spares, AllFresh, PalettesFresh, PalettedOutdated
<1> QED
  BY <1>1, <1>2, <1>3, <1>4, CacheSteps

LEMMA FreshInvariance == Spec => []FreshInv
<1>1. Init => FreshInv
  BY DEF Init, FreshInv, AllFresh, PalettesFresh, PalettedOutdated
<1> QED
  BY <1>1, FreshStep, TypeInvariance, TableInvariance, TargetInvariance, PTL DEF Spec

(* An entry that is neither dirty nor outdated has the palette as it is and, *)
(* in the CPU's renderers, shows VRAM as it is                              *)
THEOREM FreshCorrect == Spec => []CleanIsFresh
<1>1. TypeInv /\ FreshInv => CleanIsFresh
  <2> SUFFICES ASSUME TypeOK, AllFresh, PalettesFresh, NEW k \in Slots, cache.entry[k] # Nothing, ~Dirty(k)
               PROVE  /\ cache.entry[k].palette = Image(cache.entry[k].id, vram).palette
                      /\ setup.mode # "gpu" => cache.entry[k] = Image(cache.entry[k].id, vram)
    BY DEF TypeInv, FreshInv, CleanIsFresh
  <2>1. cache.entry[k] \in Images
    BY DEF TypeOK, Caches, Maybe
  <2>2. cache.entry[k].palette = Image(cache.entry[k].id, vram).palette
    BY DEF PalettesFresh, Dirty, Image
  <2> QED
    BY <2>1, <2>2, ShowsImage DEF AllFresh, Dirty
<1> QED
  BY <1>1, FreshInvariance, TypeInvariance, PTL

-----------------------------------------------------------------------------
(* Reuse of a deferred state in the threaded renderer *)

(* The cached state has the pixels of the active slot, which is clean *)
ActiveBacks ==
  setup.mode = "mt" =>
    /\ phase = "guest"
    /\ cached # 0 =>
         /\ surface # Nothing /\ cache.active \in Slots
         /\ cache.active \notin cache.dirty \cup cache.outdated
         /\ cache.entry[cache.active] = states[cached].pixels
         /\ states[cached].pixels.id = Identity(surface.tex)

LEMMA PreparedActive ==
  ASSUME TypeOK, NEW id \in Identities, cache' = Prepared(id)
  PROVE  /\ cache'.active \in Slots /\ cache'.active \notin cache'.dirty \cup cache'.outdated
         /\ cache'.entry[cache'.active].id = id
<1>a. cache \in Caches
  BY DEF TypeOK
<1>1. CASE \E k \in Matching(id) : ~Dirty(k) /\ Prepared(id) = [cache EXCEPT !.active = k]
  <2>1. PICK k \in Matching(id) : ~Dirty(k) /\ cache' = [cache EXCEPT !.active = k]
    BY <1>1
  <2>2. k \in Slots /\ cache.entry[k].id = id
    BY SlotsOfSet DEF Matching
  <2> QED
    BY <1>a, <2>1, <2>2 DEF Caches, Dirty
<1>2. CASE \E k \in SlotsOf(SetOf[id]) : Prepared(id) = Refilled(id, k)
  <2>1. PICK k \in Slots : cache' = Refilled(id, k)
    BY <1>2, SlotsOfSet
  <2>2. cache'.active = k /\ cache'.entry[k] = Image(id, vram)
    BY <2>1, RefilledTyped
  <2> QED
    BY <2>1, <2>2 DEF Refilled, Image
<1> QED
  BY <1>a, <1>1, <1>2, PreparedCases

LEMMA ActiveStep == TypeInv /\ ActiveBacks /\ [Next]_vars => ActiveBacks'
<1> SUFFICES ASSUME TypeOK, setup.mode = "mt", ActiveBacks, [Next]_vars PROVE ActiveBacks'
  BY SetupStep DEF TypeInv, ActiveBacks
<1>a. cache \in Caches /\ phase = "guest"
  BY DEF TypeOK, ActiveBacks
<1>1. ASSUME phase' = "guest", cached' = 0 PROVE ActiveBacks'
  BY <1>1 DEF ActiveBacks
<1>2. ASSUME phase' = phase, cached' = cached, surface' = surface, states' = states, cache' = cache, regs' = regs PROVE ActiveBacks'
  BY <1>2, SetupStep DEF ActiveBacks, Identity
<1>3. ASSUME NEW p \in Pages, NEW v \in Values, GuestWrite(p, v) PROVE ActiveBacks'
  <2>1. phase' = phase /\ surface' = surface /\ regs' = regs /\ cache' = Dirtied({p}) /\ states' = Orphaned({p})
    BY <1>3 DEF GuestWrite, submission
  <2>2. CASE cached' = 0
    BY <1>1, <1>a, <2>1, <2>2
  <2>3. CASE cached' # 0
    <3>1. cached' = cached /\ cache.active \notin cache'.dirty
      BY <1>3, <2>3, Zenon DEF GuestWrite
    <3>2. cache'.entry = cache.entry /\ cache'.active = cache.active /\ cache'.outdated = cache.outdated
      BY <1>a, <2>1 DEF Dirtied, Caches
    <3>3. cached \in DOMAIN states
      BY <2>3, <3>1, StatesTyped DEF TypeOK
    <3>4. states'[cached].pixels = states[cached].pixels
      BY <2>1, <3>3, StatesTyped DEF Orphaned, DeferredStates
    <3> QED
      BY <1>a, <2>1, <2>3, <3>1, <3>2, <3>4 DEF ActiveBacks, Identity
  <2> QED
    BY <2>2, <2>3
<1>4. CASE CapturePixels
  <2>1. surface # Nothing /\ surface' = surface /\ phase' = phase /\ regs' = regs /\ cache' = Prepared(Identity(surface.tex))
    BY <1>4 DEF CapturePixels, Deferring, Strip, Capture, submission
  <2>2. /\ cache'.active \in Slots /\ cache'.active \notin cache'.dirty \cup cache'.outdated
        /\ cache'.entry[cache'.active].id = Identity(surface.tex)
    BY <2>1, BlankTyped, PreparedActive
  <2> DEFINE state == [Blank EXCEPT !.pixels = cache'.entry[cache'.active]]
  <2>3. states' = Append(states, state) /\ cached' = Len(states) + 1
    BY <1>4 DEF CapturePixels, Capture
  <2>4. states'[cached'] = state
    BY <2>3 DEF TypeOK
  <2>5. state.pixels = cache'.entry[cache'.active]
    BY DEF Blank
  <2>6. Identity(surface.tex)' = Identity(surface.tex)
    BY <2>1 DEF Identity
  <2> HIDE DEF state
  <2> QED
    BY <1>a, <2>1, <2>2, <2>4, <2>5, <2>6 DEF ActiveBacks
<1>5. CASE Guest
  BY <1>1, <1>2, <1>3, <1>5, <1>a
     DEF Guest, PaletteWrite, FormatWrite, GuestRead, NewPalette, StrideWrite, submission, scene
<1>6. CASE Register
  BY <1>1, <1>2, <1>4, <1>6, <1>a
     DEF Register, Header, ListCont, DrawNow, Reuse, CaptureNothing, CaptureDirect, CaptureRaw, Deferring, submission
<1>7. CASE Finish
  BY <1>1, <1>7, <1>a DEF Finish, DrawGpu, StartSoftware, Look, DrawSoftware, EndScene
<1>8. CASE UNCHANGED vars
  BY <1>2, <1>8 DEF vars
<1> QED
  BY <1>5, <1>6, <1>7, <1>8 DEF Next

LEMMA ActiveInvariance == Spec => []ActiveBacks
<1>1. Init => ActiveBacks
  BY DEF Init, ActiveBacks
<1> QED
  BY <1>1, ActiveStep, TypeInvariance, PTL DEF Spec

-----------------------------------------------------------------------------
(* Raw snapshots *)

(* A snapshot is VRAM as it is, under no target that is ahead of VRAM *)
Exact(k, snapshot, mem, ahead) ==
  /\ snapshot.texels = [p \in Area(k) |-> mem[p]]
  /\ \A g \in ahead : TargetPages[g] \cap Area(k) = {}
Referenced(snapshots, all) ==
  \A k \in RawKeys : snapshots[k] # Nothing /\ snapshots[k].decoded = Nothing => \E i \in DOMAIN all : all[i].key = k
AllExact == setup.reliable => \A k \in RawKeys : raw[k] # Nothing => Exact(k, raw[k], vram, Ahead)
SnapshotInv == AllExact /\ Referenced(raw, states)

LEMMA SnapshotsLive ==
  ASSUME TypeOK, NEW k \in RawKeys, Exact(k, raw[k], vram, Ahead)
  PROVE  raw[k].texels = [p \in Area(k) |-> Live[p]]
<1>1. Area(k) \subseteq Pages
  BY AreaIn
<1>2. \A p \in Area(k) : Live[p] = vram[p]
  BY <1>1 DEF Exact, Live
<1> QED
  BY <1>2 DEF Exact

(* A readback of its own pages makes a snapshot of VRAM exact, and one of   *)
(* any pages keeps the exact ones exact                                     *)
LEMMA ReadsExact ==
  ASSUME TypeOK, Apart(rtt), setup.reliable, NEW read, NEW done \in Readbacks(read), vram' = ReadInto(done), rtt' = Synced(done)
  PROVE  /\ done \subseteq Ahead /\ Ahead' = Ahead \ done
         /\ \A k \in RawKeys : \A snapshot : Exact(k, snapshot, vram, Ahead) => Exact(k, snapshot, vram', Ahead')
         /\ \A g \in Ahead' : TargetPages[g] \cap read = {}
<1>1. done = {g \in Ahead : TargetPages[g] \cap read # {}}
  BY DEF Readbacks
<1>2. Ahead' = Ahead \ done
  <2>1. \A g \in Targets : rtt'[g] = IF g \in done THEN [rtt[g] EXCEPT !.synced = TRUE] ELSE rtt[g]
    BY DEF Synced
  <2>2. \A g \in done : rtt'[g].synced
    <3> SUFFICES ASSUME NEW g \in done PROVE rtt'[g].synced
      OBVIOUS
    <3>1. g \in Targets /\ rtt[g] \in Pictures
      BY <1>1, TargetsTyped DEF Ahead
    <3> QED
      BY <2>1, <3>1 DEF Pictures
  <2> QED
    BY <1>1, <2>1, <2>2 DEF Ahead
<1>3. ASSUME NEW k \in RawKeys, NEW snapshot, Exact(k, snapshot, vram, Ahead)
      PROVE  Exact(k, snapshot, vram', Ahead')
  <2>1. Area(k) \subseteq Pages
    BY AreaIn
  <2>2. \A p \in Area(k) : vram'[p] = vram[p]
    BY <1>1, <1>3, <2>1 DEF Exact, ReadInto
  <2>3. Exact(k, snapshot, vram', Ahead)
    BY <1>3, <2>2 DEF Exact
  <2> QED
    BY <1>2, <2>3 DEF Exact
<1>4. \A g \in Ahead' : TargetPages[g] \cap read = {}
  BY <1>1, <1>2
<1> QED
  BY <1>1, <1>2, <1>3, <1>4

(* A write keeps exact the snapshots that it does not drop *)
LEMMA WritesExact ==
  ASSUME NEW written, NEW mem, NEW new, \A p \in Pages \ written : mem[p] = vram[p],
         \A g \in new : g \in Ahead \/ TargetPages[g] = written,
         NEW k \in RawKeys, NEW snapshot, Area(k) \cap written = {}, Exact(k, snapshot, vram, Ahead)
  PROVE  Exact(k, snapshot, mem, new)
<1>1. \A p \in Area(k) : mem[p] = vram[p]
  BY AreaIn
<1>2. Exact(k, snapshot, mem, Ahead)
  BY <1>1 DEF Exact
<1> QED
  BY <1>2 DEF Exact

LEMMA SnapshotStep == TypeInv /\ TargetInv /\ SnapshotInv /\ [Next]_vars => SnapshotInv'
<1> SUFFICES ASSUME TypeInv, TargetInv, AllExact, Referenced(raw, states), [Next]_vars
             PROVE  AllExact' /\ Referenced(raw', states')
  BY DEF SnapshotInv, Referenced
<1>a. TypeOK /\ Apart(rtt) /\ setup' = setup /\ vram \in [Pages -> Values] /\ raw \in [RawKeys -> Maybe(Snapshots)]
  BY SetupStep DEF TypeInv, TypeOK, TargetInv, TargetsCoherent, Apart
<1>b. \A g \in Targets : TargetPages[g] \in SUBSET Pages
  BY TextureAssumption
<1>1. ASSUME raw' = raw, vram' = vram, rtt' = rtt, DOMAIN states' = DOMAIN states, \A i \in DOMAIN states : states'[i].key = states[i].key
      PROVE  AllExact' /\ Referenced(raw', states')
  BY <1>1, <1>a DEF AllExact, Referenced, Ahead, Exact, Area
<1>2. ASSUME NEW p \in Pages, NEW v \in Values, GuestWrite(p, v) PROVE AllExact' /\ Referenced(raw', states')
  <2>1. vram' = [vram EXCEPT ![p] = v] /\ rtt' = Kept({p}) /\ raw' = Unwritten(raw, {p}) /\ states' = Orphaned({p})
    BY <1>2 DEF GuestWrite
  <2>2. \A g \in Ahead' : g \in Ahead
    BY <2>1 DEF Ahead, Kept
  <2>3. \A k \in RawKeys : raw'[k] = IF Area(k) \cap {p} # {} THEN Nothing ELSE raw[k]
    BY <2>1 DEF Unwritten
  <2>4. \A q \in Pages \ {p} : vram'[q] = vram[q]
    BY <1>a, <2>1
  <2>5. ASSUME setup.reliable, NEW k \in RawKeys, raw'[k] # Nothing PROVE Exact(k, raw'[k], vram', Ahead')
    <3>1. raw'[k] = raw[k] /\ Area(k) \cap {p} = {}
      BY <2>3, <2>5
    <3>2. Exact(k, raw[k], vram, Ahead)
      BY <2>5, <3>1 DEF AllExact
    <3> QED
      BY <2>2, <2>4, <3>1, <3>2, WritesExact
  <2>6. Referenced(raw', states')
    <3> SUFFICES ASSUME NEW k \in RawKeys, raw'[k] # Nothing, raw'[k].decoded = Nothing
                 PROVE  \E i \in DOMAIN states' : states'[i].key = k
      BY DEF Referenced
    <3>1. raw'[k] = raw[k] /\ Area(k) \cap {p} = {}
      BY <2>3
    <3>2. PICK i \in DOMAIN states : states[i].key = k
      BY <3>1 DEF Referenced
    <3>3. i \in DOMAIN states' /\ states'[i] = states[i]
      BY <2>1, <3>1, <3>2 DEF Orphaned
    <3> QED
      BY <3>2, <3>3
  <2> QED
    BY <1>a, <2>5, <2>6 DEF AllExact, Exact, Area
<1>3. ASSUME NEW p \in Pages, GuestRead(p) PROVE AllExact' /\ Referenced(raw', states')
  <2>1. PICK done \in Readbacks({p}) : vram' = ReadInto(done) /\ rtt' = Synced(done)
    BY <1>3 DEF GuestRead
  <2>2. raw' = raw /\ states' = states
    BY <1>3 DEF GuestRead, scene
  <2>3. setup.reliable => \A k \in RawKeys : \A snapshot : Exact(k, snapshot, vram, Ahead) => Exact(k, snapshot, vram', Ahead')
    BY <1>a, <2>1, ReadsExact
  <2> QED
    BY <1>a, <2>2, <2>3 DEF AllExact, Referenced, Exact, Area
<1>4. ASSUME NEW k \in RawKeys, NEW gone \in BOOLEAN, CaptureRaw(k, gone) PROVE AllExact' /\ Referenced(raw', states')
  <2> DEFINE snapshot == [texels |-> [p \in Area(k) |-> vram'[p]], decoded |-> Nothing]
  <2>1. PICK done \in Readbacks(Area(k)) : vram' = ReadInto(done) /\ rtt' = Synced(done)
    BY <1>4 DEF CaptureRaw
  <2>2. raw' = IF raw[k] # Nothing /\ ~gone THEN raw ELSE [raw EXCEPT ![k] = snapshot]
    BY <1>4 DEF CaptureRaw
  <2>3. ASSUME setup.reliable PROVE AllExact'
    <3>1. \A j \in RawKeys : \A s : Exact(j, s, vram, Ahead) => Exact(j, s, vram', Ahead')
      BY <1>a, <2>1, <2>3, ReadsExact
    <3>2. Exact(k, snapshot, vram', Ahead')
      BY <1>a, <2>1, <2>3, ReadsExact DEF Exact
    <3> HIDE DEF snapshot
    <3>3. \A j \in RawKeys : raw'[j] # Nothing => Exact(j, raw'[j], vram', Ahead')
      BY <1>a, <2>2, <2>3, <3>1, <3>2 DEF AllExact
    <3> QED
      BY <3>3 DEF AllExact, Exact, Area
  <2>4. \E state \in DeferredStates : states' = Append(states, state) /\ state.key = k
    <3>1. Blank \in DeferredStates
      BY <1>4, <1>a, BlankTyped DEF CaptureRaw, Deferring, Strip
    <3> DEFINE new == [Blank EXCEPT !.key = k, !.decoded = raw'[k].decoded, !.ok = surface.tex \in Supported,
                           !.copy = [Image(Identity(surface.tex), vram) EXCEPT !.texels = raw'[k].texels]]
    <3>2. states' = Append(states, new)
      BY <1>4 DEF CaptureRaw, Capture
    <3>3. new.key = k
      BY <3>1 DEF DeferredStates
    <3>4. TypeOK'
      BY <1>4, RegisterTyped DEF Register, TypeInv
    <3>5. states'[Len(states) + 1] = new /\ Len(states) + 1 \in DOMAIN states'
      <4> HIDE DEF new
      <4> QED
        BY <3>2, <1>a DEF TypeOK
    <3>6. \A i \in DOMAIN states' : states'[i] \in DeferredStates
      BY <3>4 DEF TypeOK
    <3> HIDE DEF new
    <3> QED
      BY <3>2, <3>3, <3>5, <3>6
  <2>5. Referenced(raw', states')
    <3>1. PICK state \in DeferredStates : states' = Append(states, state) /\ state.key = k
      BY <2>4
    <3>2. \A i \in DOMAIN states : i \in DOMAIN states' /\ states'[i] = states[i]
      BY <1>a, <3>1 DEF TypeOK
    <3>3. Len(states) + 1 \in DOMAIN states' /\ states'[Len(states) + 1] = state
      BY <1>a, <3>1 DEF TypeOK
    <3>4. \A j \in RawKeys : j # k => raw'[j] = raw[j]
      BY <1>a, <2>2
    <3> QED
      BY <3>1, <3>2, <3>3, <3>4 DEF Referenced
  <2> QED
    BY <1>a, <2>3, <2>5 DEF AllExact
<1>5. ASSUME NEW state, Capture(state), raw' = raw, vram' = vram, rtt' = rtt PROVE AllExact' /\ Referenced(raw', states')
  <2>1. \A i \in DOMAIN states : i \in DOMAIN states' /\ states'[i] = states[i]
    BY <1>5, <1>a DEF Capture, TypeOK
  <2> QED
    BY <1>5, <1>a, <2>1 DEF AllExact, Referenced, Ahead, Exact, Area
<1>6. ASSUME NEW keys \in SUBSET HeldKeys
      PROVE  \A k \in RawKeys : raw[k] # Nothing =>
               /\ Decoded(keys)[k] # Nothing /\ Decoded(keys)[k].texels = raw[k].texels
               /\ Decoded(keys)[k].decoded = Nothing => raw[k].decoded = Nothing /\ k \notin keys
  <2> SUFFICES ASSUME NEW k \in RawKeys, raw[k] # Nothing
               PROVE  /\ Decoded(keys)[k] # Nothing /\ Decoded(keys)[k].texels = raw[k].texels
                      /\ Decoded(keys)[k].decoded = Nothing => raw[k].decoded = Nothing /\ k \notin keys
    OBVIOUS
  <2>1. raw[k] \in Snapshots
    BY <1>a DEF Maybe
  <2>2. Identity(k.tex).stride \in Strides /\ Nothing \notin Strides
    BY <1>a, IdentityTyped, TextureAssumption DEF RawKeys, Identities
  <2>3. CASE k \in keys /\ raw[k].decoded = Nothing
    <3>1. Decoded(keys)[k] = [raw[k] EXCEPT !.decoded = Identity(k.tex).stride]
      BY <2>3 DEF Decoded
    <3>2. Decoded(keys)[k] \in Snapshots /\ Decoded(keys)[k].texels = raw[k].texels /\ Decoded(keys)[k].decoded = Identity(k.tex).stride
      BY <2>1, <2>2, <3>1 DEF Snapshots, Maybe
    <3> QED
      BY <2>2, <3>2, TextureAssumption
  <2>4. CASE ~(k \in keys /\ raw[k].decoded = Nothing)
    BY <2>4 DEF Decoded
  <2> QED
    BY <2>3, <2>4
<1>7. \A k \in RawKeys : \A keys : raw[k] = Nothing /\ keys \subseteq HeldKeys => Decoded(keys)[k] = Nothing
  <2>1. \A k \in HeldKeys : raw[k] # Nothing
    BY TextureAssumption DEF TypeInv, KeysHeld, HeldKeys, Held
  <2> QED
    BY <2>1 DEF Decoded
<1>8. ASSUME NEW done \in SUBSET HeldKeys, StartSoftware(done) PROVE AllExact' /\ Referenced(raw', states')
  <2>1. raw' = Decoded(done) /\ vram' = vram /\ rtt' = rtt /\ states' = states
    BY <1>8 DEF StartSoftware, scene
  <2>2. Ahead' = Ahead
    BY <2>1 DEF Ahead
  <2> QED
    BY <1>6, <1>7, <1>a, <2>1, <2>2 DEF AllExact, Referenced, Exact, Area
<1>9. ASSUME NEW dst \in Targets \cup {Display}, NEW v \in Values, DrawGpu(dst, v) PROVE AllExact' /\ Referenced(raw', states')
  <2>1. vram' = vram /\ states' = << >>
    BY <1>9 DEF DrawGpu, EndScene
  <2>2. \A k \in RawKeys : raw[k] # Nothing => Decoded(HeldKeys)[k].decoded # Nothing
    <3>1. \A k \in RawKeys : raw[k] # Nothing /\ raw[k].decoded = Nothing => k \in HeldKeys
      BY DEF Referenced, HeldKeys, Held
    <3> QED
      BY <1>6, <3>1
  <2>3. \A k \in RawKeys : raw'[k] # Nothing =>
          raw[k] # Nothing /\ raw'[k] = Decoded(HeldKeys)[k] /\ (dst # Display => Area(k) \cap TargetPages[dst] = {})
    BY <1>7, <1>9 DEF DrawGpu, Unwritten
  <2>4. \A g \in Ahead' : g \in Ahead \/ (dst # Display /\ g = dst)
    <3>1. \A g \in Targets : rtt'[g] = rtt[g] \/ rtt'[g] = Nothing \/ (dst # Display /\ g = dst)
      BY <1>9 DEF DrawGpu, Kept
    <3> QED
      BY <3>1 DEF Ahead
  <2>5. ASSUME setup.reliable, NEW k \in RawKeys, raw'[k] # Nothing PROVE Exact(k, raw'[k], vram', Ahead')
    <3>1. Exact(k, raw[k], vram, Ahead)
      BY <2>3, <2>5 DEF AllExact
    <3> QED
      BY <1>6, <2>1, <2>3, <2>4, <2>5, <3>1 DEF Exact
  <2>6. Referenced(raw', states')
    BY <2>2, <2>3 DEF Referenced
  <2> QED
    BY <1>a, <2>5, <2>6 DEF AllExact, Exact, Area
<1>10. ASSUME NEW i \in left \cup DOMAIN states, Look(i) PROVE AllExact' /\ Referenced(raw', states')
  <2>1. DOMAIN states' = DOMAIN states /\ \A j \in DOMAIN states : states'[j].key = states[j].key
    <3>1. i \in DOMAIN states
      BY <1>a DEF TypeOK
    <3> QED
      BY <1>10, <1>a, <3>1, StatesTyped DEF Look, DeferredStates
  <2> QED
    BY <1>1, <1>10, <2>1 DEF Look, memory
<1>11. ASSUME NEW dst \in Targets \cup {Display}, NEW v \in Values, DrawSoftware(dst, v) PROVE AllExact' /\ Referenced(raw', states')
  <2>1. \A k \in RawKeys : raw'[k] # Nothing =>
          raw[k] # Nothing /\ raw'[k] = raw[k] /\ raw[k].decoded # Nothing /\ (dst # Display => Area(k) \cap TargetPages[dst] = {})
    BY <1>11 DEF DrawSoftware, Unwritten, Owned
  <2>2. \A g \in Ahead' : g \in Ahead
    <3>1. \A g \in Targets : rtt'[g] = rtt[g] \/ rtt'[g] = Nothing
      BY <1>11 DEF DrawSoftware, Kept
    <3> QED
      BY <3>1 DEF Ahead
  <2>3. \A p \in Pages : (dst # Display => p \notin TargetPages[dst]) => vram'[p] = vram[p]
    BY <1>11 DEF DrawSoftware
  <2>4. ASSUME setup.reliable, NEW k \in RawKeys, raw'[k] # Nothing PROVE Exact(k, raw'[k], vram', Ahead')
    <3>1. Exact(k, raw[k], vram, Ahead) /\ Area(k) \subseteq Pages
      BY <2>1, <2>4, AreaIn DEF AllExact
    <3>2. \A p \in Area(k) : vram'[p] = vram[p]
      BY <2>1, <2>3, <2>4, <3>1
    <3> QED
      BY <2>1, <2>2, <2>4, <3>1, <3>2 DEF Exact
  <2>5. Referenced(raw', states')
    BY <2>1 DEF Referenced
  <2> QED
    BY <1>a, <2>4, <2>5 DEF AllExact, Exact, Area
<1>12. CASE Guest
  <2>1. ASSUME NEW field, NEW v, NewPalette(field, v) PROVE AllExact' /\ Referenced(raw', states')
    BY <1>1, <2>1 DEF NewPalette, memory
  <2>2. ASSUME NEW s, StrideWrite(s) PROVE AllExact' /\ Referenced(raw', states')
    BY <1>1, <2>2 DEF StrideWrite, memory
  <2> QED
    BY <1>2, <1>3, <1>12, <2>1, <2>2 DEF Guest, PaletteWrite, FormatWrite
<1>13. CASE Register
  <2>1. ASSUME NEW t, NEW translucent, Header(t, translucent) PROVE AllExact' /\ Referenced(raw', states')
    BY <1>1, <2>1 DEF Header, memory
  <2>2. CASE ListCont \/ DrawNow \/ Reuse
    BY <1>1, <2>2 DEF ListCont, DrawNow, Reuse, memory
  <2>3. CASE CaptureNothing \/ CapturePixels \/ CaptureDirect
    BY <1>5, <2>3 DEF CaptureNothing, CapturePixels, CaptureDirect, memory
  <2> QED
    BY <1>4, <1>13, <2>1, <2>2, <2>3 DEF Register
<1>14. CASE Finish
  BY <1>8, <1>9, <1>10, <1>11, <1>14 DEF Finish
<1>15. CASE UNCHANGED vars
  BY <1>1, <1>15 DEF vars
<1> QED
  BY <1>12, <1>13, <1>14, <1>15 DEF Next

LEMMA SnapshotInvariance == Spec => []SnapshotInv
<1>1. Init => SnapshotInv
  BY DEF Init, SnapshotInv, AllExact, Referenced
<1> QED
  BY <1>1, SnapshotStep, TypeInvariance, TargetInvariance, PTL DEF Spec

(* While readbacks work, a raw snapshot that a capture would find again is   *)
(* the texture as it is now                                                 *)
THEOREM SnapshotsCorrect == Spec => []SnapshotsCurrent
<1>1. TypeInv /\ SnapshotInv => SnapshotsCurrent
  <2> SUFFICES ASSUME TypeOK, SnapshotInv, NEW k \in RawKeys, raw[k] # Nothing
               PROVE  /\ raw[k].decoded = Nothing => Held(k)
                      /\ setup.reliable => raw[k].texels = [p \in Area(k) |-> Live[p]]
    BY DEF TypeInv, SnapshotsCurrent
  <2> QED
    BY SnapshotsLive DEF SnapshotInv, AllExact, Referenced, Held
<1> QED
  BY <1>1, SnapshotInvariance, TypeInvariance, PTL

-----------------------------------------------------------------------------
(* What a frame shows *)

(* A texture that samples a target, as the target holds it *)
Sampled(t, pictures) ==
  [id |-> [tex |-> t, stride |-> 0, format |-> 0],
   texels |-> [p \in TargetPages[Direct[t]] |-> pictures[Direct[t]].value], palette |-> 0]
Samples(t, pictures) == Direct[t] # Nothing /\ pictures[Direct[t]] # Nothing

(* What each renderer relies on in a state of this scene *)
Faithful(state, pictures) ==
  /\ setup.mode = "mt" => state.pixels = state.submitted
  /\ setup.mode = "gpu" =>
       /\ state.copy # Nothing => state.copy = state.submitted /\ ~Samples(state.tex, pictures)
       /\ state.copy = Nothing /\ Samples(state.tex, pictures) => state.submitted = Sampled(state.tex, pictures)
AllFaithful == setup.reliable => \A i \in DOMAIN states : Faithful(states[i], rtt)
FrameInv == AllFaithful /\ TexelsAsSubmitted

LEMMA DirectImage ==
  ASSUME TypeOK, NEW t \in Textures, Direct[t] # Nothing, NEW mem,
         \A p \in TargetPages[Direct[t]] : mem[p] = rtt[Direct[t]].value
  PROVE  Image(Identity(t), mem) = Sampled(t, rtt)
<1>1. t \notin Paletted \cup Strided /\ Covers[t][0] = TargetPages[Direct[t]]
  BY TextureAssumption
<1>2. Identity(t) = [tex |-> t, stride |-> 0, format |-> 0]
  BY <1>1 DEF Identity
<1>3. Area(Identity(t)) = TargetPages[Direct[t]]
  BY <1>1, <1>2 DEF Area
<1> QED
  BY <1>1, <1>2, <1>3 DEF Image, Sampled

(* A target that is on the GPU is what the guest sees in its pages *)
LEMMA LiveTarget ==
  ASSUME TypeOK, TargetInv, NEW g \in Targets, rtt[g] # Nothing, NEW p \in TargetPages[g]
  PROVE  Live[p] = rtt[g].value
<1>1. Apart(rtt) /\ Ahead \in SUBSET Ahead
  BY DEF TargetInv, TargetsCoherent, Apart
<1>2. Live = ReadInto(Ahead)
  BY DEF Live, ReadInto
<1>3. Live[p] = IF g \in Ahead THEN rtt[g].value ELSE vram[p]
  BY <1>1, <1>2, ReadIntoTargets
<1>4. g \notin Ahead => vram[p] = rtt[g].value
  BY DEF Ahead, TargetInv, TargetsCoherent
<1> QED
  BY <1>3, <1>4

(* Where nothing is ahead of VRAM any more, VRAM is what the guest saw *)
LEMMA LiveRead ==
  ASSUME TypeOK, TargetInv, NEW done \in SUBSET Ahead, NEW p \in Pages, \A g \in Ahead \ done : p \notin TargetPages[g]
  PROVE  ReadInto(done)[p] = Live[p]
<1>1. Apart(rtt)
  BY DEF TargetInv, TargetsCoherent, Apart
<1>2. CASE \E g \in done : p \in TargetPages[g]
  <2>1. PICK g \in done : p \in TargetPages[g]
    BY <1>2
  <2>2. g \in Targets /\ rtt[g] # Nothing /\ g \in Ahead
    BY <2>1 DEF Ahead
  <2> QED
    BY <1>1, <2>1, <2>2, LiveTarget, ReadIntoTargets
<1>3. CASE ~\E g \in done : p \in TargetPages[g]
  BY <1>3 DEF ReadInto, Live
<1> QED
  BY <1>2, <1>3

(* Nothing that happens within a scene puts a target back on the GPU, or     *)
(* changes the picture of one that stays                                    *)
Fades(before, after) == \A g \in Targets : after[g] # Nothing => before[g] # Nothing /\ after[g].value = before[g].value

LEMMA FaithfulFades ==
  ASSUME NEW before, NEW after, Fades(before, after), NEW state \in DeferredStates, Faithful(state, before)
  PROVE  Faithful(state, after)
<1>1. Direct[state.tex] # Nothing => Direct[state.tex] \in Targets
  BY TextureAssumption DEF DeferredStates
<1>2. Samples(state.tex, after) => Samples(state.tex, before) /\ Sampled(state.tex, after) = Sampled(state.tex, before)
  BY <1>1 DEF Samples, Sampled, Fades
<1> QED
  BY <1>2 DEF Faithful

LEMMA TargetsFade ==
  ASSUME TypeOK
  PROVE  /\ Fades(rtt, rtt) /\ \A written : Fades(rtt, Kept(written))
         /\ \A done \in SUBSET Ahead : Fades(rtt, Synced(done))
<1>1. Fades(rtt, rtt) /\ \A written : Fades(rtt, Kept(written))
  BY DEF Fades, Kept
<1>2. ASSUME NEW done \in SUBSET Ahead PROVE Fades(rtt, Synced(done))
  <2>1. \A g \in done : g \in Targets /\ rtt[g] # Nothing /\ rtt[g] \in Pictures
    BY TargetsTyped DEF Ahead
  <2>2. \A g \in done : [rtt[g] EXCEPT !.synced = TRUE].value = rtt[g].value
    BY <2>1 DEF Pictures
  <2> QED
    BY <2>1, <2>2 DEF Fades, Synced
<1> QED
  BY <1>1, <1>2

LEMMA LiveQuiet == ASSUME TypeOK, TargetInv, setup.mode # "gpu" PROVE Live = vram
<1>1. Live = ReadInto(Ahead) /\ Ahead \in SUBSET Ahead
  BY DEF Live, ReadInto
<1> QED
  BY <1>1, QuietReads

(* What is captured is the texture as the guest sees it *)
LEMMA CapturedFaithful ==
  ASSUME TypeInv, TargetInv, MembershipExact, FreshInv, [Next]_vars, CapturePixels
  PROVE  cache'.entry[cache'.active] = Blank.submitted
<1>a. TypeOK /\ setup.mode = "mt" /\ cache' = Prepared(Identity(surface.tex)) /\ vram' = vram /\ regs' = regs /\ surface # Nothing
  BY DEF TypeInv, CapturePixels, Deferring, Strip, Capture, memory
<1> DEFINE image == cache'.entry[cache'.active]
<1>1. /\ cache'.active \in Slots /\ cache'.active \notin cache'.dirty \cup cache'.outdated
      /\ image.id = Identity(surface.tex)
  BY <1>a, BlankTyped, PreparedActive
<1>2. image \in Images
  BY <1>a, BlankTyped, CacheKept
<1>3. AllFresh' /\ setup' = setup
  BY FreshStep, SetupStep DEF FreshInv
<1>4. Shows(image, vram, regs.palette)
  BY <1>a, <1>1, <1>2, <1>3, TextureAssumption DEF AllFresh
<1>5. image = Image(Identity(surface.tex), vram)
  BY <1>1, <1>2, <1>4 DEF Shows, Image, Images
<1>6. Live = vram
  BY <1>a, LiveQuiet
<1> QED
  BY <1>a, <1>5, <1>6 DEF Blank

LEMMA Retexelled ==
  ASSUME NEW id, NEW texels, texels = [p \in Area(id) |-> Live[p]]
  PROVE  [Image(id, vram) EXCEPT !.texels = texels] = Image(id, Live)
<1> DEFINE old == [p \in Area(id) |-> vram[p]]
           palette == IF id.tex \in Paletted THEN regs.palette ELSE 0
<1>1. Image(id, vram) = [id |-> id, texels |-> old, palette |-> palette]
  BY DEF Image
<1>2. Image(id, Live) = [id |-> id, texels |-> texels, palette |-> palette]
  BY DEF Image
<1> HIDE DEF old, palette
<1> QED
  BY <1>1, <1>2

LEMMA RawFaithful ==
  ASSUME TypeInv, TargetInv, SnapshotInv, setup.reliable, NEW k \in RawKeys, NEW gone \in BOOLEAN, CaptureRaw(k, gone)
  PROVE  [Image(Identity(surface.tex), vram) EXCEPT !.texels = raw'[k].texels] = Blank.submitted /\ Blank.submitted # Nothing
<1>a. TypeOK /\ setup.mode = "gpu" /\ k = RawKey(surface.tex) /\ surface # Nothing /\ Apart(rtt)
      /\ raw \in [RawKeys -> Maybe(Snapshots)]
  BY DEF TypeInv, TypeOK, CaptureRaw, Deferring, Strip, TargetInv, TargetsCoherent, Apart
<1>1. PICK done \in Readbacks(Area(k)) : vram' = ReadInto(done) /\ rtt' = Synced(done)
  BY DEF CaptureRaw
<1>2. done \subseteq Ahead /\ \A g \in Ahead \ done : TargetPages[g] \cap Area(k) = {}
  BY <1>1 DEF Readbacks
<1>3. Area(k) \subseteq Pages
  BY AreaIn
<1>4. raw'[k].texels = [p \in Area(k) |-> Live[p]]
  <2>1. CASE raw[k] # Nothing /\ ~gone
    <3>1. raw' = raw /\ Exact(k, raw[k], vram, Ahead)
      BY <2>1 DEF CaptureRaw, SnapshotInv, AllExact
    <3> QED
      BY <1>a, <3>1, SnapshotsLive
  <2>2. CASE ~(raw[k] # Nothing /\ ~gone)
    <3>1. raw'[k].texels = [p \in Area(k) |-> vram'[p]]
      BY <1>a, <2>2 DEF CaptureRaw
    <3>2. \A p \in Area(k) : ReadInto(done)[p] = Live[p]
      BY <1>a, <1>2, <1>3, LiveRead
    <3> QED
      BY <1>1, <3>1, <3>2
  <2> QED
    BY <2>1, <2>2
<1>5. Area(k) = Area(Identity(surface.tex))
  BY <1>a DEF Area, RawKey, Identity
<1>6. Image(Identity(surface.tex), Live) # Nothing
  <2>1. regs.palette \in Values /\ Live \in [Pages -> Values]
    BY <1>a, TargetsTyped DEF TypeOK
  <2> QED
    BY <1>a, <2>1, BlankTyped, ImageTyped
<1>7. [Image(Identity(surface.tex), vram) EXCEPT !.texels = raw'[k].texels] = Image(Identity(surface.tex), Live)
  <2> DEFINE id == Identity(surface.tex)
  <2>1. raw'[k].texels = [p \in Area(id) |-> Live[p]]
    BY <1>4, <1>5
  <2> HIDE DEF id
  <2>2. [Image(id, vram) EXCEPT !.texels = raw'[k].texels] = Image(id, Live)
    BY <2>1, Retexelled
  <2> QED
    BY <2>2 DEF id
<1>8. Blank.submitted = Image(Identity(surface.tex), Live)
  BY <1>a DEF Blank
<1> QED
  BY <1>6, <1>7, <1>8

(* What the GPU shows *)
LEMMA ShownFaithful ==
  ASSUME TypeOK, TargetInv, setup.mode = "gpu", NEW state \in DeferredStates, Faithful(state, rtt),
         DirectNow(state.tex) \/ state.copy # Nothing
  PROVE  /\ Shown(state).texels = state.submitted.texels /\ Shown(state).palette = state.submitted.palette
         /\ [Shown(state).id EXCEPT !.stride = 0] = [state.submitted.id EXCEPT !.stride = 0]
<1>a. DirectNow(state.tex) <=> Samples(state.tex, rtt)
  BY DEF DirectNow, Samples
<1>1. CASE DirectNow(state.tex)
  <2>1. state.submitted = Sampled(state.tex, rtt)
    BY <1>1, <1>a DEF Faithful
  <2>2. state.tex \in Textures /\ Direct[state.tex] # Nothing /\ Direct[state.tex] \in Targets
    BY <1>1, TextureAssumption DEF DirectNow, DeferredStates
  <2> DEFINE mem == [p \in Pages |-> rtt[Direct[state.tex]].value]
  <2>3. \A p \in TargetPages[Direct[state.tex]] : mem[p] = rtt[Direct[state.tex]].value
    BY <2>2, TextureAssumption
  <2>4. Shown(state) = Image(Identity(state.tex), mem)
    BY <1>1 DEF Shown
  <2> HIDE DEF mem
  <2>5. Shown(state) = state.submitted
    BY <2>1, <2>2, <2>3, <2>4, DirectImage
  <2> QED
    BY <2>5
<1>2. CASE ~DirectNow(state.tex)
  <2>1. state.copy = state.submitted /\ state.copy # Nothing
    BY <1>2 DEF Faithful
  <2>2. state.copy \in Images
    BY <2>1 DEF DeferredStates, Maybe
  <2>3. Shown(state) = [state.copy EXCEPT !.id.stride = Decode(state)]
    BY <1>2 DEF Shown
  <2> DEFINE stride == Decode(state)
             shown == [state.copy EXCEPT !.id.stride = stride]
  <2> HIDE DEF stride
  <2>4. state.copy.id \in Identities
    BY <2>2 DEF Images
  <2>5. /\ shown.texels = state.copy.texels /\ shown.palette = state.copy.palette
        /\ shown.id = [state.copy.id EXCEPT !.stride = stride]
    BY <2>2 DEF Images
  <2> HIDE DEF shown
  <2>6. [shown.id EXCEPT !.stride = 0] = [state.copy.id EXCEPT !.stride = 0]
    BY <2>4, <2>5 DEF Identities
  <2>7. Shown(state) = shown
    BY <2>3 DEF shown, stride
  <2> QED
    BY <2>1, <2>5, <2>6, <2>7
<1> QED
  BY <1>1, <1>2

LEMMA FrameStep == TypeInv /\ TargetInv /\ MembershipExact /\ FreshInv /\ SnapshotInv /\ FrameInv /\ [Next]_vars => FrameInv'
<1> SUFFICES ASSUME TypeInv, TargetInv, MembershipExact, FreshInv, SnapshotInv, AllFaithful, TexelsAsSubmitted, [Next]_vars
             PROVE  FrameInv'
  BY DEF FrameInv
<1>a. TypeOK /\ setup' = setup
  BY SetupStep DEF TypeInv
<1>b. \A i \in DOMAIN states : states[i] \in DeferredStates
  BY <1>a, StatesTyped
<1>1. ASSUME frame' = Nothing \/ frame' = frame, Fades(rtt, rtt'), DOMAIN states' = DOMAIN states,
             \A i \in DOMAIN states : /\ states'[i].tex = states[i].tex /\ states'[i].copy = states[i].copy
                                      /\ states'[i].submitted = states[i].submitted
                                      /\ states'[i].pixels = states[i].pixels \/ setup.mode # "mt"
      PROVE  FrameInv'
  <2>1. ASSUME setup.reliable, NEW i \in DOMAIN states PROVE Faithful(states'[i], rtt')
    <3>1. Faithful(states[i], rtt)
      BY <2>1 DEF AllFaithful
    <3>2. Faithful(states[i], rtt')
      BY <1>1, <1>b, <3>1, FaithfulFades
    <3> QED
      BY <1>1, <3>2 DEF Faithful
  <2>2. AllFaithful'
    BY <1>1, <1>a, <2>1 DEF AllFaithful, Faithful, Samples, Sampled
  <2>3. TexelsAsSubmitted'
    BY <1>1, <1>a DEF TexelsAsSubmitted
  <2> QED
    BY <2>2, <2>3 DEF FrameInv
<1>2. ASSUME NEW state, Capture(state), frame' = Nothing, Fades(rtt, rtt'), setup.reliable => Faithful(state, rtt')
      PROVE  FrameInv'
  <2>1. \A i \in DOMAIN states' : (i \in DOMAIN states /\ states'[i] = states[i]) \/ states'[i] = state
    BY <1>2, <1>a DEF Capture, TypeOK
  <2>2. ASSUME setup.reliable, NEW i \in DOMAIN states PROVE Faithful(states[i], rtt')
    BY <1>2, <1>b, <2>2, FaithfulFades DEF AllFaithful
  <2>3. AllFaithful'
    BY <1>2, <1>a, <2>1, <2>2 DEF AllFaithful, Faithful, Samples, Sampled
  <2>4. TexelsAsSubmitted'
    BY <1>2 DEF TexelsAsSubmitted
  <2> QED
    BY <2>3, <2>4 DEF FrameInv
<1>3. ASSUME EndScene, TexelsAsSubmitted' PROVE FrameInv'
  BY <1>3 DEF EndScene, FrameInv, AllFaithful
<1>4. CASE Guest
  <2>1. ASSUME NEW p \in Pages, NEW v \in Values, GuestWrite(p, v) PROVE FrameInv'
    <3>1. frame' = Nothing /\ rtt' = Kept({p}) /\ states' = Orphaned({p})
      BY <2>1 DEF GuestWrite, Quiet
    <3>2. DOMAIN states' = DOMAIN states /\
          \A i \in DOMAIN states : /\ states'[i].tex = states[i].tex /\ states'[i].copy = states[i].copy
                                   /\ states'[i].submitted = states[i].submitted /\ states'[i].pixels = states[i].pixels
      BY <1>b, <3>1 DEF Orphaned, DeferredStates
    <3>3. Fades(rtt, rtt')
      BY <1>a, <3>1, TargetsFade
    <3> QED
      BY <1>1, <3>1, <3>2, <3>3
  <2>2. ASSUME NEW p \in Pages, GuestRead(p) PROVE FrameInv'
    BY <1>1, <1>a, <2>2, TargetsTyped, TargetsFade DEF GuestRead, Quiet, scene
  <2>3. ASSUME NEW field, NEW v, NewPalette(field, v) PROVE FrameInv'
    BY <1>1, <1>a, <2>3, TargetsFade DEF NewPalette, Quiet, memory
  <2>4. ASSUME NEW s, StrideWrite(s) PROVE FrameInv'
    BY <1>1, <1>a, <2>4, TargetsFade DEF StrideWrite, Quiet, memory
  <2> QED
    BY <1>4, <2>1, <2>2, <2>3, <2>4 DEF Guest, PaletteWrite, FormatWrite
<1>5. ASSUME NEW t, NEW translucent, Header(t, translucent) PROVE FrameInv'
  BY <1>1, <1>a, <1>5, TargetsFade DEF Header, Registering, memory
<1>6. CASE ListCont \/ DrawNow \/ Reuse
  BY <1>1, <1>a, <1>6, TargetsFade DEF ListCont, DrawNow, Reuse, Deferring, Strip, Registering, memory
<1>7. CASE CaptureNothing
  <2>1. Faithful(Blank, rtt')
    BY <1>7 DEF CaptureNothing, Faithful
  <2> QED
    BY <1>2, <1>a, <1>7, <2>1, TargetsFade DEF CaptureNothing, Deferring, Strip, Registering, memory
<1>8. CASE CapturePixels
  <2>1. cache'.entry[cache'.active] = Blank.submitted
    BY <1>8, CapturedFaithful
  <2> DEFINE state == [Blank EXCEPT !.pixels = cache'.entry[cache'.active]]
  <2>2. state.pixels = state.submitted
    BY <2>1 DEF Blank
  <2>3. Capture(state) /\ setup.mode = "mt" /\ frame' = Nothing /\ rtt' = rtt
    BY <1>8 DEF CapturePixels, Deferring, Strip, Registering, memory
  <2> HIDE DEF state
  <2> QED
    BY <1>2, <1>a, <2>2, <2>3, TargetsFade DEF Faithful
<1>9. CASE CaptureDirect
  <2>1. Capture(Blank) /\ setup.mode = "gpu" /\ frame' = Nothing /\ rtt' = rtt /\ surface # Nothing /\ DirectNow(surface.tex)
    BY <1>9 DEF CaptureDirect, Deferring, Strip, Registering, memory
  <2>2. surface.tex \in Textures /\ Direct[surface.tex] # Nothing /\ Direct[surface.tex] \in Targets /\ rtt[Direct[surface.tex]] # Nothing
    BY <1>a, <2>1, BlankTyped, TextureAssumption DEF DirectNow
  <2>3. \A p \in TargetPages[Direct[surface.tex]] : Live[p] = rtt[Direct[surface.tex]].value
    BY <1>a, <2>2, LiveTarget
  <2>4. Blank.submitted = Sampled(surface.tex, rtt) /\ Blank.copy = Nothing /\ Blank.tex = surface.tex
    BY <1>a, <2>1, <2>2, <2>3, DirectImage DEF Blank
  <2> QED
    BY <1>2, <1>a, <2>1, <2>4, TargetsFade DEF Faithful
<1>10. ASSUME NEW k \in RawKeys, NEW gone \in BOOLEAN, CaptureRaw(k, gone) PROVE FrameInv'
  <2> DEFINE image == [Image(Identity(surface.tex), vram) EXCEPT !.texels = raw'[k].texels]
             state == [Blank EXCEPT !.key = k, !.decoded = raw'[k].decoded, !.ok = surface.tex \in Supported, !.copy = image]
  <2>1. Capture(state) /\ setup.mode = "gpu" /\ frame' = Nothing /\ ~DirectNow(surface.tex) /\ surface # Nothing
    BY <1>10 DEF CaptureRaw, Deferring, Strip, Registering
  <2>2. Fades(rtt, rtt')
    BY <1>10, <1>a, TargetsTyped, TargetsFade DEF CaptureRaw
  <2>3. setup.reliable => image = Blank.submitted /\ Blank.submitted # Nothing
    BY <1>10, RawFaithful
  <2>4. ~Samples(surface.tex, rtt')
    <3>1. surface.tex \in Textures
      BY <1>a, <2>1, BlankTyped
    <3>2. Direct[surface.tex] # Nothing => Direct[surface.tex] \in Targets
      BY <3>1, TextureAssumption
    <3> QED
      BY <2>1, <2>2, <3>2 DEF Samples, DirectNow, Fades
  <2> HIDE DEF image
  <2>5. state.copy = image /\ state.submitted = Blank.submitted /\ state.tex = surface.tex
    BY DEF Blank
  <2> HIDE DEF state
  <2>6. setup.reliable => Faithful(state, rtt')
    BY <2>1, <2>3, <2>4, <2>5 DEF Faithful
  <2> QED
    BY <1>2, <2>1, <2>2, <2>6
<1>11. ASSUME NEW dst, NEW v, DrawGpu(dst, v) PROVE FrameInv'
  <2>1. /\ setup.mode = "gpu" /\ EndScene
        /\ frame' = [how |-> "gpu", shown |-> [i \in DOMAIN states |-> Shown(states[i])],
                     submitted |-> [i \in DOMAIN states |-> states[i].submitted]]
        /\ \A i \in DOMAIN states : DirectNow(states[i].tex) \/ states[i].copy # Nothing
    BY <1>11 DEF DrawGpu
  <2>2. ASSUME setup.reliable, NEW i \in DOMAIN states
        PROVE  /\ Shown(states[i]).texels = states[i].submitted.texels /\ Shown(states[i]).palette = states[i].submitted.palette
               /\ [Shown(states[i]).id EXCEPT !.stride = 0] = [states[i].submitted.id EXCEPT !.stride = 0]
    BY <1>a, <1>b, <2>1, <2>2, ShownFaithful DEF AllFaithful
  <2>3. TexelsAsSubmitted'
    BY <1>a, <2>1, <2>2 DEF TexelsAsSubmitted
  <2> QED
    BY <1>3, <2>1, <2>3
<1>12. ASSUME NEW done, StartSoftware(done) PROVE FrameInv'
  BY <1>1, <1>a, <1>12, TargetsFade DEF StartSoftware, scene
<1>13. ASSUME NEW i \in left \cup DOMAIN states, Look(i) PROVE FrameInv'
  <2>1. i \in DOMAIN states
    BY <1>a DEF TypeOK
  <2>2. rtt' = rtt /\ frame' = Nothing
    BY <1>13 DEF Look, memory
  <2>3. DOMAIN states' = DOMAIN states /\
        \A j \in DOMAIN states : /\ states'[j].tex = states[j].tex /\ states'[j].copy = states[j].copy
                                 /\ states'[j].submitted = states[j].submitted
                                 /\ states'[j].pixels = states[j].pixels \/ setup.mode # "mt"
    BY <1>13, <1>b, <2>1 DEF Look, DeferredStates
  <2> QED
    BY <1>1, <1>a, <2>2, <2>3, TargetsFade
<1>14. ASSUME NEW dst, NEW v, DrawSoftware(dst, v) PROVE FrameInv'
  <2>1. EndScene /\ frame' = IF setup.mode = "soft" THEN Nothing
              ELSE [how |-> IF setup.mode = "mt" THEN "mt" ELSE "fallback",
                    shown |-> [i \in DOMAIN states |-> states[i].pixels],
                    submitted |-> [i \in DOMAIN states |-> states[i].submitted]]
    BY <1>14 DEF DrawSoftware
  <2>2. setup.reliable /\ setup.mode = "mt" => \A i \in DOMAIN states : states[i].pixels = states[i].submitted
    BY DEF AllFaithful, Faithful
  <2>3. TexelsAsSubmitted'
    BY <1>a, <2>1, <2>2 DEF TexelsAsSubmitted
  <2> QED
    BY <1>3, <2>1, <2>3
<1>15. CASE UNCHANGED vars
  BY <1>1, <1>a, <1>15, TargetsFade DEF vars
<1>16. CASE Register
  BY <1>5, <1>6, <1>7, <1>8, <1>9, <1>10, <1>16 DEF Register
<1>17. CASE Finish
  BY <1>11, <1>12, <1>13, <1>14, <1>17 DEF Finish
<1> QED
  BY <1>4, <1>15, <1>16, <1>17 DEF Next

(* A frame of the GPU or of the threads shows every surface with the texture *)
(* memory and the palette of the moment it was registered                   *)
THEOREM TexelsCorrect == Spec => []TexelsAsSubmitted
<1>1. Init => FrameInv
  BY DEF Init, FrameInv, AllFaithful, TexelsAsSubmitted
<1>2. FrameInv => TexelsAsSubmitted
  BY DEF FrameInv
<1> QED
  BY <1>1, <1>2, FrameStep, TypeInvariance, TargetInvariance, TableInvariance, FreshInvariance, SnapshotInvariance, PTL DEF Spec


-----------------------------------------------------------------------------
(* Reuse of a deferred state *)

(* A readback changes where the picture is, not what the guest sees *)
LEMMA LiveKept ==
  ASSUME TypeOK, TargetInv, NEW done \in SUBSET Ahead, vram' = ReadInto(done), rtt' = Synced(done)
  PROVE  Live' = Live
<1>a. Apart(rtt) /\ \A g \in Ahead : g \in Targets /\ rtt[g] # Nothing
  BY DEF TargetInv, TargetsCoherent, Apart, Ahead
<1>1. Ahead' = Ahead \ done /\ \A g \in Ahead \ done : rtt'[g] = rtt[g]
  <2>1. \A g \in Targets : rtt'[g] = IF g \in done THEN [rtt[g] EXCEPT !.synced = TRUE] ELSE rtt[g]
    BY DEF Synced
  <2>2. \A g \in done : rtt'[g].synced
    <3> SUFFICES ASSUME NEW g \in done PROVE rtt'[g].synced
      OBVIOUS
    <3>1. g \in Targets /\ rtt[g] \in Pictures
      BY <1>a, TargetsTyped
    <3> QED
      BY <2>1, <3>1 DEF Pictures
  <2> QED
    BY <1>a, <2>1, <2>2 DEF Ahead
<1>2. ASSUME NEW p \in Pages PROVE Live'[p] = Live[p]
  <2>1. CASE \E g \in Ahead' : p \in TargetPages[g]
    <3> DEFINE g == CHOOSE h \in Ahead' : p \in TargetPages[h]
    <3>1. g \in Ahead' /\ p \in TargetPages[g]
      BY <2>1
    <3>2. Live'[p] = rtt'[g].value
      BY <2>1 DEF Live
    <3> HIDE DEF g
    <3> QED
      BY <1>1, <1>a, <3>1, <3>2, LiveTarget
  <2>2. CASE ~\E g \in Ahead' : p \in TargetPages[g]
    <3>1. Live'[p] = vram'[p]
      BY <2>2 DEF Live
    <3> QED
      BY <1>1, <2>2, <3>1, LiveRead
  <2> QED
    BY <2>1, <2>2
<1> QED
  BY <1>2 DEF Live

(* The state the GPU's renderer reuses stands for the surface's texture *)
Backs(submitted, id, mem) ==
  /\ submitted.id = id /\ submitted.palette = Image(id, mem).palette
  /\ ~setup.immediate => submitted = Image(id, mem)
SubmittedBacks ==
  setup.mode = "gpu" /\ cached # 0 =>
    surface # Nothing /\ Backs(states[cached].submitted, Identity(surface.tex), Live)

LEMMA BacksStays ==
  ASSUME SubmittedBacks, [Next]_vars, cached' = cached, surface' = surface, regs' = regs,
         cached # 0 => states'[cached].submitted = states[cached].submitted,
         setup.immediate \/ Live' = Live
  PROVE  SubmittedBacks'
<1>1. setup' = setup
  BY SetupStep
<1>2. Identity(surface.tex)' = Identity(surface.tex)
  BY DEF Identity
<1>3. \A id : Image(id, Live)'.palette = Image(id, Live).palette
  BY DEF Image
<1>4. Live' = Live => \A id : Image(id, Live)' = Image(id, Live)
  BY DEF Image, Area
<1> QED
  BY <1>1, <1>2, <1>3, <1>4 DEF SubmittedBacks, Backs

LEMMA BacksCapture ==
  ASSUME TypeOK, [Next]_vars, surface # Nothing, setup.mode = "gpu", NEW state, Capture(state),
         state.submitted = Image(Identity(surface.tex), Live), Live' = Live
  PROVE  SubmittedBacks'
<1>1. /\ states' = Append(states, state) /\ cached' = Len(states) + 1
      /\ surface' = surface /\ regs' = regs /\ setup' = setup
  BY SetupStep DEF Capture
<1>2. states'[cached'] = state
  BY <1>1 DEF TypeOK
<1>3. Identity(surface.tex)' = Identity(surface.tex)
  BY <1>1 DEF Identity
<1>4. Image(Identity(surface.tex), Live)' = Image(Identity(surface.tex), Live)
  BY <1>1, <1>3 DEF Image, Area
<1>5. Image(Identity(surface.tex), Live).id = Identity(surface.tex)
  BY DEF Image
<1> QED
  BY <1>1, <1>2, <1>3, <1>4, <1>5 DEF SubmittedBacks, Backs

LEMMA SubmittedStep == TypeInv /\ TargetInv /\ SubmittedBacks /\ [Next]_vars => SubmittedBacks'
<1> SUFFICES ASSUME TypeOK, TargetInv, SubmittedBacks, [Next]_vars PROVE SubmittedBacks'
  BY DEF TypeInv
<1>a. setup' = setup
  BY SetupStep
<1>b. cached # 0 => cached \in DOMAIN states
  BY StatesTyped DEF TypeOK
<1>1. ASSUME cached' = 0 PROVE SubmittedBacks'
  BY <1>1 DEF SubmittedBacks
<1>2. ASSUME cached' = cached, surface' = surface, regs' = regs, states' = states, vram' = vram, rtt' = rtt PROVE SubmittedBacks'
  <2>1. Live' = Live
    BY <1>2 DEF Live, Ahead
  <2> QED
    BY <1>2, <2>1, BacksStays
<1>3. ASSUME NEW p \in Pages, NEW v \in Values, GuestWrite(p, v) PROVE SubmittedBacks'
  <2>1. surface' = surface /\ regs' = regs /\ states' = Orphaned({p}) /\ (cached' = 0 \/ cached' = cached)
        /\ (setup.immediate \/ surface = Nothing)
    BY <1>3 DEF GuestWrite, Quiet
  <2>2. CASE cached' = cached /\ setup.immediate
    <3>1. cached # 0 => states'[cached].submitted = states[cached].submitted
      BY <1>b, <2>1, StatesTyped DEF Orphaned, DeferredStates
    <3> QED
      BY <2>1, <2>2, <3>1, BacksStays
  <2>3. CASE cached' = cached /\ surface = Nothing
    BY <1>a, <2>3 DEF SubmittedBacks
  <2> QED
    BY <1>1, <2>1, <2>2, <2>3
<1>4. ASSUME NEW p \in Pages, GuestRead(p) PROVE SubmittedBacks'
  <2>1. PICK done \in Readbacks({p}) : vram' = ReadInto(done) /\ rtt' = Synced(done)
    BY <1>4 DEF GuestRead
  <2>2. done \in SUBSET Ahead
    BY DEF Readbacks
  <2>3. Live' = Live
    BY <2>1, <2>2, LiveKept
  <2> QED
    BY <1>4, <2>3, BacksStays DEF GuestRead, scene
<1>5. ASSUME CaptureDirect PROVE SubmittedBacks'
  <2>1. surface # Nothing /\ setup.mode = "gpu" /\ Capture(Blank) /\ vram' = vram /\ rtt' = rtt
    BY <1>5 DEF CaptureDirect, Deferring, Strip, memory
  <2>2. Live' = Live
    BY <2>1 DEF Live, Ahead
  <2>3. Blank.submitted = Image(Identity(surface.tex), Live)
    BY <2>1 DEF Blank
  <2> QED
    BY <2>1, <2>2, <2>3, BacksCapture
<1>6. ASSUME NEW k \in RawKeys, NEW gone, CaptureRaw(k, gone) PROVE SubmittedBacks'
  <2>1. surface # Nothing /\ setup.mode = "gpu"
    BY <1>6 DEF CaptureRaw, Deferring, Strip
  <2>2. PICK done \in Readbacks(Area(k)) : vram' = ReadInto(done) /\ rtt' = Synced(done)
    BY <1>6 DEF CaptureRaw
  <2>3. Live' = Live
    BY <2>2, LiveKept DEF Readbacks
  <2> DEFINE state == [Blank EXCEPT !.key = k, !.decoded = raw'[k].decoded, !.ok = surface.tex \in Supported,
                           !.copy = [Image(Identity(surface.tex), vram) EXCEPT !.texels = raw'[k].texels]]
  <2>4. Capture(state)
    BY <1>6 DEF CaptureRaw
  <2>5. state.submitted = Image(Identity(surface.tex), Live)
    BY <2>1 DEF Blank
  <2> HIDE DEF state
  <2> QED
    BY <2>1, <2>3, <2>4, <2>5, BacksCapture
<1>7. ASSUME NEW i, Look(i) PROVE SubmittedBacks'
  <2>1. cached' = cached /\ surface' = surface /\ regs' = regs /\ vram' = vram /\ rtt' = rtt
    BY <1>7 DEF Look, memory
  <2>2. cached # 0 => states'[cached].submitted = states[cached].submitted
    BY <1>7, <1>b, StatesTyped DEF Look, DeferredStates
  <2>3. Live' = Live
    BY <2>1 DEF Live, Ahead
  <2> QED
    BY <2>1, <2>2, <2>3, BacksStays
<1>8. ASSUME CapturePixels \/ CaptureNothing PROVE SubmittedBacks'
  BY <1>8, <1>a DEF SubmittedBacks, CapturePixels, CaptureNothing
<1>9. CASE Guest
  BY <1>1, <1>3, <1>4, <1>9 DEF Guest, PaletteWrite, FormatWrite, NewPalette, StrideWrite
<1>10. CASE Register
  BY <1>1, <1>2, <1>5, <1>6, <1>8, <1>10 DEF Register, Header, ListCont, DrawNow, Reuse, memory
<1>11. CASE Finish
  BY <1>1, <1>2, <1>7, <1>11 DEF Finish, DrawGpu, StartSoftware, DrawSoftware, EndScene, scene
<1>12. CASE UNCHANGED vars
  BY <1>2, <1>12 DEF vars
<1> QED
  BY <1>9, <1>10, <1>11, <1>12 DEF Next

LEMMA SubmittedInvariance == Spec => []SubmittedBacks
<1>1. Init => SubmittedBacks
  BY DEF Init, SubmittedBacks
<1> QED
  BY <1>1, SubmittedStep, TypeInvariance, TargetInvariance, PTL DEF Spec

(* A deferred state that is reused without a look is that of the surface's   *)
(* texture, palette and stride as they are; of the texels only the GPU's     *)
(* renderer under immediate parsing cannot say so                           *)
THEOREM ReuseCorrect == Spec => []ReuseIsCurrent
<1>1. TypeInv /\ TargetInv /\ ActiveBacks /\ SubmittedBacks /\ CleanIsFresh => ReuseIsCurrent
  <2> SUFFICES ASSUME TypeOK, TargetInv, ActiveBacks, SubmittedBacks, CleanIsFresh, cached # 0
               PROVE  ReuseIsCurrent
    BY DEF TypeInv, ReuseIsCurrent
  <2>1. CASE setup.mode = "mt"
    <3>1. cache.entry[cache.active] # Nothing /\ ~Dirty(cache.active) /\ cache.active \in Slots
      BY <2>1, TextureAssumption DEF TypeOK, ActiveBacks, Dirty
    <3>2. cache.entry[cache.active] = Image(cache.entry[cache.active].id, vram) /\ Live = vram
      BY <2>1, <3>1, LiveQuiet DEF CleanIsFresh
    <3> QED
      BY <2>1, <3>2 DEF ActiveBacks, ReuseIsCurrent
  <2>2. CASE setup.mode = "gpu"
    <3>1. Image(Identity(surface.tex), Live).id = Identity(surface.tex)
      BY DEF Image
    <3> QED
      BY <2>2, <3>1 DEF SubmittedBacks, Backs, ReuseIsCurrent
  <2> QED
    BY <2>1, <2>2 DEF ReuseIsCurrent
<1> QED
  BY <1>1, TypeInvariance, TargetInvariance, ActiveInvariance, SubmittedInvariance, FreshCorrect, PTL

(* No copy of a texture is served once memory or palette make it another,    *)
(* except for its texels where a fallback of the GPU left an entry, where   *)
(* the GPU's renderer parses at once, and where a readback failed           *)
THEOREM CopiesCorrect == Spec => []CopiesCurrent
<1>1. CleanIsFresh /\ ReuseIsCurrent /\ SnapshotsCurrent => CopiesCurrent
  BY DEF CopiesCurrent
<1> QED
  BY <1>1, FreshCorrect, ReuseCorrect, SnapshotsCorrect, PTL
=============================================================================
