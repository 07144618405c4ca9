----------------------------- MODULE TextureCache -----------------------------
(***************************************************************************)
(* Who owns the pixels of a PVR texture, in runtime/dc_runtime.cpp.        *)
(*                                                                         *)
(* VRAM is copied in four places: the decoded-texture cache, whose entries *)
(* a write dirties through the page -> slot membership table; the texture  *)
(* snapshots of the surfaces registered since the last frame; the raw      *)
(* snapshots that the GPU path keeps by texture and page epoch; and the    *)
(* render targets that stay on the GPU until somebody reads them.          *)
(*                                                                         *)
(* One thread runs all of it.  setup is the configuration of the run: the  *)
(* renderer (mode), whether packets are parsed as they arrive or replayed  *)
(* when a list ends (immediate), whether every readback of a render target *)
(* succeeds (reliable), and the inputs that the guest program uses, with   *)
(* the number of surfaces in a frame as a bound.                           *)
(* Replay is atomic with respect to guest writes: then the guest acts only *)
(* while no list is open.                                                  *)
(*                                                                         *)
(* VRAM is a value per 4 KiB page.  An epoch only serves to be compared    *)
(* with a later one, so it is kept as what it implies: a snapshot is       *)
(* dropped when one of its pages is written, an entry is outdated when the *)
(* palette is.  Geometry, sorting and pixels are left out; what a scene    *)
(* renders is any value.                                                   *)
(***************************************************************************)
EXTENDS Naturals, Sequences

CONSTANTS
  Setups,               \* the configurations and guest programs to look at
  Pages, Values,        \* VRAM pages and what a page can hold; 0 at power on
  Textures,             \* TSP/TCW words of a surface, registers apart
  Paletted, Strided,    \* textures that depend on the palette, on the stride register
  Supported,            \* textures that the GPU can decode
  Strides, Formats,     \* values of the two registers; stride 0: the texture's own width
  Covers,               \* [Textures -> [Strides -> SUBSET Pages]]
  Sets, WayCount,       \* geometry of the decoded-texture cache
  SetOf,                \* the hash of an identity
  Targets, TargetPages, \* where scenes can be rendered to in VRAM
  Direct,               \* the target a texture can sample directly, or Nothing
  Display,              \* the scene goes to the screen
  Nothing

Modes == {"gpu", "mt", "soft"}
Configurations ==
  [mode : Modes, immediate : BOOLEAN, reliable : BOOLEAN,
   textures : SUBSET Textures, palettes : SUBSET Values, strides : SUBSET Strides, surfaces : Nat]
Identities == [tex : Textures, stride : Strides, format : Formats]
RawKeys == [tex : Textures, stride : Strides]
Slots == Sets \X (0 .. WayCount - 1)
Texels == UNION {[area -> Values] : area \in SUBSET Pages}
Images == [id : Identities, texels : Texels, palette : Values]
Pictures == [value : Values, synced : BOOLEAN]
Maybe(S) == S \cup {Nothing}
Snapshots == [texels : Texels, decoded : Maybe(Strides)]

Caches ==
  [entry : [Slots -> Maybe(Images)], dirty : SUBSET Slots, outdated : SUBSET Slots,
   members : [Pages -> SUBSET Slots], active : Maybe(Slots), nextWay : [Sets -> 0 .. WayCount - 1]]
DeferredStates ==
  [tex : Textures, key : Maybe(RawKeys), copy : Maybe(Images), decoded : Maybe(Strides),
   pixels : Maybe(Images), ok : BOOLEAN, submitted : Maybe(Images)]

ASSUME TextureAssumption ==
  /\ Setups \subseteq Configurations
  /\ 0 \in Values /\ 0 \in Strides /\ 0 \in Formats
  /\ Paletted \subseteq Textures /\ Strided \subseteq Textures /\ Supported \subseteq Textures
  /\ Covers \in [Textures -> [Strides -> SUBSET Pages]]
  /\ WayCount \in Nat \ {0} /\ SetOf \in [Identities -> Sets]
  /\ TargetPages \in [Targets -> SUBSET Pages]
  /\ Direct \in [Textures -> Targets \cup {Nothing}]
  /\ \A t \in Textures : Direct[t] # Nothing =>
       t \notin Paletted \cup Strided /\ Covers[t][0] = TargetPages[Direct[t]]
  /\ Display \notin Targets /\ Nothing \notin Targets /\ Nothing \notin Strides /\ Nothing \notin Slots /\ Nothing \notin RawKeys
  /\ Nothing \notin Images /\ Nothing \notin Pictures /\ Nothing \notin Snapshots

VARIABLES
  setup,      \* the configuration of the run: never changes
  vram,       \* runtime.vram
  regs,       \* palette RAM, palette format and texture stride
  cache,      \* decoded textures; active is 0xFF (Nothing) or a slot
  rtt,        \* render targets on the GPU: a value, and whether VRAM has it
  raw,        \* raw snapshots that are still referenced; decoded: the stride the
              \*   GPU texture made from one was decoded with
  surface,    \* the polygon header in force; Nothing while no list is open
  states,     \* pvr_deferred_states
  cached,     \* pvr_deferred_cached_state_index; 0 when invalid
  geometry,   \* the scene has primitives
  phase,      \* "software" while the CPU looks at the deferred states one by one
  left,       \*   the states it has not looked at
  frame       \* the frame just drawn; nothing in the code depends on it

memory == <<vram, rtt, raw>>
scene == <<surface, states, cached, geometry>>
submission == <<phase, left>>
vars == <<setup, vram, regs, cache, rtt, raw, surface, states, cached, geometry, phase, left, frame>>

Init ==
  /\ setup \in Setups
  /\ vram = [p \in Pages |-> 0]
  /\ regs = [palette |-> 0, format |-> 0, stride |-> 0]
  /\ cache = [entry |-> [k \in Slots |-> Nothing], dirty |-> {}, outdated |-> {},
              members |-> [p \in Pages |-> {}], active |-> Nothing, nextWay |-> [s \in Sets |-> 0]]
  /\ rtt = [g \in Targets |-> Nothing] /\ raw = [k \in RawKeys |-> Nothing]
  /\ surface = Nothing /\ states = << >> /\ cached = 0 /\ geometry = FALSE
  /\ phase = "guest" /\ left = {} /\ frame = Nothing

-----------------------------------------------------------------------------
(* Textures *)

(* What the cache knows a texture by, under the registers as they are *)
Identity(t) ==
  [tex |-> t, stride |-> IF t \in Strided THEN regs.stride ELSE 0,
   format |-> IF t \in Paletted THEN regs.format ELSE 0]

Area(k) == Covers[k.tex][k.stride]
RawKey(t) == [tex |-> t, stride |-> Identity(t).stride]

(* A texture as decoded from mem *)
Image(id, mem) ==
  [id |-> id, texels |-> [p \in Area(id) |-> mem[p]], palette |-> IF id.tex \in Paletted THEN regs.palette ELSE 0]

(* Render targets that VRAM does not have, and memory as the guest sees it *)
Ahead == {g \in Targets : rtt[g] # Nothing /\ ~rtt[g].synced}
Live ==
  [p \in Pages |-> IF \E g \in Ahead : p \in TargetPages[g]
                   THEN rtt[CHOOSE g \in Ahead : p \in TargetPages[g]].value ELSE vram[p]]

DirectNow(t) == Direct[t] # Nothing /\ rtt[Direct[t]] # Nothing

-----------------------------------------------------------------------------
(* pvr_mark_vram_write *)

(* mutant: only targets that are written whole are dropped *)
KeptPartial(written) == [g \in Targets |-> IF TargetPages[g] \subseteq written THEN Nothing ELSE rtt[g]]
(* mutant: only the first page of a write counts *)
DirtiedOnce(written) == [cache EXCEPT !.dirty = @ \cup cache.members[CHOOSE p \in written : TRUE]]
(* mutant: a snapshot is dropped when all its pages are written *)
UnwrittenWhole(snapshots, written) ==
  [k \in RawKeys |-> IF Area(k) \subseteq written THEN Nothing ELSE snapshots[k]]

Kept(written) == [g \in Targets |-> IF TargetPages[g] \cap written # {} THEN Nothing ELSE rtt[g]]
Dirtied(written) == [cache EXCEPT !.dirty = @ \cup UNION {cache.members[p] : p \in written}]
Unwritten(snapshots, written) ==
  [k \in RawKeys |-> IF Area(k) \cap written # {} THEN Nothing ELSE snapshots[k]]

(* A state keeps its snapshot when no later capture can find it any more *)
Orphaned(written) ==
  [i \in DOMAIN states |->
     IF states[i].key # Nothing /\ Area(states[i].key) \cap written # {}
     THEN [states[i] EXCEPT !.key = Nothing] ELSE states[i]]

-----------------------------------------------------------------------------
(* pvr_prepare_texture_cache *)

SlotsOf(s) == {s} \X (0 .. WayCount - 1)
FirstOf(ks) == CHOOSE k \in ks : \A j \in ks : k[2] <= j[2]
Dirty(k) == k \in cache.dirty \cup cache.outdated

(* mutant: a dirty entry is not refreshed in place *)
MatchingClean(id) == {k \in SlotsOf(SetOf[id]) : cache.entry[k] # Nothing /\ cache.entry[k].id = id /\ ~Dirty(k)}

Matching(id) == {k \in SlotsOf(SetOf[id]) : cache.entry[k] # Nothing /\ cache.entry[k].id = id}
Free(s) == {k \in SlotsOf(s) : cache.entry[k] = Nothing}

Evicts(id) == Matching(id) = {} /\ Free(SetOf[id]) = {}

Victim(id) ==
  IF Matching(id) # {} THEN FirstOf(Matching(id))
  ELSE IF Evicts(id) THEN <<SetOf[id], cache.nextWay[SetOf[id]]>>
  ELSE FirstOf(Free(SetOf[id]))

(* mutant: the entry that is replaced stays listed *)
StillListed(k) == cache.members

Delisted(k) ==
  [p \in Pages |-> IF cache.entry[k] # Nothing /\ p \in Area(cache.entry[k].id)
                   THEN cache.members[p] \ {k} ELSE cache.members[p]]
Listed(members, k, id) == [p \in Pages |-> IF p \in Area(id) THEN members[p] \cup {k} ELSE members[p]]
Advanced(id) == [cache.nextWay EXCEPT ![SetOf[id]] = IF Evicts(id) THEN (@ + 1) % WayCount ELSE @]

Refilled(id, k) ==
  [entry |-> [cache.entry EXCEPT ![k] = Image(id, vram)],
   dirty |-> cache.dirty \ {k}, outdated |-> cache.outdated \ {k},
   members |-> Listed(Delisted(k), k, id), active |-> k, nextWay |-> Advanced(id)]

Prepared(id) ==
  IF Matching(id) # {} /\ ~Dirty(FirstOf(Matching(id)))
  THEN [cache EXCEPT !.active = FirstOf(Matching(id))] ELSE Refilled(id, Victim(id))

-----------------------------------------------------------------------------
(* The guest *)

Quiet == phase = "guest" /\ (setup.immediate \/ surface = Nothing) /\ frame' = Nothing

GuestWrite(p, v) ==
  /\ Quiet
  /\ vram' = [vram EXCEPT ![p] = v]
  /\ rtt' = Kept({p}) /\ raw' = Unwritten(raw, {p})
  /\ cache' = Dirtied({p}) /\ states' = Orphaned({p})
  /\ cached' = IF cache.active \in cache'.dirty THEN 0 ELSE cached
  /\ UNCHANGED <<setup, regs, surface, geometry, submission>>

(* mutant: nothing is read back *)
NoReadbacks(read) == {{}}

(* Which targets a readback of the pages can have synchronised when it returns *)
Readbacks(read) ==
  LET due == {g \in Ahead : TargetPages[g] \cap read # {}} IN IF setup.reliable THEN {due} ELSE SUBSET due
ReadInto(done) ==
  [p \in Pages |-> IF \E g \in done : p \in TargetPages[g]
                   THEN rtt[CHOOSE g \in done : p \in TargetPages[g]].value ELSE vram[p]]
Synced(done) == [g \in Targets |-> IF g \in done THEN [rtt[g] EXCEPT !.synced = TRUE] ELSE rtt[g]]

GuestRead(p) ==
  /\ Quiet
  /\ \E done \in Readbacks({p}) : vram' = ReadInto(done) /\ rtt' = Synced(done)
  /\ UNCHANGED <<setup, regs, cache, raw, scene, submission>>

(* A write to palette RAM or to the format register is a new palette epoch *)
NewPalette(field, v) ==
  /\ Quiet
  /\ regs' = [regs EXCEPT ![field] = v]
  /\ cache' = [cache EXCEPT !.outdated = {k \in Slots : cache.entry[k] # Nothing /\ cache.entry[k].id.tex \in Paletted}]
  /\ cached' = 0
  /\ UNCHANGED <<setup, memory, surface, states, geometry, submission>>

PaletteWrite == \E v \in setup.palettes : NewPalette("palette", v)
FormatWrite == setup.palettes # {} /\ \E f \in Formats : NewPalette("format", f)

(* mutant: the cached state survives a change of the stride register *)
StrideWriteCached(s) ==
  /\ Quiet
  /\ regs' = [regs EXCEPT !.stride = s]
  /\ UNCHANGED <<setup, cache, memory, scene, submission>>

StrideWrite(s) ==
  /\ Quiet
  /\ regs' = [regs EXCEPT !.stride = s] /\ cached' = 0
  /\ UNCHANGED <<setup, cache, memory, surface, states, geometry, submission>>

-----------------------------------------------------------------------------
(* Registration of a scene *)

Registering == phase = "guest" /\ frame' = Nothing

(* mutant: the state of the former surface stays cached *)
HeaderKeepsState(t, translucent) ==
  /\ Registering /\ (translucent => setup.mode = "soft")
  /\ surface' = [tex |-> t, translucent |-> translucent]
  /\ UNCHANGED <<setup, regs, cache, memory, states, cached, geometry, submission>>

(* Only the software renderer treats the translucent list differently.  A   *)
(* header has a surface number of its own: no state is cached for it.       *)
Header(t, translucent) ==
  /\ Registering /\ (translucent => setup.mode = "soft")
  /\ surface' = [tex |-> t, translucent |-> translucent] /\ cached' = 0
  /\ UNCHANGED <<setup, regs, cache, memory, states, geometry, submission>>

(* TA_LIST_CONT: vertices need a new header, the surface is not used again *)
ListCont ==
  /\ Registering /\ surface # Nothing
  /\ surface' = Nothing /\ cached' = 0
  /\ UNCHANGED <<setup, regs, cache, memory, states, geometry, submission>>

Strip == Registering /\ surface # Nothing /\ geometry' = TRUE

(* raster_triangle_now *)
DrawNow ==
  /\ Strip /\ setup.mode = "soft" /\ ~surface.translucent
  /\ cache' = Prepared(Identity(surface.tex))
  /\ UNCHANGED <<setup, regs, memory, surface, states, cached, submission>>

Deferring == Strip /\ (setup.mode = "soft" => surface.translucent)

Reuse ==
  /\ Deferring /\ cached # 0
  /\ UNCHANGED <<setup, regs, cache, memory, surface, states, cached, submission>>

(* key: where a later capture finds the copy; copy: the raw snapshot with   *)
(* its palette; decoded: the stride of the GPU texture that copy already    *)
(* has; pixels: the decoded texture; submitted: the texture as it is now    *)
Blank == [tex |-> surface.tex, key |-> Nothing, copy |-> Nothing, decoded |-> Nothing, pixels |-> Nothing,
          ok |-> TRUE, submitted |-> IF setup.mode = "soft" THEN Nothing ELSE Image(Identity(surface.tex), Live)]

Capture(state) ==
  /\ cached = 0 /\ Len(states) < setup.surfaces
  /\ states' = Append(states, state) /\ cached' = Len(states) + 1
  /\ UNCHANGED <<setup, regs, surface, submission>>

CaptureNothing ==
  /\ Deferring /\ setup.mode = "soft"
  /\ Capture(Blank) /\ UNCHANGED <<cache, memory>>

CapturePixels ==
  /\ Deferring /\ setup.mode = "mt"
  /\ cache' = Prepared(Identity(surface.tex))
  /\ Capture([Blank EXCEPT !.pixels = cache'.entry[cache'.active]])
  /\ UNCHANGED memory

CaptureDirect ==
  /\ Deferring /\ setup.mode = "gpu" /\ DirectNow(surface.tex)
  /\ Capture(Blank) /\ UNCHANGED <<cache, memory>>

Held(k) == \E i \in DOMAIN states : states[i].key = k

(* A snapshot that nothing but the GPU's texture cache holds may be gone *)
CaptureRaw(k, gone) ==
  /\ Deferring /\ setup.mode = "gpu" /\ ~DirectNow(surface.tex) /\ k = RawKey(surface.tex)
  /\ gone => raw[k] # Nothing /\ ~Held(k)
  /\ \E done \in Readbacks(Area(k)) : vram' = ReadInto(done) /\ rtt' = Synced(done)
  /\ raw' = IF raw[k] # Nothing /\ ~gone THEN raw
            ELSE [raw EXCEPT ![k] = [texels |-> [p \in Area(k) |-> vram'[p]], decoded |-> Nothing]]
  /\ Capture([Blank EXCEPT !.key = k, !.decoded = raw'[k].decoded, !.ok = surface.tex \in Supported,
                           !.copy = [Image(Identity(surface.tex), vram) EXCEPT !.texels = raw'[k].texels]])
  /\ UNCHANGED cache

-----------------------------------------------------------------------------
(* pvr_finalize_logical_frame *)

(* mutant: the cached index outlives its frame *)
EndSceneCached ==
  /\ surface' = Nothing /\ states' = << >> /\ cached' = cached /\ geometry' = FALSE
  /\ phase' = "guest" /\ left' = {}
  /\ UNCHANGED <<setup, regs>>

EndScene ==
  /\ surface' = Nothing /\ states' = << >> /\ cached' = 0 /\ geometry' = FALSE
  /\ phase' = "guest" /\ left' = {}
  /\ UNCHANGED <<setup, regs>>

(* Without the states, only what the GPU's texture cache holds survives *)
Owned(snapshots) ==
  [k \in RawKeys |-> IF snapshots[k] # Nothing /\ snapshots[k].decoded = Nothing THEN Nothing ELSE snapshots[k]]

(* The GPU decodes a copy once, with the stride register of that moment *)
Decode(state) == IF state.decoded # Nothing THEN state.decoded ELSE Identity(state.tex).stride
Decoded(keys) ==
  [k \in RawKeys |-> IF k \in keys /\ raw[k].decoded = Nothing
                     THEN [raw[k] EXCEPT !.decoded = Identity(k.tex).stride] ELSE raw[k]]
HeldKeys == {k \in RawKeys : Held(k)}

Shown(state) ==
  IF DirectNow(state.tex)
  THEN Image(Identity(state.tex), [p \in Pages |-> rtt[Direct[state.tex]].value])
  ELSE [state.copy EXCEPT !.id.stride = Decode(state)]

(* pvr_render_gpu_deferred succeeds: the picture of a render-to-texture     *)
(* scene stays on the GPU, but its pages count as written                   *)
DrawGpu(dst, v) ==
  /\ phase = "guest" /\ geometry /\ setup.mode = "gpu"
  /\ \A i \in DOMAIN states : states[i].ok /\ (DirectNow(states[i].tex) \/ states[i].copy # Nothing)
  /\ frame' = [how |-> "gpu", shown |-> [i \in DOMAIN states |-> Shown(states[i])],
               submitted |-> [i \in DOMAIN states |-> states[i].submitted]]
  /\ IF dst = Display
     THEN rtt' = rtt /\ cache' = cache /\ raw' = Decoded(HeldKeys)
     ELSE /\ rtt' = [Kept(TargetPages[dst]) EXCEPT ![dst] = [value |-> v, synced |-> FALSE]]
          /\ cache' = Dirtied(TargetPages[dst])
          /\ raw' = Unwritten(Decoded(HeldKeys), TargetPages[dst])
  /\ vram' = vram
  /\ EndScene

(* It fails, after any of the textures were decoded, or there is no GPU for *)
(* the scene: the CPU looks at every state                                  *)
StartSoftware(done) ==
  /\ phase = "guest" /\ geometry /\ setup.mode # "mt"
  /\ done # {} => setup.mode = "gpu" /\ \A i \in DOMAIN states : states[i].ok
  /\ phase' = "software" /\ left' = DOMAIN states /\ frame' = Nothing
  /\ raw' = Decoded(done)
  /\ UNCHANGED <<setup, vram, regs, cache, rtt, scene>>

(* pvr_materialize_deferred_cpu_textures, in order; the triangles of the    *)
(* software renderer are sorted, and a surface can have several             *)
Look(i) ==
  /\ phase = "software" /\ frame' = Nothing
  /\ i \in IF setup.mode = "gpu" THEN left ELSE DOMAIN states
  /\ setup.mode = "gpu" => \A j \in left : i <= j
  /\ cache' = Prepared(Identity(states[i].tex)) /\ left' = left \ {i}
  /\ states' = IF setup.mode = "gpu"
               THEN [states EXCEPT ![i].pixels = cache'.entry[cache'.active]] ELSE states
  /\ UNCHANGED <<setup, regs, memory, surface, cached, geometry, phase>>

(* pvr_render_mt_deferred or the end of the flush; pvr_store_rtt_frame *)
DrawSoftware(dst, v) ==
  /\ geometry /\ left = {} /\ phase = (IF setup.mode = "mt" THEN "guest" ELSE "software")
  /\ frame' = IF setup.mode = "soft" THEN Nothing
              ELSE [how |-> IF setup.mode = "mt" THEN "mt" ELSE "fallback",
                    shown |-> [i \in DOMAIN states |-> states[i].pixels],
                    submitted |-> [i \in DOMAIN states |-> states[i].submitted]]
  /\ IF dst = Display
     THEN rtt' = rtt /\ cache' = cache /\ raw' = Owned(raw) /\ vram' = vram
     ELSE /\ vram' = [p \in Pages |-> IF p \in TargetPages[dst] THEN v ELSE vram[p]]
          /\ rtt' = Kept(TargetPages[dst]) /\ cache' = Dirtied(TargetPages[dst])
          /\ raw' = Owned(Unwritten(raw, TargetPages[dst]))
  /\ EndScene

-----------------------------------------------------------------------------
Guest ==
  \/ \E p \in Pages : GuestRead(p) \/ \E v \in Values : GuestWrite(p, v)
  \/ PaletteWrite \/ FormatWrite \/ \E s \in setup.strides : StrideWrite(s)

Register ==
  \/ \E t \in setup.textures, translucent \in BOOLEAN : Header(t, translucent)
  \/ ListCont \/ DrawNow \/ Reuse \/ CaptureNothing \/ CapturePixels \/ CaptureDirect
  \/ \E k \in RawKeys, gone \in BOOLEAN : CaptureRaw(k, gone)

Finish ==
  \/ \E dst \in Targets \cup {Display}, v \in Values : DrawGpu(dst, v) \/ DrawSoftware(dst, v)
  \/ \E done \in SUBSET HeldKeys : StartSoftware(done)
  \/ \E i \in left \cup DOMAIN states : Look(i)

Next == Guest \/ Register \/ Finish
Spec == Init /\ [][Next]_vars

-----------------------------------------------------------------------------
(* Properties *)

(* The state is well formed.  In particular a cached state index, which     *)
(* pvr_deferred_state_index hands out without looking, is one of this       *)
(* frame's, and the active slot, which pvr_mark_vram_write tests without    *)
(* looking, holds a texture.                                                *)
TypeOK ==
  /\ setup \in Setups
  /\ vram \in [Pages -> Values]
  /\ regs \in [palette : Values, format : Formats, stride : Strides]
  /\ cache \in Caches
  /\ cache.active # Nothing => cache.entry[cache.active] # Nothing
  /\ rtt \in [Targets -> Maybe(Pictures)]
  /\ raw \in [RawKeys -> Maybe(Snapshots)]
  /\ surface \in Maybe([tex : Textures, translucent : BOOLEAN])
  /\ states \in Seq(DeferredStates)
  /\ Len(states) <= setup.surfaces /\ cached \in 0 .. Len(states)
  /\ geometry \in BOOLEAN /\ phase \in {"guest", "software"} /\ left \subseteq DOMAIN states

(* The page -> slot table that pvr_mark_vram_write trusts lists exactly the  *)
(* pages under each entry, through every refill, eviction and change of the *)
(* stride register: a missing bit hides a write, a stray one costs decodes. *)
MembershipExact ==
  \A k \in Slots, p \in Pages :
    k \in cache.members[p] <=> cache.entry[k] # Nothing /\ p \in Area(cache.entry[k].id)

(* A texture is never decoded into two ways of its set, nor into a set      *)
(* where the lookup of pvr_prepare_texture_cache would not find it: a       *)
(* second copy would go on being served after the first one is refreshed.   *)
OneEntryPerTexture ==
  \A k \in Slots : cache.entry[k] # Nothing =>
    /\ k[1] = SetOf[cache.entry[k].id]
    /\ \A j \in Slots : cache.entry[j] # Nothing /\ cache.entry[j].id = cache.entry[k].id => j = k

(* The tables find each decoded texture: by the pages under it when they are *)
(* written, and by its identity when it is drawn, in one place only.         *)
TablesExact == MembershipExact /\ OneEntryPerTexture

(* An entry that is neither dirty nor outdated has the palette as it is, and *)
(* in the CPU's renderers it shows VRAM as it is, whatever was written,     *)
(* evicted or rendered since it was decoded.  In the GPU's, the entries     *)
(* that a fallback left can show older texels: a readback changes VRAM      *)
(* under them and marks none.                                               *)
CleanIsFresh ==
  \A k \in Slots : cache.entry[k] # Nothing /\ ~Dirty(k) =>
    LET now == Image(cache.entry[k].id, vram)
    IN cache.entry[k].palette = now.palette /\ (setup.mode # "gpu" => cache.entry[k] = now)

(* pvr_deferred_state_index reuses a state without comparing any epoch.  The *)
(* pixels that the threads draw, and the texture the GPU's state stands for, *)
(* are nevertheless those of the surface now: every header, write, palette  *)
(* or stride change that makes them others has withdrawn the cached index.  *)
(* Not so when the GPU's renderer parses packets at once: a guest write     *)
(* between two strips withdraws the index only if the texture is also the   *)
(* active slot of the cache, so there only identity and palette are current. *)
ReuseIsCurrent ==
  cached # 0 =>
    LET now == Image(Identity(surface.tex), Live)
        submitted == states[cached].submitted
    IN /\ setup.mode = "mt" => states[cached].pixels = now
       /\ setup.mode = "gpu" =>
            /\ submitted.id = now.id /\ submitted.palette = now.palette
            /\ ~setup.immediate => submitted = now

(* Render targets on the GPU never overlap, and one that was read back      *)
(* agrees with VRAM until it is dropped: neither guest writes, nor other    *)
(* scenes, nor late readbacks put an old picture over a new one.            *)
TargetsCoherent ==
  /\ \A g, h \in Targets : rtt[g] # Nothing /\ rtt[h] # Nothing /\ g # h => TargetPages[g] \cap TargetPages[h] = {}
  /\ \A g \in Targets : rtt[g] # Nothing /\ rtt[g].synced => \A p \in TargetPages[g] : vram[p] = rtt[g].value

(* While readbacks work, a raw snapshot that a capture would find again is   *)
(* the texture as it is now, and one that was never drawn belongs to a      *)
(* surface of this frame.                                                   *)
SnapshotsCurrent ==
  \A k \in RawKeys : raw[k] # Nothing =>
    /\ raw[k].decoded = Nothing => Held(k)
    /\ setup.reliable => raw[k].texels = [p \in Area(k) |-> Live[p]]

(* A copy of a texture that would be served without decoding it again, cache *)
(* entry, deferred state or raw snapshot, is the texture as it is now, but   *)
(* for the texels in three cases, each stated at its part: entries that a    *)
(* fallback of the GPU left, states of the GPU under immediate parsing, and  *)
(* snapshots taken when a readback had failed.                               *)
CopiesCurrent == CleanIsFresh /\ ReuseIsCurrent /\ SnapshotsCurrent

(* A frame drawn by the GPU or by the threads shows, for each surface, the   *)
(* texture memory and palette of the moment its state was captured, whatever *)
(* the guest wrote before it started the render, and whether the pixels came *)
(* from the cache, a snapshot, or a target still on the GPU, as long as     *)
(* readbacks work.  The stride the GPU decodes with can be a later one.     *)
TexelsAsSubmitted ==
  frame # Nothing /\ frame.how # "fallback" /\ setup.reliable =>
    \A i \in DOMAIN frame.shown :
      /\ frame.shown[i].texels = frame.submitted[i].texels /\ frame.shown[i].palette = frame.submitted[i].palette
      /\ [frame.shown[i].id EXCEPT !.stride = 0] = [frame.submitted[i].id EXCEPT !.stride = 0]
=============================================================================
