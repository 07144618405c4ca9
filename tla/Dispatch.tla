------------------------------ MODULE Dispatch ------------------------------
(***************************************************************************)
(* How the runtime turns a guest SH-4 call target into host code           *)
(* (call_recompiled and dc_call_dynamic_fast), while the guest rewrites    *)
(* its own memory: registered native functions, the direct-mapped dispatch *)
(* cache, relocation aliases with their signature memo, native patches     *)
(* built from RAM snapshots, the interpreter fallback and the IP.BIN       *)
(* shadow that is restored when the guest chain-loads the bootstrap.       *)
(*                                                                         *)
(* One cell of memory stands for one 32-byte signature window at an even   *)
(* address, and its content for the code found there.  A native function   *)
(* is identified with the code it was compiled from, so "this function may *)
(* run here" is an equality between a function and a cell.                 *)
(***************************************************************************)
EXTENDS Integers, Sequences, FiniteSets

CONSTANTS
  NPhys,        \* cells of main RAM; Phys == 0 .. NPhys-1
  Code,         \* what a cell can hold
  Image,        \* [Phys -> Code], the boot image
  Boot,         \* cells of the first 64 KiB (bootstrap/VBR workspace)
  IpBin,        \* cells of the 32 KiB IP.BIN window, part of Boot
  PageSize,     \* cells per 4 KiB page
  StackCells,   \* where the live guest stack pointer may be
  Base,         \* addresses registered by the ahead-of-time guest module
  Incremental,  \* addresses registered by incremental (boot-image) patches
  Patch,        \* dynamic patches, built from RAM snapshots
  PatchEntry,   \* [Patch -> Addr]
  PatchPage,    \* [Patch -> SUBSET Phys], the snapshot window
  PatchCode,    \* [Patch -> [Phys -> Code]], the snapshot
  PatchFns,     \* [Patch -> SUBSET Addr], functions the module registers
  CacheSize,    \* slots of the direct-mapped dispatch cache
  Span,         \* how far an alias speaks for its neighbours (1 MiB)
  Commercial,   \* commercial_boot_active
  FastEnabled,  \* fast_dispatch_enabled
  Calls,        \* bound: the addresses guest code calls
  Writes,       \* bound: the stores <<cell, content>> it makes
  MaxDepth,     \* bound: nested guest calls
  Interp, NoFn, NoAddr, NoPatch, NoMemo

Phys  == 0 .. NPhys - 1
Addr  == [seg : {"P1", "P2"}, phys : Phys]
Fn    == Code \cup {Interp}
Slots == 0 .. CacheSize - 1

ASSUME SizeAssumption == NPhys \in Nat \ {0} /\ CacheSize \in Nat \ {0} /\ PageSize \in Nat \ {0}
ASSUME ScalarAssumption == Span \in Nat /\ MaxDepth \in Nat
                           /\ Commercial \in BOOLEAN /\ FastEnabled \in BOOLEAN
ASSUME ImageAssumption == /\ Image \in [Phys -> Code]
                          /\ IpBin \subseteq Boot /\ Boot \subseteq Phys /\ StackCells \subseteq Phys
ASSUME InputAssumption == Calls \subseteq Addr /\ Writes \subseteq Phys \X Code
ASSUME TargetAssumption == Base \subseteq Addr /\ Incremental \subseteq Addr /\ Base \cap Incremental = {}
(* A snapshot window is the 4 KiB page of the entry, every function of the  *)
(* module lies in it, and two captures of one entry differ in their bytes.  *)
ASSUME PatchAssumption ==
  /\ PatchEntry \in [Patch -> Addr]
  /\ PatchPage \in [Patch -> SUBSET Phys]
  /\ PatchCode \in [Patch -> [Phys -> Code]]
  /\ PatchFns \in [Patch -> SUBSET Addr]
  /\ \A i \in Patch : \A a \in PatchFns[i] : a.phys \in PatchPage[i]
  /\ \A i, j \in Patch :
        PatchEntry[i] = PatchEntry[j] /\ i # j
          => \E p \in PatchPage[i] \cap PatchPage[j] : PatchCode[i][p] # PatchCode[j][p]
ASSUME SentinelAssumption ==
  /\ Interp \notin Code /\ NoFn \notin Code /\ NoFn # Interp
  /\ NoAddr \notin Addr /\ NoPatch \notin Patch /\ NoMemo \notin [source : Addr, sig : Code]

VARIABLES
  ram,       \* [Phys -> Code]
  targets,   \* registered functions, NoFn where none
  dynSig,    \* which dynamic patch registered an address
  pending,   \* dynamic patches waiting for their bytes to appear
  aliases,   \* relocated_code_aliases: copy address -> source function
  memo,      \* g_relocated_signature_cache
  cache,     \* dispatch_cache
  frames,    \* nested guest calls, innermost last
  active,    \* active_relocation_source / active_relocation_target
  ready,     \* fast_dynamic_dispatch_ready
  shadow     \* IP.BIN shadow flags: seen_game, armed, reentry_latched

vars == <<ram, targets, dynSig, pending, aliases, memo, cache, frames, active, ready, shadow>>
tables == <<targets, dynSig, pending>>

Slot(a)    == a.phys % CacheSize
PageOf(p)  == p \div PageSize
Mirror(a)  == [a EXCEPT !.seg = IF @ = "P1" THEN "P2" ELSE "P1"]
EmptyEntry == [requested |-> NoAddr, target |-> NoAddr, source |-> NoAddr, fn |-> NoFn]
Straight   == [source |-> NoAddr, target |-> NoAddr]

(* An entry records its relocation by the source alone: the relocation      *)
(* target of an entry is always the requested address.                      *)
Entry    == {EmptyEntry} \cup
            [requested : Addr, target : Addr, source : Addr \cup {NoAddr}, fn : Fn]
Relocation == {Straight} \cup [source : Addr, target : Addr]
Frame    == [requested : Addr, target : Addr, source : Addr \cup {NoAddr}, fn : Fn,
             via : {"call", "fast", "generated"}, saved : Relocation]

Init ==
  /\ ram     = Image
  /\ targets = [a \in Addr |-> IF a \in Base \cup Incremental THEN Image[a.phys] ELSE NoFn]
  /\ dynSig  = [a \in Addr |-> NoPatch]
  /\ pending = Patch
  /\ aliases = [a \in Addr |-> NoAddr]
  /\ memo    = [a \in Addr |-> NoMemo]
  /\ cache   = [s \in Slots |-> EmptyEntry]
  /\ frames  = << >>
  /\ active  = Straight
  /\ ready   = FastEnabled
  /\ shadow  = [seen |-> FALSE, armed |-> FALSE, latched |-> FALSE]

-----------------------------------------------------------------------------
(* Which function an address stands for, and whether its bytes still are    *)
(* the ones the function was compiled from.                                 *)

Registered(a) == a \in Addr /\ targets[a] # NoFn

Canonical(a) ==
  IF targets[a] # NoFn THEN a
  ELSE IF aliases[a] # NoAddr THEN aliases[a]
  ELSE IF targets[Mirror(a)] # NoFn THEN Mirror(a)
  ELSE a

SnapshotMatches(i, mem) == \A p \in PatchPage[i] : mem[p] = PatchCode[i][p]

OverwrittenStatic(a, mem) ==
  /\ Commercial
  /\ a \in Incremental \/ (a \in Base /\ a.phys \in Boot)
  /\ mem[a.phys] # Image[a.phys]

(* mutant: the snapshot of a dynamic patch is never compared again *)
OverwrittenIgnoringSnapshots(a, mem) == OverwrittenStatic(a, mem)

Overwritten(a, mem) ==
  LET sig == IF dynSig[a] # NoPatch THEN dynSig[a] ELSE dynSig[Canonical(a)]
  IN  IF sig # NoPatch THEN ~SnapshotMatches(sig, mem) ELSE OverwrittenStatic(a, mem)

(* find_relocated_code_template: the registered function whose code was      *)
(* copied to a.  A memoised copy signature wins; then the displacement that   *)
(* established aliases agree on, trusted without a byte comparison when two   *)
(* of them vote for it; then the only registered address with equal bytes.    *)
Displaced(b, a) == [aliases[b] EXCEPT !.phys = @ + a.phys - b.phys]

Votes(a) == { b \in Addr : /\ aliases[b] # NoAddr
                           /\ a.phys - b.phys \in -Span .. Span
                           /\ Registered(Displaced(b, a)) }

(* mutant: equal bytes are enough, registered or not *)
TemplateAnywhere(a, mem) ==
  LET equal == { s \in Addr \ {a} : mem[s.phys] = mem[a.phys] }
  IN  IF Cardinality(equal) = 1 THEN CHOOSE s \in equal : TRUE ELSE NoAddr

Template(a, mem) ==
  LET voted == { Displaced(b, a) : b \in Votes(a) }
      trusted == { s \in voted : /\ voted = {s}
                                 /\ Cardinality(Votes(a)) >= 2 \/ mem[s.phys] = mem[a.phys] }
      equal == { s \in Addr \ {a} : targets[s] # NoFn /\ mem[s.phys] = mem[a.phys] }
  IN  IF memo[a] # NoMemo /\ Registered(memo[a].source) /\ memo[a].sig = mem[a.phys]
      THEN memo[a].source
      ELSE IF trusted # {} THEN CHOOSE s \in trusted : TRUE
      ELSE IF Cardinality(equal) = 1 THEN CHOOSE s \in equal : TRUE
      ELSE NoAddr

(* mutant: a failed search is remembered too *)
RememberFailures(a, source, mem) == [memo EXCEPT ![a] = [source |-> source, sig |-> mem[a.phys]]]

Remember(a, source, mem) ==
  [memo EXCEPT ![a] = IF source = NoAddr THEN NoMemo
                      ELSE [source |-> source, sig |-> mem[a.phys]]]

-----------------------------------------------------------------------------
(* Activation of a deferred patch: its functions are registered except       *)
(* where the address was taken, and the cache slots that name one of them    *)
(* are dropped.                                                              *)

Fresh(i) == { a \in PatchFns[i] : targets[a] = NoFn }

(* mutant: the base table is not put back after registration *)
TargetsClobbered(i) == [a \in Addr |-> IF a \in PatchFns[i] THEN PatchCode[i][a.phys] ELSE targets[a]]

TargetsWith(i) == [a \in Addr |-> IF a \in Fresh(i) THEN PatchCode[i][a.phys] ELSE targets[a]]

(* mutant: addresses that were already taken get the new snapshot as well *)
DynSigForAll(i) == [a \in Addr |-> IF a \in PatchFns[i] THEN i ELSE dynSig[a]]

DynSigWith(i) == [a \in Addr |-> IF a \in Fresh(i) THEN i ELSE dynSig[a]]

(* mutant: slots keep what they held before the registration *)
CacheKept(i, entries) == entries

CacheWithout(i, entries) ==
  [s \in Slots |-> IF \E a \in PatchFns[i] : Slot(a) = s /\ a \in {entries[s].requested, entries[s].target}
                   THEN EmptyEntry ELSE entries[s]]

(* mutant: a deferred patch of the entry is activated over any bytes *)
ActivatableUncompared(a, mem) == { i \in pending : PatchEntry[i] = a }

Activatable(a, mem) == { i \in pending : PatchEntry[i] = a /\ SnapshotMatches(i, mem) }

-----------------------------------------------------------------------------
(* IP.BIN re-entry: restore the immutable bootstrap except for the pages     *)
(* that hold the live stack or a relocation alias, and drop the cache.       *)

Reenters(a) == /\ shadow.seen /\ shadow.armed /\ ~shadow.latched
               /\ a.phys \in IpBin
               /\ aliases[a] = NoAddr

(* mutant: only the stack page is live *)
StackPages(sp) == { PageOf(p) : p \in IpBin \cap {sp} }

LivePages(sp) == { PageOf(p) : p \in IpBin \cap ({sp} \cup { b.phys : b \in { c \in Addr : aliases[c] # NoAddr } }) }

RestoredRam(sp) ==
  [p \in Phys |-> IF p \in IpBin /\ PageOf(p) \notin LivePages(sp) THEN Image[p] ELSE ram[p]]

-----------------------------------------------------------------------------
(* Entering a function.  call_recompiled publishes the relocation of the     *)
(* callee and restores the caller's when it returns or unwinds; its own fast *)
(* path and the copy of it in generated code leave the relocation alone.     *)

Refresh(reloc) == FastEnabled /\ reloc = Straight

RelocationOf(e) ==
  IF e.source = NoAddr THEN Straight ELSE [source |-> e.source, target |-> e.requested]

Activation(e, path) == [requested |-> e.requested, target |-> e.target, source |-> e.source,
                        fn |-> e.fn, via |-> path, saved |-> active]

RunFast(e, path) ==
  /\ frames' = Append(frames, Activation(e, path))
  /\ UNCHANGED <<active, ready>>

Run(e) ==
  /\ frames' = Append(frames, Activation(e, "call"))
  /\ active' = RelocationOf(e)
  /\ ready'  = Refresh(RelocationOf(e))

Hits(e, a) == e.requested = a /\ e.fn # NoFn

(* mutant: an alias found in the table is not announced as a relocation *)
LookupUnannounced(a, mem, over) ==
  LET found == IF over THEN Template(a, mem) ELSE NoAddr
      usual == IF aliases[a] # NoAddr THEN aliases[a] ELSE Canonical(a)
      late  == IF targets[usual] = NoFn THEN Template(a, mem) ELSE found
  IN  [found |-> late, searched |-> TRUE, target |-> IF late # NoAddr THEN late ELSE usual, source |-> late]

(* The first step of a miss: an overwritten address is rebound to the        *)
(* template its new bytes came from; otherwise an established alias or the   *)
(* canonical address is used, and an unregistered one is searched for.       *)
Lookup(a, mem, over) ==
  LET rebound == IF over THEN Template(a, mem) ELSE NoAddr
      usual   == IF aliases[a] # NoAddr THEN aliases[a] ELSE Canonical(a)
      first   == IF rebound # NoAddr THEN rebound ELSE usual
      late    == IF targets[first] = NoFn THEN Template(a, mem) ELSE NoAddr
      found   == IF late # NoAddr THEN late ELSE rebound
  IN  [found |-> found,
       searched |-> over \/ targets[first] = NoFn,
       target |-> IF found # NoAddr THEN found ELSE first,
       source |-> IF found # NoAddr THEN found ELSE aliases[a]]

IsPatched(a) == a \in Incremental \/ dynSig[a] # NoPatch

(* A patch whose bytes changed is refused, then a deferred patch is tried,   *)
(* then the interpreter.                                                     *)
Miss(a, mem, entries, over) ==
  LET look   == Lookup(a, mem, over)
      stale  == over /\ look.source = NoAddr /\ IsPatched(look.target)
      native == IF stale THEN NoFn ELSE targets[look.target]
      plain(fn) == [requested |-> a, target |-> a, source |-> NoAddr, fn |-> fn]
      Fill(e, es) == cache' = [es EXCEPT ![Slot(a)] = e] /\ Run(e)
  IN  /\ aliases' = IF look.found = NoAddr THEN aliases ELSE [aliases EXCEPT ![a] = look.found]
      /\ memo' = IF look.searched THEN Remember(a, look.found, mem) ELSE memo
      /\ \/ /\ native # NoFn
            /\ Fill([requested |-> a, target |-> look.target, source |-> look.source, fn |-> native], entries)
            /\ UNCHANGED tables
         \/ /\ native = NoFn
            /\ Activatable(a, mem) = {}
            /\ Fill(plain(Interp), entries)
            /\ UNCHANGED tables
         \/ /\ native = NoFn
            /\ \E i \in Activatable(a, mem) :
                 /\ pending' = pending \ {i}
                 /\ targets' = TargetsWith(i)
                 /\ dynSig'  = DynSigWith(i)
                 /\ LET resolved == Fresh(i) # {} /\ TargetsWith(i)[a] # NoFn
                    IN  Fill(plain(IF resolved THEN TargetsWith(i)[a] ELSE Interp), CacheWithout(i, entries))

Dispatch(a, mem, entries) ==
  LET over == Overwritten(a, mem)
      e    == entries[Slot(a)]
  IN  \/ /\ ~over /\ Hits(e, a)
         /\ IF ready /\ e.source = NoAddr THEN RunFast(e, "fast") ELSE Run(e)
         /\ cache' = entries
         /\ UNCHANGED <<tables, aliases, memo>>
      \/ /\ over \/ ~Hits(e, a)
         /\ Miss(a, mem, entries, over)

-----------------------------------------------------------------------------
CallRecompiled(a) ==
  /\ Len(frames) < MaxDepth
  /\ \/ /\ ~Reenters(a)
        /\ Dispatch(a, ram, cache)
        /\ UNCHANGED <<ram, shadow>>
     \/ /\ Reenters(a)
        /\ \E sp \in StackCells :
             /\ ram' = RestoredRam(sp)
             /\ Dispatch(a, RestoredRam(sp), [s \in Slots |-> EmptyEntry])
        /\ shadow' = [shadow EXCEPT !.latched = TRUE]

(* mutant: relocated entries may be entered inline *)
InlineAnyCall(a) ==
  /\ Len(frames) < MaxDepth
  /\ ready
  /\ ~(Commercial /\ a.phys \in Boot /\ Overwritten(a, ram))
  /\ Hits(cache[Slot(a)], a) /\ RunFast(cache[Slot(a)], "generated")
  /\ UNCHANGED <<ram, tables, aliases, memo, cache, shadow>>

(* The inline copy of the fast path in generated code.  It asks whether the  *)
(* target was overwritten only inside the bootstrap workspace; every other   *)
(* outcome goes to call_recompiled.                                          *)
InlineFastCall(a) ==
  /\ Len(frames) < MaxDepth
  /\ ready
  /\ ~(Commercial /\ a.phys \in Boot /\ Overwritten(a, ram))
  /\ LET e == cache[Slot(a)]
     IN  Hits(e, a) /\ e.source = NoAddr /\ RunFast(e, "generated")
  /\ UNCHANGED <<ram, tables, aliases, memo, cache, shadow>>

(* mutant: the fast paths are not re-evaluated when a call ends *)
ReturnUnrefreshed ==
  /\ frames # << >>
  /\ frames' = SubSeq(frames, 1, Len(frames) - 1)
  /\ active' = frames[Len(frames)].saved
  /\ UNCHANGED <<ram, tables, aliases, memo, cache, ready, shadow>>

(* The callee returns, or an exception leaves it.                            *)
Return ==
  /\ frames # << >>
  /\ LET f == frames[Len(frames)]
     IN  /\ frames' = SubSeq(frames, 1, Len(frames) - 1)
         /\ IF f.via # "call" THEN UNCHANGED <<active, ready>>
            ELSE active' = f.saved /\ ready' = Refresh(f.saved)
  /\ UNCHANGED <<ram, tables, aliases, memo, cache, shadow>>

(* Guest stores and DMA: code is loaded, copied and rewritten.               *)
GuestWrite(p, c) ==
  /\ ram[p] # c
  /\ ram' = [ram EXCEPT ![p] = c]
  /\ UNCHANGED <<tables, aliases, memo, cache, frames, active, ready, shadow>>

(* ipbin_observe_game_execution, run by the full tick while the innermost    *)
(* function lies outside the first 64 KiB: the guard arms once a frame was   *)
(* flipped, and an armed guard forgets the last restore.                     *)
ObserveGame ==
  /\ frames # << >> /\ frames[Len(frames)].target.phys \notin Boot
  /\ \E flipped \in {shadow.armed, TRUE} :
       shadow' = [seen |-> TRUE, armed |-> flipped, latched |-> shadow.latched /\ ~flipped]
  /\ UNCHANGED <<ram, tables, aliases, memo, cache, frames, active, ready>>

Next ==
  \/ \E a \in Calls : CallRecompiled(a)
  \/ \E a \in Calls : InlineFastCall(a)
  \/ Return
  \/ \E w \in Writes : GuestWrite(w[1], w[2])
  \/ ObserveGame

Spec == Init /\ [][Next]_vars
-----------------------------------------------------------------------------
TypeOK ==
  /\ ram \in [Phys -> Code]
  /\ targets \in [Addr -> Code \cup {NoFn}]
  /\ dynSig \in [Addr -> Patch \cup {NoPatch}]
  /\ pending \subseteq Patch
  /\ aliases \in [Addr -> Addr \cup {NoAddr}]
  /\ memo \in [Addr -> [source : Addr, sig : Code] \cup {NoMemo}]
  /\ cache \in [Slots -> Entry]
  /\ frames \in Seq(Frame)
  /\ active \in Relocation
  /\ ready \in BOOLEAN
  /\ shadow \in [seen : BOOLEAN, armed : BOOLEAN, latched : BOOLEAN]

(* The relocation the runtime believes in is the one of the innermost call,  *)
(* the caller's comes back when that call ends, and the fast paths are open  *)
(* exactly while no relocated function runs, however calls are nested.       *)
RelocationAt(k) == IF k = 0 THEN Straight ELSE RelocationOf(frames[k])

RelocationMatchesFrames ==
  /\ active = RelocationAt(Len(frames))
  /\ \A k \in 1 .. Len(frames) : frames[k].saved = RelocationAt(k - 1)
  /\ ready = Refresh(active)

(* A function that runs in place of other cells than its own was announced   *)
(* as relocated by call_recompiled: its PC-relative literals are then read   *)
(* next to the copy.  No fast path enters such a function.                   *)
RelocatedIsAnnounced ==
  \A k \in 1 .. Len(frames) :
     frames[k].target.phys # frames[k].requested.phys
       => frames[k].via = "call" /\ frames[k].source = frames[k].target

(* What the runtime has published about relocation is what runs.             *)
RelocationTracked == RelocationMatchesFrames /\ RelocatedIsAnnounced

(* The dispatch cache agrees with the tables it was filled from: a native    *)
(* function is the registered one of its target, a relocation is the         *)
(* established alias of the requested address, and an address with an alias  *)
(* is never cached without it.                                               *)
CacheAgrees ==
  \A s \in Slots : LET e == cache[s] IN
     e # EmptyEntry =>
       /\ Slot(e.requested) = s
       /\ e.fn # Interp => e.fn = targets[e.target]
       /\ e.source = aliases[e.requested]
       /\ e.source # NoAddr => e.target = e.source /\ e.fn # Interp

(* An alias always leads to a registered function.                           *)
AliasesRegistered == \A a \in Addr : aliases[a] # NoAddr => Registered(aliases[a])

(* Cache, aliases and registered functions agree: no address is sent to a    *)
(* function that was replaced, or to none.                                   *)
TablesAgree == CacheAgrees /\ AliasesRegistered

(* The signature that guards a dynamically patched address is the snapshot    *)
(* its function was compiled from, and every other native function is the    *)
(* one compiled from the boot image.                                         *)
SignaturesMatchFunctions ==
  \A a \in Addr : targets[a] # NoFn =>
     targets[a] = IF dynSig[a] # NoPatch THEN PatchCode[dynSig[a]][a.phys] ELSE Image[a.phys]

(* A patch never replaces a function of the ahead-of-time module, and an     *)
(* address once registered keeps its function.                               *)
RegistrationsKept ==
  [][\A a \in Addr : targets[a] # NoFn => targets'[a] = targets[a]]_vars

Entered == Len(frames') = Len(frames) + 1
Callee  == frames'[Len(frames')]
Native  == Callee.fn # Interp

BytesMatch(a, mem) ==
  /\ dynSig'[a] # NoPatch => SnapshotMatches(dynSig'[a], mem)
  /\ a \in Incremental /\ Commercial => mem[a.phys] = Image[a.phys]

(* The one way past the comparison: a call refused as stale activates        *)
(* another patch of the entry, whose function for it is not taken over, and  *)
(* is then sent to the function that was registered before.                  *)
EscapesCheck == pending' # pending /\ Registered(Callee.target)

(* call_recompiled enters a patch at its own address only over the bytes the *)
(* patch was compiled from, from the cache or not, freshly activated or not; *)
(* no call but those of EscapesCheck enters "stale native instructions".     *)
PatchBytesChecked ==
  [][ Entered /\ Native /\ Callee.via # "generated" /\ ~EscapesCheck
      /\ Callee.source = NoAddr /\ Callee.target = Callee.requested
        => BytesMatch(Callee.target, ram') ]_vars

(* When a deferred patch registers its functions, no cache slot keeps sending *)
(* one of them to the interpreter.                                           *)
InterpreterYields ==
  [][ \A a \in Addr : targets[a] = NoFn /\ targets'[a] # NoFn
        => cache'[Slot(a)].requested # a \/ cache'[Slot(a)].fn # Interp ]_vars

(* Restoring IP.BIN never overwrites a live relocated copy, changes nothing   *)
(* outside its window, leaves every page it does restore equal to the image,  *)
(* and leaves no cache entry from before.                                     *)
Reentry == Entered /\ shadow'.latched /\ ~shadow.latched

ReentryKeepsLiveCopies ==
  [][ Reentry =>
        /\ \A b \in Addr : aliases[b] # NoAddr => ram'[b.phys] = ram[b.phys]
        /\ \A p \in Phys : ram'[p] # ram[p] => p \in IpBin /\ ram'[p] = Image[p]
        /\ \A s \in Slots : cache'[s] # EmptyEntry => s = Slot(Callee.requested)
        /\ \A p \in IpBin : (\A sp \in StackCells : PageOf(p) \notin LivePages(sp)) => ram'[p] = Image[p] ]_vars
=============================================================================
