# DreamcastRecompiled: TLA+ models, model checking and proofs

DreamcastRecompiled translates Dreamcast (SH-4) executables into C++ and runs the
result on a runtime library that emulates the rest of the console.  This directory
holds TLA+ models of the stateful core of that runtime, TLC configurations that
check them on small instances, and TLAPS proofs of most of their invariants for every
instance.  Paths are relative to the repository root; bare line numbers are lines of
`runtime/dc_runtime.cpp`.

Contents: 1 the system, 2 what is hard, 3 the modules and the code, 4 the runs,
5 the proofs, 6 where comments and code disagree, 7 what is left out, 8 plan.

## 1. The system

A recompiled game is one process.  `src/` (the recompiler) reads an ELF or a raw boot
binary, finds functions, builds control-flow graphs and an intermediate form, and emits
C++ that is compiled together with `runtime/`.  At run time one *emulation thread*
executes generated functions; they call the runtime for dynamic jumps, memory-mapped
devices, BIOS vectors and, between blocks, a *tick* that advances the devices by SH-4
cycles.  Other threads exist only for sound output, the software rasteriser's bands and
a status window.

| component | state | operations | modelled by |
|---|---|---|---|
| **Dispatch** (10946-11160, 16917-17580, 475-560; `dc_call_dynamic_fast` in `runtime/include/dc_runtime.hpp`) | registered functions, direct-mapped dispatch cache, relocation aliases and memo, active relocation, deferred native patches, IP.BIN shadow | dynamic call, inline fast call, return and unwind, patch activation, bootstrap restore | `Dispatch` |
| **Host audio** (1685-2060, 14101, the runner emitted by `cpp_emitter.cpp`) | staging, chunk ring, worker flags, device queue | mix, enqueue, fill, pad, drain, finish | `AudioStream`, `Playback` |
| **GD-ROM and CDDA** (15430-16720, `runtime/plugins/dcr_gdrom.cpp`) | request slot, transfer, transport, the plugin's copy of all three | BIOS vector calls, CDDA clock | `GdRom` |
| **Texture ownership** (3100-3420, 3860-4280, 4595-5080, 5800-6110, 6790-6860, 10763-10917) | VRAM, decoded-texture cache and page table, deferred states, raw snapshots, GPU render targets | guest reads and writes, palette and stride registers, polygon headers, strips, renders, readbacks | `TextureCache` |
| **Network plugin** (`runtime/plugins/dcr_network.cpp`) | TCP flows and their sockets; V.42/LAPM numbers, window and stored frames | segments and frames of the guest, poll, pump, keep-alive | `TcpBridge`, `BytePipe`; `Lapm`, `LinkPipe` |
| **TMU** (10448-10595, `dc_runtime_tick_fast`) | counters, controls, remainders, lazy cycles | tick, register access | `Tmu`, `EagerTimer` |
| **PVR frame control and SPG** (3961-4275, 10731-10745, 13199-13280) | three buffers, render busy/pending/done, vblank, raster, the watch on SPG_STATUS | TA_LIST_INIT, STARTRENDER, render done, vblank, sleep, fast-forward | `Pvr`, `Screen` |
| **Holly events and interrupts** (10118-10445, 13207-13237) | pending bits, masks, SR.IMASK | raise, acknowledge, deliver | in `Pvr`, for its two events |
| DMA (10118-10445) | channel registers | synchronous copies | no |
| AICA, ARM7 and host clock (1479-1660, 2390-2800, 13085-13145) | channels, timers, firmware CPU | register access, clock catch-up | planned in part |
| Maple, VMU, flash (9338-9370, 9960-, 16145-16560, `dcr_maple.cpp`) | controller state, 128 KiB images and their files | bus frames, program, erase, persist | planned |
| Plugin host (`runtime/dcr_plugin_host.cpp`) | plugin registry, thread cache | load, shut down, forward | no |
| Memory map and store queues; SH-4 interpreter; rasterisers and D3D11; windows, traces, probes | - | - | no |
| Recompiler (`src/common`, `src/sh4`, `src/ir`, `src/codegen`, `src/recompiler`, `src/disc`, `src/analyzer`, `src/corpus`) | none between runs | passes over a binary | no |
| Launcher, tools, scripts, web, old copies | - | - | no |

How they interact.  Generated code reaches **Dispatch** for each indirect call, and any
guest store or DMA can change the bytes that dispatch decisions were based on.  Guest
stores, GD-ROM data and DMA also reach VRAM, where `pvr_mark_vram_write` tells the
texture copies about them.  The CDDA clock and the AICA mixer run on the tick, and hand
finished chunks to **Host audio**, the one component with real concurrency.  The drive is called through
the plugin host and raises a Holly event when a DMA ends.  The tick adds up cycles and hands a
full batch to the **TMU** and to **PVR frame control**, which raises Holly events that the tick turns into an
interrupt.  In the **network plugin** serial bytes of the guest's modem become LAPM frames, these PPP and IP
packets, and these the TCP segments of a flow with a host socket; all of it runs on the emulation thread.

## 2. What is hard

* **A decision outlives what it was based on.**  Dispatch caches targets of memory that
  the guest rewrites; textures are held in four copies; the drive has a mirror.  Each copy is
  invalidated by hand in several functions.
* **Long protocols of legal calls.**  Nested calls with exceptions, overlays loaded and
  replaced, transfers cut into pieces and aborted, scenes that render to textures which later scenes
  sample.
* **Two threads and a device** in the audio path, where any device call may fail and the
  shutdown joins a worker that waits for the device.
* **Partial failure.**  The GPU fails in the middle of a frame, a readback fails, the
  plugin throws, a socket takes part of what is sent.
* **Unreliable lines.**  Frames are damaged and rejected, segments are lost, repeated and cut anew, and a link
  is set up again in the middle of a transfer.
* **Several clocks.**  Executed cycles wait in a batch, TMU0 is lazy, a sleep moves the device clock alone, and a
  fast-forward adds cycles that nobody executed.
* **Numbers at their limits.**  Byte counts modulo 2^32, request identifiers that wrap,
  inverted ranges, full rings.

`PROJECT.json` lists these hazards at their lines with the properties that watch
them; a hazard of a part that is not modelled says what is planned.

## 3. The modules and the code

Each specification module is one component; `*Claims` adds statements taken from
comments (section 6), `MC*` gives constants their values for TLC, `*Proofs` holds the
theorems.  `PROJECT.json` maps each definition to its lines.  Definitions under a
comment `mutant:` are variants with a plausible bug; they belong to no specification
and show that the properties notice it.

### Dispatch

One cell of `ram` is a 32-byte signature window; a native function *is* the code it was
compiled from, so "may run here" is an equality.  Addresses carry a segment (P1 or
P2), since the tables are keyed by virtual address.

| model | code |
|---|---|
| `targets`, `dynSig`, `pending` | the registered table, the 4 KiB snapshots of dynamic patches, the deferred patches |
| `cache`, `aliases`, `memo` | `dispatch_cache`, `relocation_aliases`, the signature memo of relocated code |
| `active`, `ready`, `frames` | `active_relocation_source/target`, the fast-path flag, the host call stack |
| `shadow` | game seen, guard armed, restore latched (475-560) |
| `CallRecompiled` | `call_recompiled`: guard, overwrite check, cache hit or `Miss` (rebind, alias, search, patch, interpreter) |
| `InlineFastCall` | `dc_call_dynamic_fast` |
| `Return`, `GuestWrite`, `ObserveGame` | return or unwinding; any store or DMA; the observation on a full tick |

Assumed: patches were registered before the run and RAM is the boot image; the
interpreter fallback is compiled in; targets are even and in main RAM; trace and audit
modes are off; snapshots of dynamic patches differ from the boot image (they were taken
from overlays); registration of an incremental or deferred module is never
refused, as `tools/incremental/build_native_patches.py:93-97` ensures.  Static code
above the first 64 KiB is not guarded, in the code on purpose.

What a reader of the code may not expect, and the model reproduces: an alias stays
after the original bytes are back; two agreeing displacement votes skip the byte
comparison; once one capture of an overlay is active, a second capture does not replace
functions the first registered; a patch called through the other segment's address is
checked less than through its own; a call refused as stale that activates another capture is sent to the
stale function all the same (`EscapesCheck`, section 6).

### AudioStream and Playback

`AudioStream` has the emulation thread (`main`), the worker (`worker`) and the device.
A step is one critical section or purely thread-local work.  The producer ring drops
its oldest chunk when full; the worker opens the device, fills, pads with silence below
the low-water mark while playing, pauses after an underrun, drains after `stop`, and
reports failure.  `Thrown` is the exception of the next enqueue after a failure, with
the handlers of the generated runner that call `dc_aica_flush_wav` on a normal end, a
closed window, a completed capture and any other error.  `Playback` is the abstract
promise: chunks are heard in order, at most once, and one is given up only for
`Backlog` fresher ones or after a failure.

Not modelled: failure to create the thread, counters.  The code is Windows-only.
Padding fills the device queue to its target of eight chunks (about 93 ms), while the comment at
1874 speaks of about 46 ms; the model follows the code.

### GdRom

One action per BIOS call (`ReqCmd`, `GetCmdStat`, `ExecServer`, `ReqTrans`,
`CheckTrans`, `G1DmaEnd`, `ReadAbort`, `Reset`, `InitSystem`) and `Tick` for one due
CDDA sector.  `plugin` chooses whether the runtime's own drive or `dcr_gdrom` executes;
`Pulled`, `Looked` and `Published` say where a call reads and publishes the mirror.  A
C++ exception ends the run (`halted`).  The disc is ready; sector numbers fit in 24
bits; samples, callbacks and reply words are left out.

Peculiarities kept: a failed PLAY_TRACKS stops the music only in the fallback;
`InitSystem` resets only the mirror, so the plugin's disc goes on playing and a later
RELEASE, SEEK or PAUSE mirrors it again (the one step in which `MirrorsAgree` lets the transports part); data reads move the CDDA position in the fallback; there
`count * 2048` wraps 32 bits, so that a huge request completes with nothing, where the plugin
throws.  The heartbeat (13296ff), off by default, copies the plugin's transport
to the mirror and is not modelled.

### TextureCache

VRAM is a value per 4 KiB page.  Four copies of it are modelled:

| model | code |
|---|---|
| `cache.entry/members/dirty/outdated/nextWay/active` | decoded-texture cache, page -> slot table, write and palette epochs, replacement way, active slot |
| `states`, `cached`, `surface` | `pvr_deferred_states`, `pvr_deferred_cached_state_index`, the header in force |
| `raw` | raw snapshots, found again by texture and page epoch; held by states or by the GPU's texture cache (`decoded`) |
| `rtt` | render targets on the GPU, `synced` once VRAM has them |
| `GuestWrite`, `GuestRead` | `pvr_mark_vram_write`; readback before a CPU read (5822-5935) |
| `PaletteWrite`, `FormatWrite`, `StrideWrite` | register writes (10763-10776) |
| `Header`, `ListCont`, `DrawNow`, `Reuse`, `Capture...` | `pvr_parse_packet_immediate`, TA_LIST_CONT, `raster_triangle_now`, `pvr_deferred_state_index` |
| `DrawGpu`, `StartSoftware`/`Look`, `DrawSoftware` | `pvr_finalize_logical_frame` and the three renderers, fallback included |

`setup` is chosen once: renderer, whether packets are parsed as they arrive or replayed
when a list ends, whether every readback succeeds, and the inputs the guest program uses.
An epoch is kept as what it implies: "outdated", "snapshot dropped".  Abstracted:
geometry, sorting, pixels, rounding of 8888 to 565, the hash (`SetOf`).  A texture that
samples a GPU target directly is taken not to depend on the stride register, which the code does not compare.  Untextured
surfaces and the background plane are left out, and so is TA_LIST_INIT on a scene without primitives, which
has no states to forget.

Also seen while modelling: a fallback frame decodes VRAM as it is at render time, not as
it was at TA time (so `TexelsAsSubmitted` excludes it); a decode under a target that
VRAM has not received leaves an entry that is clean although a later readback changes its bytes (so
`CleanIsFresh` asks only for the palette in the GPU mode); a failed readback leaves snapshots of old bytes
(`setup.reliable` in `SnapshotsCurrent` and `TexelsAsSubmitted`); in GPU mode with immediate parsing a
VRAM write does not withdraw the cached index (so `ReuseIsCurrent` asks there only for identity and palette).
`TexelsAsSubmitted` compares with the moment a state was captured, and `ReuseIsCurrent` says that a later strip of the surface
would have captured the same.

### TcpBridge and BytePipe

One flow: `tcp_out` takes a segment of the guest, `Poll` and `PollErrs` are `poll_tcp`.  A byte is its number in its
stream, a sequence number is modulo `Modulus` (2^32).

| model | code |
|---|---|
| `flow` | the entry of `s.tcp`: phase, `guest_next`, `proxy_next`, `pending_tx`, the two FIN flags |
| `to_guest` | segments queued by `send_tcp_to_guest` |
| `h_got`, `h_sent` | what `send` took and `recv` returned |
| `guest`, `g_got` | the guest's TCP (external): written, acknowledged, closed; what it accepted |

`send` and `recv` choose how much they take or give, or fail; connecting may take several polls.  The guest may send any
part of what it wrote again and again, in any cut, so losses and reordering on its way are in that choice.  Left
out: checksums, options, windows, ports, the second flow.  `BytePipe` is the abstract promise of one direction: what has
been taken is a prefix of what was offered, and it only grows.

Kept as the code has it: a flow is not erased after a clean close; a lost SYN-ACK or lost data towards the guest is
never repeated (the proxy has no timer); an error erases the flow without telling the guest; a
flow opened again has the same initial number; the guest's FIN shuts the socket down although `pending_tx` may still
hold bytes (353); every later attempt to send them fails, and they are lost.

### Lapm and LinkPipe

The bridge's end of the V.42 link: `v42_handle_frame` with one operator per kind of frame, `Pump`/`Poll` for
`v42_pump_to_guest`.  A unit is what one I-frame carries.

| model | code |
|---|---|
| `v42` | the `v42_` fields: phase, `tx_seq`, `rx_seq`, `tx_ack`, peer ready, window, stored frames |
| `queued`, `framed` | what PPP has put into `v42_ppp_to_guest`, and how much of it is in frames |
| `to_guest`, `to_bridge` | `backend_serial` and the guest's serial output, as frames; a damaged frame is `LoseFrame` |
| `guest`, `g_got`, `ppp_got` | the guest's LAPM (external), what it and PPP have accepted |

The peer accepts in order, rejects once per gap by REJ or SREJ, may be busy, backs up by a timer that outlasts both
lines, negotiates the window, releases and sets up anew.  `LinkPipe` is `BytePipe` with a restart.  Bits, stuffing and
checksums are left out.

Kept as the code has it: a SABME drops what was framed and not acknowledged; the bridge answers an RR of the guest with
its poll bit by nothing, and its own poll resends nothing (772, 551), so a lost last frame waits for other traffic.
A SABME that crossed an UA on the line would leave the two ends with different numbers; the peer's
timer excludes it here.

### Tmu and EagerTimer

`Tick` is `dc_runtime_tick_fast` with the batch, `sh4_tmu_tick` the full tick, `sh4_tmu_materialize_lazy` the
settling of lazy cycles, `Read` and `Write...` the register accesses.  `EagerTimer` counts tick by tick.  A register
shows the time of the last full tick, a new prescaler keeps the old remainder, and
underflow interrupts are never delivered, so UNIE only decides whether TMU0 may be lazy; TOCR and input capture are
stored and not used, and are left out.

### Pvr and Screen

| model | code |
|---|---|
| `pvr.fb/render/present` | the three framebuffers; a buffer holds the number of its scene |
| `pvr.pending/busy/completed/context/done_pending/due` | `pvr_render_pending`, `_busy`, `_completed`, `_context_valid`, the scheduled render-done |
| `pvr.holly`, `guest.imask/irq`, `setup.masks` | pending events, SR.IMASK, the delivered row, the three mask rows |
| `clk` | pending cycles of the tick, raster since its epoch, next vblank of the device clock, the watch on SPG_STATUS reads |
| `guest.wait` | the external guest: what it waits for |
| `Run`, `Sleep`, `ReadStatus`, `WriteTiming` | the ticks, `dc_device_clock_advance_ms`, `pvr_spg_maybe_fast_forward_wait`, writes to SPG registers |
| `ListInit`, `WrapLists`, `StartRender`, `Poll`, `Handle` | TA_LIST_INIT, list order, STARTRENDER, bank A reads, the guest's handler |

Due times are kept as the cycles left, because both clocks are only compared with them.  All three render-done bits are
one event.  `Screen` is the abstract promise: each scene drawn and shown once, in order.  `closed`, `started`
and `rendered` are history variables.

What a reader may not expect: a guest must wait for a vblank raised after it saw render-done
(`careful`); one that takes both together (`quick`) and closes its next scene shows an undrawn one (section 6).  Without
device clock a vblank comes only from STARTRENDER or every 263rd poll of bank A, so a guest that only takes interrupts
would wait for ever, and the runs have none.  Several vblanks owed by one tick become one event.  A sleep moves the device
clock but not render-done, raster or TMU (comment at 13185), so after a skip a sleep may end past a
vblank that pending cycles were to stop at (`EventsOnTime` excludes it).  A host-sync deadline is a
nondeterministic number of cycles.  The guest's loop is taken to read at one PC.  Not modelled: interlace
fields, packet decoding, the GPU backend's own two buffers, `native_pvr_shutdown` (which leaves a scheduled
render-done behind), writes to the timing registers while the guest waits for the raster they restart.

## 4. The runs

`tlc -config <cfg> <module>` in this directory.  All passing runs are exhaustive.

| run | states | what it asks |
|---|---|---|
| `memory` (`DispatchMemory.cfg`) | 76k | Relocation and the bootstrap window: every store over three cells, nested calls of depth two through both paths, returns and re-entries |
| `patch` (`DispatchPatch.cfg`) | 691k | Five cells, an incremental patch and two captures of an overlay of two cells that is loaded, changed and replaced |
| `audio` (`Audio.cfg`) | 85k | Both threads and the device in every interleaving, with failures; safety, refinement of `Playback`, liveness |
| `gdrom` (`GdRom.cfg`) | 317k | Every sequence of BIOS calls and ticks, with and without the plugin; safety and liveness |
| `texture` (`Texture.cfg`) | 1.3M | Six configurations over the three renderers |
| `tcp` (`Tcp.cfg`) | 47k | One flow whose two streams wrap: connects, partial sends, closes of either side, errors, segments repeated, cut and lost |
| `lapm` (`Lapm.cfg`) | 785k | A link modulo 3, set up twice, with a lost frame, a busy guest, REJ, SREJ, timer recovery and a changed window |
| `tmu` (`Tmu.cfg`) | 266k | Two channels with and without the lazy mode: any order of blocks, register writes and reads |
| `pvr` (`Pvr.cfg`) | 603k | Seven combinations of clocks, scheduled or immediate renders, fast-forward, sleeps, polling and interrupts |
| `claim_*` | - | One refuted statement of a comment or document each (section 6) |

Bounds and why they suffice to reach the interesting cases:

* **memory, patch**: a cache of two or three slots, so that addresses collide; three cells
  are original, copy and bystander; depth two is a caller whose relocation must come back.
* **audio**: sizes 2/2/3/1 keep the order low water < prefill <= target of the code's 32/6/8/4, and
  four chunks overflow the ring.
* **gdrom**: two data and two audio sectors of two bytes, so a transfer is cut inside a
  sector, crosses into an audio track and (request of five sectors, word size eight) wraps; three request
  identifiers wrap too.  `CHECK_DEADLOCK FALSE`: an exception ends the run.
* **texture**: two pages, targets and textures that overlap on one page and on two, one
  cache set of two ways for all textures, so entries are evicted; two surfaces per frame where a
  frame shares snapshots.

* **tcp**: three bytes up and two down, initial numbers two short of the modulus, so that both streams and a FIN wrap;
  segments of two bytes overlap; one segment of three in flight is lost.
* **lapm**: three units each way modulo 3 with windows of two wrap both counters and fill both windows; the second
  connection starts while frames of the first are stored and on the line.  Shorter windows or a larger modulus only remove
  cases: the window of two modulo 3 is the widest that go-back-N allows.
* **tmu**: words of three values underflow within a batch and several times; a lazy tick is two cycles, so remainders of
  both kinds occur; `MaxLazy` leaves lazy cycles for three batches.
* **pvr**: frames of two or three lines of three cycles, renders of two cycles (within a frame) and of seven (longer than one),
  a batch of two, skips of one to four; the order of sizes is the code's.  Two scenes for the screen use all three buffers.

Fairness.  *Audio*: weak fairness of each thread (the host schedules them) and of the
device's playback (a driver plays what is queued), strong fairness of a successful
start during the drain (a device that refuses for ever is the failure branch, which is
free to happen at any time).  The guest is not obliged to mix or to end the run; once `finish` is called its steps
are fair.  *GD-ROM*: weak fairness of the clock, which the tick runs as long as the
guest executes; `PlayEnds` excuses a guest that keeps moving the transport and endless repetition
(15).  *TCP*: strong fairness of polls that move something and of the guest's retransmission (its timer repeats while the
queue has room), weak fairness of its reading.  *LAPM*: weak fairness of the tick (input, pump, poll) and of the
guest's reading, strong fairness of its sending and its timer, which the keep-alive of the bridge interrupts again and again.
*PVR*: blocks keep running, and a guest that waits looks, takes interrupts and lets them in.  *Dispatch*, *TMU* and *texture* promise only safety: they run inside guest calls and return.

Each property of a passing run has a mutant in `PROJECT.json` that breaks it.

## 5. The proofs

`tlapm <module>` checks about 15,800 obligations; nothing is assumed beyond the named
ASSUMEs of the specification modules, which TLC evaluates in each run.  The argument of each
module:

* **DispatchProofs.**  `RelocationInv` (type, frames match the published relocation,
  fast frames are straight) gives `RelocationTracked`:
  the relocation is saved in the frame, so the statement must cover all frames, not only the top one.
  `TablesInv` (aliases lead to registered functions, every cache entry agrees with the
  tables) gives `TablesAgree`; the hard step is the activation
  of a patch, which changes `targets` under the cache.  `SignatureInv` gives
  `SignaturesMatchFunctions`.  The action properties `RegistrationsKept`,
  `PatchBytesChecked` (with its exempt calls, `EscapesCheck`), `InterpreterYields` and `ReentryKeepsLiveCopies` are proved action by
  action from these.
* **AudioProofs.**  `Inv` = type, `RingContiguous` (the ring holds the
  last chunks up to `sent`, consecutively), `DeviceOrdered` (the device queue is in order and older than the ring), `Handshake` (what each thread may
  believe of the other at each place).  From it: `PlaybackCorrect`, step by step the
  refinement `Spec => P!Spec`, and `FreshestCorrect`.
* **GdRomProofs.**  `Inv` = type, `SoundSlot` (identifier, cursor and rest of the
  runtime's command state; with the mirror, of the plugin's), `MirrorAgrees`,
  `CddaMirrored` (the runtime's transport is the plugin's or silent).  `SlotOwned` and `StreamExact` follow from `SoundSlot`;
  `MirrorsAgree` is proved action by action.
* **TextureProofs.**  Six layers, each citing the ones before: `TypeInv` (type, and every
  key a state holds has a snapshot); the page table (`MembershipExact`,
  `OneEntryPerTexture`); `TargetInv` (targets are apart and synced ones agree with
  VRAM, none exist outside GPU mode); `FreshInv` (clean entries have the palette and, outside GPU mode, show VRAM; only paletted ones are outdated); `SnapshotInv` (every snapshot that can still be found is
  exact against memory as the guest sees it); `FrameInv` (every state can still show
  what was submitted), which gives `TexelsAsSubmitted`.  `ReuseIsCurrent` needs that the threads' cached state is backed by the
  active slot (`ActiveBacks`), which is what `pvr_mark_vram_write` tests, and that the GPU's was submitted as the texture still is
  (`SubmittedBacks`), since readbacks change nothing the guest sees (`LiveKept`).  Lemma `CacheSteps` sorts the
  actions into four kinds, so that the layers about the cache do not repeat twenty cases.

* **TcpProofs.**  `IInv` relates the numbers of the flow to lengths of streams.  `UpInv`: `guest_next` is the initial
  number plus what the host has and what waits for it; `DownInv`: `proxy_next` counts SYN, bytes and FIN; `QueueInv`: every segment on
  its way holds bytes the host really sent, and the guest's acknowledgements lie between.  The distance test of 32-bit numbers is then the order of
  the absolute positions (`TcpAssumption` keeps the streams shorter than half the modulus).  Both refinements, `AckedIsKept` and
  `FinIsLast` follow.
* **TmuProofs.**  Both the eager timer and `sh4_tmu_advance_channel` are recursive functions of the number of ticks.  The library's
  induction cannot be instantiated here, so the module proves its own over sets (`Induction`, from `LeastNumber`) and derives that the
  functions exist and what they satisfy (`SteppingExists`, `AfterSteps`, `CountingIs`).  Then: the loop of
  `sh4_tmu_advance_channel`, which goes from underflow to underflow, leaves what the single ticks leave (`AdvanceIsAfter`; in closed form,
  `AdvanceInClosedForm`); passing cycles in two portions is passing their sum, remainder included (`Ticks`, `PassedTwice`); settling is
  passing the collected cycles (`MaterializeIs`).  The invariant `IInv` is the type, `pending < Batch` and `LazyHasOneMeaning`: every write
  that could end the lazy mode settles first, so collected cycles are passed under the divisor they were collected for.  With it each
  step is a step of `EagerTimer` (`StepSimulates`).
* **PvrProofs.**  `Timed` (type, `OnTime`, `ClockOnTime`) bounds pending cycles and due times and gives `EventsOnTime`.  For the screen,
  `Scenes` says which scene each of the three buffers holds in each of the phases registered, handed over, in the renderer, completed,
  shown, and what a waiting guest has seen; `ScreenCorrect` proves the refinement of `Screen` for every set of guests that are not `quick`.
* **LapmProofs.**  `IInv` has six parts: the type; `Tx` (the stored frames are exactly the outstanding numbers, each with its
  unit); `Rx` (PPP has the connection's units up to what `rx_seq` counts, and the guest is at most a window ahead); `Peer`, the same for the
  guest's two directions; `Hand` (a SABME or DISC is the last frame of the guest until its UA, and one UA is on its way at a time);
  and, while both ends are on one connection (`Synced`), `Agree`: the live frames of each line lie in the sender's window (`InWindow`) and the
  acknowledgements grow along each line (`Growing`), where a frame is live when no UA follows it.  The last is what go-back-N needs: since the
  window is smaller than the modulus, a number determines its unit (`NumberTells`, `Between`), which gives `Resendable` and both refinements of
  `LinkPipe`.

Liveness under fairness is out of the prover's reach, and `FinishEnds`, `RingServed`, `PlayEnds`, `BytesReachHost`, `UnitsReachPpp`,
`UnitsReachGuest` and `WaitsEnd` are model-checked only.  What is proved is the step each of them rests on, for every value of the
constants:

| liveness | theorem | what no step can do |
|---|---|---|
| `FinishEnds` | `DrainEnds` | give a drain more to do than it had: twice the ring plus what the device has not played only shrinks, and at nothing left the worker exits |
| `RingServed` | `FullQueuePlays` | leave a device queue at the prefill paused |
| `PlayEnds` | `PlaysCountDown` | let a sector pass without using up one of the ticks that range and repetitions fix |
| `BytesReachHost` | `ResendsAreAnswered` (`TcpProofs`) | answer a retransmission of a guest that has not closed without acknowledging more |
| `UnitsReachPpp` | `ResendsAreAnswered` (`LapmProofs`) | answer the frame the guest backs up to without acknowledging it |
| `UnitsReachGuest` | `RejectsFetchAll` | answer an up-to-date REJ with less, or more, than what the guest lacks |
| `WaitsEnd` | `OnTimeCorrect` | leave a scheduled render-done or a vblank late by a whole batch |

Every safety property of the passing runs, `CountsEagerly` and the other refinements included, is a theorem.  The
refutations of section 6 are runs only.

## 6. Where comments and code disagree

Each is a run that TLC must find violated; the details and quotations are under "findings".

| run | statement | what the code does |
|---|---|---|
| `claim_generated` | a dynamic patch is compared with its snapshot on each native dispatch | the inline fast path compares only below 64 KiB; two paths of `call_recompiled` fail it too (below) |
| `claim_tcp_gap` | forward gaps are not acknowledged as received (`RELEASE_NOTES_CPP34O.md`) | a FIN is taken without the sequence check and acknowledges the gap before it |
| `claim_pvr_present` | a vblank presents a completed render | a scene closed while an older one waits for its vblank is presented undrawn |

Met while modelling, and not kept as runs:

* **a stale patch is dispatched when its call activates another capture** (17308, 17476-17479).  Two captures of one entry, the second
  active; the guest loads the first one's bytes and calls the entry.  The call is refused as stale,
  `dc_sh4_dynamic_try_resolve` registers only the functions of the first that are new and returns
  `targets.contains(wanted)`, which is true of the old one; that one is dispatched, against the comment at 17464-17465.
  `PatchBytesChecked` names these calls (`EscapesCheck`) and holds of all others;
* **the relocation search validates a source only as it is now** (11068-11145): a patch that was rewritten since it was compiled, to the bytes
  of the called copy, is entered for that copy, against "independently validated source" (17466);
* **GDC_INIT_SYSTEM during playback** with the plugin (16639-16645) quiets the runtime's transport and not the plugin's: the tick
  stops advancing a disc that plays, and GetDrvStat (16648) answers "paused" until the next transport command;
* **a deferred state of the GPU's renderer is reused after a guest write** when packets are parsed at once (no replay of a captured stream):
  `pvr_mark_vram_write` withdraws the cached index only if the active slot of the decoded cache became dirty (3123-3131), and this
  renderer does not use that cache, against the comments there and at 4895-4898;
* **entries that a GPU fallback left** in the decoded cache stay clean when a readback (5895-5907) writes other texels under them;
* a call to a relocated copy that was rewritten enters the old source through a cache hit or an alias (17410);
* the inline fast path enters IP.BIN without the restore guard (`dc_runtime.hpp`:1898);
* a failed audio device makes `finish` throw before the WAV capture is written (14101);
* a GPU frame reads the stride register at render time, not at TA time (6030);
* a guest write of one byte drops a whole render target that VRAM never received (5822);
* the guest's FIN shuts the socket down while `pending_tx` holds bytes (`dcr_network.cpp`:353);
* the keep-alive poll of LAPM recovers no lost frame (`dcr_network.cpp`:551, 774).

## 7. What is left out

The table in section 1 and the components of `PROJECT.json` name every part that is
not modelled, with the reason.  In short: instruction semantics (decoder, interpreter,
emitter, ARM7), pixel and sample arithmetic and host input/output are left to tests;
the recompiler's passes keep no state between runs.  PPP, LCP, DNS and the modem's handshake are parsers with little
state of their own.

The map covers a small share of the repository's lines by nature: nine tenths of the
implementation lines are test programs with copies of the runtime, generated under `build-v011/`; another copy is
in `hotpatch_cpp22/`, and one more as string literals inside `cpp_emitter.cpp`.  What the modules translate is `runtime/`.

## 8. Plan

| step | module | abstract specification | state |
|---|---|---|---|
| 1 | `Dispatch` | - | done, all safety proved |
| 2 | `AudioStream` | `Playback` | done, refinement proved |
| 3 | `GdRom` | - | done, all safety proved |
| 4 | `TextureCache` | - | done, all safety proved |
| 5 | `TcpBridge` | `BytePipe` | done, refinements proved |
| 6 | `Lapm` | `LinkPipe` | done, refinements proved |
| 7 | `Tmu` | `EagerTimer` | done, refinement proved |
| 8 | `Pvr` | `Screen` | done, refinement proved |
| 9 | the drive's and the modem's events into the Holly part of `Pvr` | - | open: the two parts meet only in the pending bits |
| 10 | VMU and flash images, a crash between truncation and write | a file that is old or new | open (hazard at 9340) |
| 11 | the AICA host clock's skip to the next timer interrupt | a clock that steps | open (hazard at 13109) |
| 12 | status window thread; worklists of `cfg.cpp` and `program_analysis.cpp` | reachability | open |
