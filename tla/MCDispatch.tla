----------------------------- MODULE MCDispatch -----------------------------
(* Small instances of Dispatch: the memory map and the inputs of each run.   *)
EXTENDS DispatchClaims

CONSTANTS boot, game, overlay, variant, p1, p2

At(seg, p) == [seg |-> seg, phys |-> p]
P1Calls(cells) == { At("P1", p) : p \in cells }
None == {}

(* Cell 0 is a bootstrap function, cell 1 scratch memory code is copied to,  *)
(* cell 2 a game function, cells 3 and up are filled at run time.            *)
MCImage == [p \in Phys |-> CASE p = 0 -> boot [] p \in {1, 2} -> game [] OTHER -> boot]
MCBase  == P1Calls({0, 2})

(* Relocation and the bootstrap window: three cells, two contents, every     *)
(* store.                                                                    *)
MemoryCalls  == P1Calls({0, 1, 2}) \cup {At("P2", 0)}
MemoryWrites == {0, 1, 2} \X {boot, game}

(* Patches: one function of the executable was added by an incremental       *)
(* patch, and two captures of the overlay in cells 3 and 4 were compiled.    *)
PatchIncremental == P1Calls({2})
PatchBase   == P1Calls({0})
PatchImage  == [p \in Phys |-> CASE p = 0 -> boot [] p = 2 -> game [] OTHER -> boot]
PatchCalls  == P1Calls({2, 3, 4})
PatchWrites == ({2, 4} \X {boot, overlay}) \cup ({3} \X {boot, overlay, variant})
OverlayEntry == [i \in Patch |-> At("P1", 3)]
OverlayPage  == [i \in Patch |-> {3, 4}]
OverlayCode  == [i \in Patch |-> [p \in Phys |-> IF i = p1 THEN overlay ELSE IF p = 3 THEN variant ELSE boot]]
OverlayFns   == [i \in Patch |-> IF i = p1 THEN P1Calls({3, 4}) ELSE P1Calls({3})]
=============================================================================
