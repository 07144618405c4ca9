--------------------------- MODULE DispatchClaims ---------------------------
(***************************************************************************)
(* What the notes of the repository say about native patches over          *)
(* rewritten memory, stated exactly; what the code does refutes it.        *)
(***************************************************************************)
EXTENDS Dispatch

EntersPatch == Entered /\ Native /\ dynSig'[Callee.target] # NoPatch

CalleeMatches == SnapshotMatches(dynSig'[Callee.target], ram')

(* The dynamic patch is checked against all of its snapshot on every native  *)
(* dispatch, and the interpreter takes over when memory changed.  Refuted by *)
(* the fast path that generated code runs inline, by the calls of            *)
(* EscapesCheck, and by a relocation to a patch that was itself rewritten.   *)
NativeDispatchesRecheckPatches ==
  [][ EntersPatch => CalleeMatches ]_vars
=============================================================================
