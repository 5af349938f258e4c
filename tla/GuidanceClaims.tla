--------------------------- MODULE GuidanceClaims ---------------------------
(***************************************************************************)
(* A statement SPEC.md makes about the next actions and that the code does *)
(* not keep.  The run that checks it is expected to find the               *)
(* counterexample.                                                         *)
(***************************************************************************)
EXTENDS Guidance

(* SPEC.md:24 - specctl "keeps agents inside legal specctl transitions".   *)
(* While the drift is tracked by a delta whose work can be recorded,        *)
(* "context" proposes no command that is refused.  The code decides by the  *)
(* requirements a delta introduced whether its work is recorded, and a       *)
(* remove or repair delta introduces none.                                   *)
ContextIsLegal ==
  (DriftStatus = "tracked" /\ Anchored /\ SpecDocReady) =>
    \A s \in ContextNext : ENABLED Accept(s)
=============================================================================
