------------------------------- MODULE MCDrift -------------------------------
(***************************************************************************)
(* Bounds and symmetries of the TLC instance of Drift.  Governed files and  *)
(* their contents are only compared for equality.                            *)
(***************************************************************************)
EXTENDS Drift, TLC

DataSymmetry == Permutations(GovernedFiles) \cup Permutations(Contents)

(* History is rewritten before the second delta is opened. *)
OneWorkLine == Len(tracking.deltas) <= 1 \/ DOMAIN objects = Log(head)

(* Of two deltas one is in flight. *)
OneInFlight == Len(tracking.deltas) <= 1 \/ Live # {}
=============================================================================
