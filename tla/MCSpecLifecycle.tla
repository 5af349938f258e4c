--------------------------- MODULE MCSpecLifecycle ---------------------------
(***************************************************************************)
(* Bounds and symmetries of the TLC instances of SpecLifecycle.            *)
(***************************************************************************)
EXTENDS SpecGovernance, FiniteSets, TLC

BlockSymmetry == Permutations(Blocks)
FileSymmetry  == Permutations(TestFiles)

(* The agent has written all of SPEC.md before the first delta, and leaves *)
(* it alone.                                                                *)
SpecDocFirst == deltas = << >> \/ doc = Blocks

(* Secondary documents while there is no requirement yet: both depend on    *)
(* files, each on its own.                                                   *)
DocumentsApart ==
  reqs = << >> \/ (secondary = {} /\ SecondaryDocs \subseteq repoFiles)

(* At most one delta at a time is open, deferred or withdrawn; the others   *)
(* are in progress or closed.                                                *)
OneIdle == Cardinality(DOMAIN deltas \ (WithStatus("in-progress") \cup WithStatus("closed"))) <= 1

(* Explore no further once the first revision is recorded. *)
FirstRevision == rev = 1
=============================================================================
