---------------------------- MODULE MCRepoWrites ----------------------------
(***************************************************************************)
(* Symmetry of the TLC instances of RepoWrites: processes, charters, slugs *)
(* and tags are interchangeable.                                            *)
(***************************************************************************)
EXTENDS RepoWrites, TLC

RepoSymmetry ==
  Permutations(Procs) \cup Permutations(Charters) \cup Permutations(Slugs) \cup Permutations(Tags)
=============================================================================
