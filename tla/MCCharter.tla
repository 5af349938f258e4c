------------------------------ MODULE MCCharter ------------------------------
(***************************************************************************)
(* Symmetry of the TLC instance of Charter: the keys of groups are only     *)
(* compared for equality.                                                    *)
(***************************************************************************)
EXTENDS Charter

GroupSymmetry == Permutations(Groups)
=============================================================================
