----------------------------- MODULE AtomicRepo -----------------------------
(***************************************************************************)
(* What section 23 of SPEC.md promises of the write commands, whatever the *)
(* number of files they touch: a command replaces everything it plans in   *)
(* one step or changes nothing, and it never leaves a repository the audit *)
(* objects to.                                                              *)
(***************************************************************************)
EXTENDS RepoFiles

VARIABLE files

Init == files \in InitialDisks

Run(cmd) == Accepted(cmd, files) /\ files' = After(cmd, files)

Next == \E cmd \in Commands : Run(cmd)

Spec == Init /\ [][Next]_files
=============================================================================
