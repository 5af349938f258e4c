----------------------------- MODULE RepoWrites -----------------------------
(***************************************************************************)
(* How specctl processes - command lines and MCP servers - read, preview   *)
(* and write the files of one repository.  There is no lock and no version *)
(* check: a process loads, decides, previews the whole repository with its *)
(* writes in place, and replaces one file after the other, each by a       *)
(* rename.  Any of these steps interleaves with those of other processes,   *)
(* may fail, or may be the last one before a crash.                         *)
(***************************************************************************)
EXTENDS RepoFiles

CONSTANTS
  Procs,      \* processes
  Exclusion,  \* the discipline of the users: see MayStart
  Faults      \* what can go wrong

ASSUME ExclusionAssumption == Exclusion \in {"none", "target", "all"}
ASSUME FaultsAssumption == Faults \subseteq {"rename", "backup", "restore", "crash"}

VARIABLES
  disk,   \* the contents of all files
  phase,  \* what each process is doing
  cmd,    \* the command it runs
  todo,   \* the writes it planned and has not committed
  undo,   \* the backups of the files it replaced, newest first
  seen,   \* the first part of the repository snapshot it is reading
  acked   \* requirements whose "req add" reported success (history)

vars == <<disk, phase, cmd, todo, undo, seen, acked>>

Phases == {"idle", "planned", "reading", "writing", "rollback"}
Read    == [op |-> "context"]
Nothing == [op |-> "none"]
Unread  == [f \in Files |-> Absent]
WriteRecord == [file: Files, data: Contents]

TypeOK ==
  /\ disk \in [Files -> Contents]
  /\ phase \in [Procs -> Phases]
  /\ cmd \in [Procs -> Commands \cup {Read, Nothing}]
  /\ todo \in [Procs -> Seq(WriteRecord)]
  /\ undo \in [Procs -> Seq(WriteRecord)]
  /\ seen \in [Procs -> [Files -> Contents]]
  /\ acked \subseteq Specs \X Tags

Init ==
  /\ disk \in InitialDisks
  /\ phase = [p \in Procs |-> "idle"]
  /\ cmd = [p \in Procs |-> Nothing]
  /\ todo = [p \in Procs |-> << >>]
  /\ undo = [p \in Procs |-> << >>]
  /\ seen = [p \in Procs |-> Unread]
  /\ acked = {}

-----------------------------------------------------------------------------

Busy(p) == phase[p] # "idle"

(* The files a running command has replaced or is going to replace. *)
TargetsOf(p) == Targets(todo[p]) \cup Targets(undo[p])

(* Nothing in the code keeps two commands apart.  "all": the users run one  *)
(* writing command at a time in the repository; "target": one per target    *)
(* file, the contract of SPEC.md section 23; "none": any number.            *)
MayStart(p, writes) ==
  \A q \in Procs \ {p} :
    Busy(q) => CASE Exclusion = "all"    -> cmd[q] = Read
                 [] Exclusion = "target" -> TargetsOf(q) \cap Targets(writes) = {}
                 [] OTHER                -> TRUE

(* Load and decide: existence checks, strict reads, guards of the command,  *)
(* and the contents to write, all from what the files hold now.              *)
Start(p, c) ==
  /\ phase[p] = "idle"
  /\ Legal(c, disk)
  /\ MayStart(p, Plan(c, disk))
  /\ phase' = [phase EXCEPT ![p] = "planned"]
  /\ cmd' = [cmd EXCEPT ![p] = c]
  /\ todo' = [todo EXCEPT ![p] = Plan(c, disk)]
  /\ UNCHANGED <<disk, undo, seen, acked>>

(* A read command takes the same snapshot as a preview, with no writes in it. *)
StartRead(p) ==
  /\ phase[p] = "idle"
  /\ phase' = [phase EXCEPT ![p] = "planned"]
  /\ cmd' = [cmd EXCEPT ![p] = Read]
  /\ UNCHANGED <<disk, todo, undo, seen, acked>>

(* The snapshot is read file by file: config, then tracking files with their *)
(* documents, then charters.                                                 *)
ReadTrackings(p) ==
  /\ phase[p] = "planned"
  /\ phase' = [phase EXCEPT ![p] = "reading"]
  /\ seen' = [seen EXCEPT ![p] = [f \in Files |-> IF f \in CharterFiles THEN Absent ELSE disk[f]]]
  /\ UNCHANGED <<disk, cmd, todo, undo, acked>>

Snapshot(p) ==
  Overlay([f \in Files |-> IF f \in CharterFiles THEN disk[f] ELSE seen[p][f]], todo[p])

Done(p) ==
  /\ phase' = [phase EXCEPT ![p] = "idle"]
  /\ cmd' = [cmd EXCEPT ![p] = Nothing]
  /\ todo' = [todo EXCEPT ![p] = << >>]
  /\ undo' = [undo EXCEPT ![p] = << >>]
  /\ seen' = [seen EXCEPT ![p] = Unread]

(* Mutant: the findings of the preview are ignored. *)
AcceptPreview_Unchecked(p) ==
  /\ phase[p] = "reading"
  /\ cmd[p] # Read
  /\ phase' = [phase EXCEPT ![p] = "writing"]
  /\ seen' = [seen EXCEPT ![p] = Unread]
  /\ UNCHANGED <<disk, cmd, todo, undo, acked>>

AcceptPreview(p) ==
  /\ phase[p] = "reading"
  /\ cmd[p] # Read
  /\ Audit(Snapshot(p))
  /\ phase' = [phase EXCEPT ![p] = "writing"]
  /\ seen' = [seen EXCEPT ![p] = Unread]
  /\ UNCHANGED <<disk, cmd, todo, undo, acked>>

RefusePreview(p) ==
  /\ phase[p] = "reading"
  /\ cmd[p] # Read
  /\ ~Audit(Snapshot(p))
  /\ Done(p)
  /\ UNCHANGED <<disk, acked>>

FinishRead(p) ==
  /\ phase[p] = "reading"
  /\ cmd[p] = Read
  /\ Done(p)
  /\ UNCHANGED <<disk, acked>>

-----------------------------------------------------------------------------
(* CommitWritesAtomicallyWithRollback. *)

Committing(p) == phase[p] = "writing" /\ todo[p] # << >>

(* Mutant: the backup is taken after the rename. *)
Rename_BackupAfter(p) ==
  LET write == Head(todo[p])
  IN /\ Committing(p)
     /\ disk' = [disk EXCEPT ![write.file] = write.data]
     /\ undo' = [undo EXCEPT ![p] = <<write>> \o @]
     /\ todo' = [todo EXCEPT ![p] = Tail(@)]
     /\ UNCHANGED <<phase, cmd, seen, acked>>

(* Back the file up in memory, then rename the staged file over it. *)
Rename(p) ==
  LET write == Head(todo[p])
  IN /\ Committing(p)
     /\ disk' = [disk EXCEPT ![write.file] = write.data]
     /\ undo' = [undo EXCEPT ![p] = <<Write(write.file, disk[write.file])>> \o @]
     /\ todo' = [todo EXCEPT ![p] = Tail(@)]
     /\ UNCHANGED <<phase, cmd, seen, acked>>

(* Mutant: a failed rename does not roll back. *)
RenameFails_NoRollback(p) ==
  /\ "rename" \in Faults
  /\ Committing(p)
  /\ Done(p)
  /\ UNCHANGED <<disk, acked>>

RenameFails(p) ==
  /\ "rename" \in Faults
  /\ Committing(p)
  /\ phase' = [phase EXCEPT ![p] = "rollback"]
  /\ UNCHANGED <<disk, cmd, todo, undo, seen, acked>>

(* The backup of the next file fails: the error path removes the staged     *)
(* files but does not roll the committed ones back.                          *)
BackupFails(p) ==
  /\ "backup" \in Faults
  /\ Committing(p)
  /\ Done(p)
  /\ UNCHANGED <<disk, acked>>

(* rollbackWrites: newest first; a file that did not exist is removed. *)
Restore(p) ==
  /\ phase[p] = "rollback"
  /\ undo[p] # << >>
  /\ disk' = [disk EXCEPT ![Head(undo[p]).file] = Head(undo[p]).data]
  /\ undo' = [undo EXCEPT ![p] = Tail(@)]
  /\ UNCHANGED <<phase, cmd, todo, seen, acked>>

(* Its errors are ignored. *)
RestoreFails(p) ==
  /\ "restore" \in Faults
  /\ phase[p] = "rollback"
  /\ undo[p] # << >>
  /\ undo' = [undo EXCEPT ![p] = Tail(@)]
  /\ UNCHANGED <<disk, phase, cmd, todo, seen, acked>>

ReportFailure(p) ==
  /\ phase[p] = "rollback"
  /\ undo[p] = << >>
  /\ Done(p)
  /\ UNCHANGED <<disk, acked>>

ReportSuccess(p) ==
  /\ phase[p] = "writing"
  /\ todo[p] = << >>
  /\ acked' = IF cmd[p].op = "req add" THEN acked \cup {<<cmd[p].spec, cmd[p].tag>>} ELSE acked
  /\ Done(p)
  /\ UNCHANGED disk

(* What a killed process held in memory is gone, its backups included. *)
Crash(p) ==
  /\ "crash" \in Faults
  /\ Busy(p)
  /\ Done(p)
  /\ UNCHANGED <<disk, acked>>

Step(p) ==
  \/ ReadTrackings(p) \/ AcceptPreview(p) \/ RefusePreview(p) \/ FinishRead(p)
  \/ Rename(p) \/ Restore(p) \/ ReportSuccess(p) \/ ReportFailure(p)

Fault(p) == RenameFails(p) \/ BackupFails(p) \/ RestoreFails(p) \/ Crash(p)

Next ==
  \E p \in Procs :
    \/ \E c \in Commands : Start(p, c)
    \/ StartRead(p)
    \/ Step(p)
    \/ Fault(p)

Spec == Init /\ [][Next]_vars

-----------------------------------------------------------------------------
(* Properties. *)

Idle == \A p \in Procs : ~Busy(p)

(* Whenever no command is running, the next one finds a repository the      *)
(* audit accepts: nothing is half written, every tag in use is configured.   *)
CleanWhenIdle == Idle => Audit(disk)

(* A requirement whose "req add" reported success is never lost: no later   *)
(* command replaces the file from an older copy, and no rollback of another  *)
(* command takes it away.                                                    *)
AcknowledgedKept ==
  \A s \in Specs, t \in Tags :
    <<s, t>> \in acked => Exists(disk, TrackingOf(s)) /\ t \in disk[TrackingOf(s)]

(* However the last command ended, some command repairs the repository: it  *)
(* would be accepted now, and what it leaves behind is clean.                *)
Repairable == Idle => \E c \in Commands : Accepted(c, disk)

(* The repository as everybody else should see it: a command's writes count *)
(* when the last of them is in place.                                        *)
Pending(p) == IF phase[p] = "rollback" \/ Committing(p) THEN undo[p] ELSE << >>

Visible ==
  [f \in Files |->
     IF \E p \in Procs : f \in Targets(Pending(p))
     THEN Overlay(disk, Pending(CHOOSE p \in Procs : f \in Targets(Pending(p))))[f]
     ELSE disk[f]]

Atomic == INSTANCE AtomicRepo WITH files <- Visible

(* With one writer at a time and renames that may fail, the steps of a      *)
(* command amount to the single step AtomicRepo allows, or to none.          *)
ImplementsAtomicRepo == Atomic!Spec
=============================================================================
