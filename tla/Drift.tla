-------------------------------- MODULE Drift --------------------------------
(***************************************************************************)
(* Scope drift: how specctl judges the commits made since a specification  *)
(* was last reviewed (infrastructure/workspace.go), while deltas are opened *)
(* and settled, the review anchor moves, and git rewrites history below it. *)
(*                                                                         *)
(* A commit is a number, larger than its parent's, and has one parent: the *)
(* merge commits that the log of a tracking file may meet are not modelled. *)
(* Only committed content of the governed files (the scope and the primary  *)
(* document) matters, so the working copies of these files are left out;     *)
(* the tracking file is judged as it is on disk, and what git keeps of it is *)
(* modelled with it.  Requirements are left out: here a delta may settle at  *)
(* any time, and the other conditions of "sync" and "rev bump" may or may    *)
(* not hold.                                                                 *)
(***************************************************************************)
EXTENDS Naturals, Sequences, FiniteSetsExt

CONSTANTS
  GovernedFiles,  \* the primary document and the files of the scope
  Contents,       \* what such a file may contain, or NoFile
  MaxCommits,     \* bound: commits ever made
  MaxDeltas       \* bound: deltas in the tracking file

ASSUME CommitsAssumption == MaxCommits \in Nat \ {0} /\ MaxDeltas \in Nat

VARIABLES
  objects,   \* the commits git still has, by number
  head,      \* the commit HEAD names
  made,      \* the number of the last commit made
  tracking   \* the tracking file on disk

vars == <<objects, head, made, tracking>>

DeltaStatuses == {"live", "deferred", "settled"}

CommitIds == 1 .. MaxCommits

Delta == [status: DeltaStatuses, origin: CommitIds]

Tracking == [deltas: Seq(Delta), checkpoint: CommitIds]

NoTracking == [deltas |-> << >>]   \* a commit from before "spec create"

Commit ==
  [parent: {0} \cup CommitIds, files: [GovernedFiles -> Contents], tracking: Tracking \cup {NoTracking}]

TypeOK ==
  /\ DOMAIN objects \subseteq 1 .. made
  /\ \A c \in DOMAIN objects : objects[c] \in Commit
  /\ made \in CommitIds
  /\ head \in DOMAIN objects
  /\ tracking \in Tracking

(* "spec create" anchors the new tracking file at HEAD. *)
Init ==
  /\ \E files \in [GovernedFiles -> Contents] :
       objects = [c \in {1} |-> [parent |-> 0, files |-> files, tracking |-> NoTracking]]
  /\ head = 1
  /\ made = 1
  /\ tracking = [deltas |-> << >>, checkpoint |-> 1]

-----------------------------------------------------------------------------
(* What git answers. *)

Resolves(commit) == commit \in DOMAIN objects

(* A set of commits with the parent of each of them. *)
Histories == {H \in SUBSET DOMAIN objects : \A c \in H : objects[c].parent \in H \cup {0}}

(* git log from "commit": itself and its ancestors, none of which can be    *)
(* collected.                                                                *)
Log(commit) == {c \in DOMAIN objects : \A H \in Histories : commit \in H => c \in H}

(* git diff --name-only over the governed files. *)
DiffNames(from, to) == {f \in GovernedFiles : objects[from].files[f] # objects[to].files[f]}

-----------------------------------------------------------------------------
(* Classification. *)

Changed == DiffNames(tracking.checkpoint, head)

Recording(d) == {c \in Log(head) : d \in DOMAIN objects[c].tracking.deltas}

(* Mutant: the newest commit that records the delta. *)
Introduction_Newest(d) == IF Recording(d) = {} THEN head ELSE Max(Recording(d))

(* Mutant: the first commit of this branch, whatever it records. *)
Introduction_Root(d) == IF Recording(d) = {} THEN head ELSE Min(Log(head))

(* The first commit of this branch whose tracking file has the delta's ID;  *)
(* a delta in none of them counts as introduced by HEAD.                     *)
Introduction(d) == IF Recording(d) = {} THEN head ELSE Min(Recording(d))

(* What changed between the checkpoint and the introduction of a delta that *)
(* is open or in progress and was opened at this checkpoint.                 *)
Coverage(d) ==
  LET delta == tracking.deltas[d]
  IN IF delta.status = "live" /\ delta.origin = tracking.checkpoint
     THEN DiffNames(tracking.checkpoint, Introduction(d))
     ELSE {}

TrackedBy == {d \in DOMAIN tracking.deltas : Coverage(d) \cap Changed # {}}

DriftStatus ==
  IF ~Resolves(tracking.checkpoint) THEN "unavailable"
  ELSE IF Changed = {} THEN "clean"
  ELSE IF Changed \subseteq UNION {Coverage(d) : d \in TrackedBy} THEN "tracked"
  ELSE "drifted"

-----------------------------------------------------------------------------
(* Commands. *)

Live == {d \in DOMAIN tracking.deltas : tracking.deltas[d].status = "live"}

SetStatus(d, from, to) ==
  /\ tracking.deltas[d].status \in from
  /\ tracking' = [tracking EXCEPT !.deltas[d].status = to]
  /\ UNCHANGED <<objects, head, made>>

(* Mutant: a delta is anchored at HEAD. *)
AddDelta_AtHead ==
  /\ Len(tracking.deltas) < MaxDeltas
  /\ tracking' = [tracking EXCEPT !.deltas = Append(@, [status |-> "live", origin |-> head])]
  /\ UNCHANGED <<objects, head, made>>

AddDelta ==
  /\ Len(tracking.deltas) < MaxDeltas
  /\ tracking' = [tracking EXCEPT
       !.deltas = Append(@, [status |-> "live", origin |-> tracking.checkpoint])]
  /\ UNCHANGED <<objects, head, made>>

DeferDelta(d)  == SetStatus(d, {"live"}, "deferred")

(* Mutant: a resumed delta is given a status of its own. *)
ResumeDelta_NewStatus(d) == SetStatus(d, {"deferred"}, "resumed")

ResumeDelta(d) == SetStatus(d, {"deferred"}, "live")   \* its origin stays
SettleDelta(d) == SetStatus(d, {"live", "deferred"}, "settled")   \* close or withdraw

(* Mutant: "sync" does not look for deltas in flight. *)
MoveCheckpoint_InFlight(commit) ==
  /\ Resolves(commit)
  /\ tracking' = [tracking EXCEPT !.checkpoint = commit]
  /\ UNCHANGED <<objects, head, made>>

(* "sync" and "rev bump": any commit git can resolve, no delta in flight. *)
MoveCheckpoint(commit) ==
  /\ Resolves(commit)
  /\ Live = {}
  /\ tracking' = [tracking EXCEPT !.checkpoint = commit]
  /\ UNCHANGED <<objects, head, made>>

-----------------------------------------------------------------------------
(* Git. *)

(* The governed files as the author left them, with or without the tracking *)
(* file.                                                                     *)
MakeCommit(files, committed) ==
  LET commit == [parent |-> head, files |-> files, tracking |-> committed]
  IN /\ made < MaxCommits
     /\ objects' = [c \in DOMAIN objects \cup {made + 1} |-> IF c = made + 1 THEN commit ELSE objects[c]]
     /\ made' = made + 1
     /\ head' = made + 1
     /\ UNCHANGED tracking

(* git reset or git checkout: the tracking file on disk stays (--mixed) or  *)
(* goes along with the commit; the commits left behind are kept for a while. *)
Reset(commit) ==
  /\ commit # head
  /\ head' = commit
  /\ \/ UNCHANGED tracking
     \/ objects[commit].tracking # NoTracking /\ tracking' = objects[commit].tracking
  /\ UNCHANGED <<objects, made>>

(* git gc, or a fresh clone: nothing refers to a checkpoint. *)
Collect ==
  /\ objects' = [c \in Log(head) |-> objects[c]]
  /\ UNCHANGED <<head, made, tracking>>

(* git revert or git checkout of the tracking file alone. *)
RestoreTracking(commit) ==
  /\ commit \in Log(head)
  /\ objects[commit].tracking # NoTracking
  /\ tracking' = objects[commit].tracking
  /\ UNCHANGED <<objects, head, made>>

DeltaCommand ==
  \/ AddDelta
  \/ \E d \in DOMAIN tracking.deltas : DeferDelta(d)
  \/ \E d \in DOMAIN tracking.deltas : ResumeDelta(d)
  \/ \E d \in DOMAIN tracking.deltas : SettleDelta(d)

Review == \E c \in DOMAIN objects : MoveCheckpoint(c)

Git ==
  \/ \E files \in [GovernedFiles -> Contents] : MakeCommit(files, objects[head].tracking)
  \/ \E files \in [GovernedFiles -> Contents] : MakeCommit(files, tracking)
  \/ \E c \in DOMAIN objects : Reset(c)
  \/ \E c \in DOMAIN objects : RestoreTracking(c)
  \/ Collect

Next == DeltaCommand \/ Review \/ Git

Spec == Init /\ [][Next]_vars

-----------------------------------------------------------------------------
(* Properties. *)

(* "tracked" never hides a file that changed only after the work on it was  *)
(* recorded: each changed file already differed from the checkpoint in a     *)
(* commit of this branch made before, or together with, the record of one    *)
(* open delta of this review cycle.                                          *)
TrackedHidesNothingLate ==
  DriftStatus = "tracked" =>
    \A f \in Changed : \E d \in Live, c \in Log(head) :
      /\ tracking.deltas[d].origin = tracking.checkpoint
      /\ f \in DiffNames(tracking.checkpoint, c)
      /\ \A b \in Log(head) : b < c => d \notin DOMAIN objects[b].tracking.deltas

(* Committing the tracking file by itself is neutral: the open delta that   *)
(* covers everything while only the disk has it covers the same once git     *)
(* has it.                                                                    *)
CommittingTrackingIsNeutral ==
  [][MakeCommit(objects[head].files, tracking) => DriftStatus' = DriftStatus]_vars

(* What the commands do to the drift, whatever git did before: deltas only  *)
(* turn drift into tracked drift and back, a new delta whose ID this branch  *)
(* never recorded tracks all of it, and moving the checkpoint ends the cycle: *)
(* no delta covers what is left, and at HEAD nothing is left.                 *)
CommandsMoveDrift ==
  [][/\ (DeltaCommand /\ DriftStatus' # DriftStatus)
          => {DriftStatus, DriftStatus'} = {"drifted", "tracked"}
     /\ (AddDelta /\ DriftStatus = "drifted" /\ Recording(Len(tracking.deltas) + 1) = {})
          => DriftStatus' = "tracked"
     /\ Review => /\ DriftStatus' # "tracked"
                  /\ tracking'.checkpoint = head => DriftStatus' = "clean"]_vars
=============================================================================
