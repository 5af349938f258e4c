--------------------------- MODULE SpecLifecycle ---------------------------
(***************************************************************************)
(* The governance state machine of one specctl specification: every write  *)
(* command of application/spec_writes.go on one tracking file, the SPEC.md *)
(* the agent edits beside it, and the repository files its evidence and    *)
(* its documents name.  One action is one command that succeeds: a command *)
(* that is refused writes nothing and is a stuttering step.                *)
(***************************************************************************)
EXTENDS TrackingFile

CONSTANTS
  SecondaryDocs,  \* markdown paths offered to "doc add"
  Commits         \* git revisions that --checkpoint can resolve to

ASSUME CommitsAssumption == Commits # {}

VARIABLES
  deltas,      \* Seq(Delta), the delta D-00i at position i
  reqs,        \* Seq(Requirement), the requirement REQ-00i at position i
  status,      \* the stored status of the specification
  rev,         \* the stored revision number
  checkpoint,  \* the commit the specification was last reviewed at
  changelog,   \* Seq of the entries "rev bump" appended
  secondary,   \* documents.secondary
  doc,         \* the blocks that occur exactly once in SPEC.md
  repoFiles    \* the test files and secondary documents that exist on disk

tracking == <<deltas, reqs, status, rev, checkpoint, changelog, secondary>>
world    == <<doc, repoFiles>>
vars     == <<tracking, world>>

ChangelogEntry ==
  [rev: Nat, opened: SUBSET Nat, closed: SUBSET Nat, withdrawn: SUBSET Nat,
   added: SUBSET Nat, verified: SUBSET Nat]

TypeOK ==
  /\ deltas \in Seq(Delta)
  /\ reqs \in Seq(Requirement)
  /\ status \in SpecStatuses
  /\ rev \in Nat \ {0}
  /\ checkpoint \in Commits
  /\ changelog \in Seq(ChangelogEntry)
  /\ secondary \subseteq SecondaryDocs
  /\ doc \subseteq Blocks
  /\ repoFiles \subseteq TestFiles \cup SecondaryDocs

(* "spec create" leaves an empty file at revision 1, anchored at HEAD. *)
Init ==
  /\ deltas = << >>
  /\ reqs = << >>
  /\ status = "draft"
  /\ rev = 1
  /\ checkpoint \in Commits
  /\ changelog = << >>
  /\ secondary = {}
  /\ doc = {}
  /\ repoFiles = TestFiles \cup SecondaryDocs

-----------------------------------------------------------------------------
(* Reading before a write, and the gate every write passes. *)

(* The evidence of every verified requirement that is not @manual exists,   *)
(* whatever its lifecycle, and so does every secondary document.             *)
FilesExist(rs, docs) ==
  /\ docs \subseteq repoFiles
  /\ \A r \in DOMAIN rs :
       (rs[r].verification = "verified" /\ ~IsManual(rs[r])) => rs[r].files \subseteq repoFiles

StoredStatusCurrent == status = ComputedStatus(deltas, reqs)

(* loadSpecForMutation: the strict reader refuses a file that is invalid. *)
Loadable == ValidTracking(deltas, reqs) /\ StoredStatusCurrent /\ FilesExist(reqs, secondary)

(* Mutant: the candidate is written without previewing the repository. *)
Save_NoPreview(ds, rs) ==
  /\ Loadable
  /\ ValidTracking(ds, rs)
  /\ deltas' = ds
  /\ reqs' = rs
  /\ status' = ComputedStatus(ds, rs)

(* finalizeSpecMutation: recompute the status, validate the candidate,     *)
(* preview the repository with it, then replace the file.                  *)
Save(ds, rs) ==
  /\ Loadable
  /\ ValidTracking(ds, rs)
  /\ FilesExist(rs, secondary)
  /\ deltas' = ds
  /\ reqs' = rs
  /\ status' = ComputedStatus(ds, rs)

SaveDeltas(ds) ==
  Save(ds, reqs) /\ UNCHANGED <<rev, checkpoint, changelog, secondary, world>>

SaveRequirements(ds, rs) ==
  Save(ds, rs) /\ UNCHANGED <<rev, checkpoint, changelog, secondary, world>>

(* A requirement matches when its exact block occurs once in SPEC.md; no   *)
(* occurrence, several, or only its title are the blocking match statuses.  *)
Matched(r) == reqs[r].block \in doc

ActiveReqs == {r \in DOMAIN reqs : IsActive(reqs[r])}

-----------------------------------------------------------------------------
(* Delta commands. *)

(* A repair can only progress through "req stale", which a closed delta that *)
(* affects the requirement forbids.                                          *)
RepairConflict(affected) ==
  \E d \in DOMAIN deltas : deltas[d].status = "closed" /\ deltas[d].affects \cap affected # {}

AddDelta(intent, affected) ==
  /\ IF intent = "add" THEN affected = {} ELSE affected # {}
  /\ affected \subseteq ActiveReqs
  /\ intent = "repair" => ~RepairConflict(affected)
  /\ SaveDeltas(Append(deltas, NewDelta(intent, affected)))

Transition(d, from, to) ==
  /\ deltas[d].status \in from
  /\ SaveDeltas([deltas EXCEPT ![d].status = to])

StartDelta(d)  == Transition(d, {"open"}, "in-progress")
DeferDelta(d)  == Transition(d, {"open", "in-progress"}, "deferred")

(* Mutant: a resumed delta is given a status of its own. *)
ResumeDelta_NewStatus(d) == Transition(d, {"deferred"}, "resumed")

ResumeDelta(d) == Transition(d, {"deferred"}, "open")

(* Mutant: SPEC.md is not compared with the requirements. *)
CloseDelta_Unmatched(d) ==
  /\ UpdatesResolved(deltas, reqs, d)
  /\ BlockingForClosure(deltas, reqs, d) = {}
  /\ Transition(d, {"open", "in-progress"}, "closed")

CloseDelta(d) ==
  /\ UpdatesResolved(deltas, reqs, d)
  /\ \A r \in TouchedBy(deltas, reqs, d) : IsActive(reqs[r]) => Matched(r)
  /\ BlockingForClosure(deltas, reqs, d) = {}
  /\ Transition(d, {"open", "in-progress"}, "closed")

Unsettled == {"open", "in-progress", "deferred"}

(* Any requirement may take the place of "from", whatever its lifecycle; *)
(* --remove gives no replacement.                                        *)
RebindDelta(d, from, replacement) ==
  /\ deltas[d].status \in Unsettled
  /\ from \in deltas[d].affects
  /\ replacement \subseteq DOMAIN reqs
  /\ SaveDeltas([deltas EXCEPT ![d].affects = (@ \ {from}) \cup replacement])

WithdrawDelta(d) ==
  /\ TracingRequirements(reqs, d) \cap ActiveReqs = {}
  /\ Transition(d, Unsettled, "withdrawn")

-----------------------------------------------------------------------------
(* Requirement commands.  None of them looks at the status of its delta. *)

DeltaAllows(d, update) == AllowedUpdate(deltas[d].intent) = update

AddRequirement(d, block) ==
  /\ DeltaAllows(d, "add_requirement")
  /\ block \in doc
  /\ SaveRequirements(deltas, Append(reqs, NewRequirement(block, d)))

(* Mutant: every delta follows, the settled ones too. *)
AutoRebind_Settled(parent, old, new) ==
  [d \in DOMAIN deltas |->
     IF d # parent /\ old \in deltas[d].affects
     THEN [deltas[d] EXCEPT !.affects = (@ \ {old}) \cup {new}]
     ELSE deltas[d]]

(* Mutant: a deferred delta is left behind. *)
AutoRebind_NotDeferred(parent, old, new) ==
  [d \in DOMAIN deltas |->
     IF /\ d # parent
        /\ deltas[d].status \in {"open", "in-progress"}
        /\ old \in deltas[d].affects
     THEN [deltas[d] EXCEPT !.affects = (@ \ {old}) \cup {new}]
     ELSE deltas[d]]

(* Every other unsettled delta that affects the old requirement follows it. *)
AutoRebind(parent, old, new) ==
  [d \in DOMAIN deltas |->
     IF d # parent /\ deltas[d].status \in Unsettled /\ old \in deltas[d].affects
     THEN [deltas[d] EXCEPT !.affects = (@ \ {old}) \cup {new}]
     ELSE deltas[d]]

(* Mutant: the successor does not name the requirement it replaces. *)
ReplaceRequirement_OneWay(d, r, block) ==
  LET new == Len(reqs) + 1
      old == [reqs[r] EXCEPT !.lifecycle = "superseded", !.supersededBy = new]
  IN /\ r \in ActiveReqs
     /\ DeltaAllows(d, "replace_requirement")
     /\ r \in deltas[d].affects
     /\ block \in doc
     /\ block # reqs[r].block
     /\ SaveRequirements(AutoRebind(d, r, new),
                         Append([reqs EXCEPT ![r] = old], NewRequirement(block, d)))

ReplaceRequirement(d, r, block) ==
  LET new == Len(reqs) + 1
      old == [reqs[r] EXCEPT !.lifecycle = "superseded", !.supersededBy = new]
      successor == [NewRequirement(block, d) EXCEPT !.supersedes = r]
  IN /\ r \in ActiveReqs
     /\ DeltaAllows(d, "replace_requirement")
     /\ r \in deltas[d].affects
     /\ block \in doc
     /\ block # reqs[r].block
     /\ SaveRequirements(AutoRebind(d, r, new), Append([reqs EXCEPT ![r] = old], successor))

WithdrawRequirement(d, r) ==
  /\ r \in ActiveReqs
  /\ DeltaAllows(d, "withdraw_requirement")
  /\ SaveRequirements(deltas, [reqs EXCEPT ![r].lifecycle = "withdrawn"])

StaleRequirement(d, r) ==
  /\ r \in ActiveReqs
  /\ DeltaAllows(d, "stale_requirement")
  /\ SaveRequirements(deltas, [reqs EXCEPT ![r].verification = "stale"])

(* A change, remove or repair already recorded against the requirement      *)
(* blocks a refresh unless its delta is closed or deferred.                  *)
RefreshConflict(r) ==
  \E d \in DeltasTouching(deltas, reqs, r) :
     deltas[d].intent # "add" /\ deltas[d].status \notin {"closed", "deferred"}

(* Mutant: a requirement that is no longer active can be refreshed. *)
RefreshRequirement_AnyLifecycle(r, block) ==
  /\ block \in doc
  /\ block # reqs[r].block
  /\ ~RefreshConflict(r)
  /\ SaveRequirements(deltas, [reqs EXCEPT ![r].block = block])

RefreshRequirement(r, block) ==
  /\ r \in ActiveReqs
  /\ block \in doc
  /\ block # reqs[r].block
  /\ ~RefreshConflict(r)
  /\ SaveRequirements(deltas, [reqs EXCEPT ![r].block = block])

(* New evidence is merged into the old; repeating it is a read. *)
VerifyRequirement(r, files) ==
  LET merged == reqs[r].files \cup files
      verified == [reqs[r] EXCEPT !.verification = "verified", !.files = merged]
  IN /\ r \in ActiveReqs
     /\ Matched(r)
     /\ files \subseteq repoFiles
     /\ files # {} \/ IsManual(reqs[r])
     /\ verified # reqs[r]
     /\ SaveRequirements(deltas, [reqs EXCEPT ![r] = verified])

-----------------------------------------------------------------------------
(* Revision and document commands. *)

RecordedOpened    == UNION {changelog[i].opened    : i \in DOMAIN changelog}
RecordedClosed    == UNION {changelog[i].closed    : i \in DOMAIN changelog}
RecordedWithdrawn == UNION {changelog[i].withdrawn : i \in DOMAIN changelog}
RecordedAdded     == UNION {changelog[i].added     : i \in DOMAIN changelog}
RecordedVerified  == UNION {changelog[i].verified  : i \in DOMAIN changelog}

WithStatus(s) == {d \in DOMAIN deltas : deltas[d].status = s}
VerifiedReqs  == {r \in DOMAIN reqs : reqs[r].verification = "verified"}

(* Mutant: every closed delta is listed again by every entry. *)
NextEntry_ClosedAgain ==
  [rev       |-> rev + 1,
   opened    |-> DOMAIN deltas \ RecordedOpened,
   closed    |-> WithStatus("closed"),
   withdrawn |-> WithStatus("withdrawn") \ RecordedWithdrawn,
   added     |-> DOMAIN reqs \ RecordedAdded,
   verified  |-> VerifiedReqs \ RecordedVerified]

(* The changelog, not the checkpoint's baseline, decides what is new. *)
NextEntry ==
  [rev       |-> rev + 1,
   opened    |-> DOMAIN deltas \ RecordedOpened,
   closed    |-> WithStatus("closed") \ RecordedClosed,
   withdrawn |-> WithStatus("withdrawn") \ RecordedWithdrawn,
   added     |-> DOMAIN reqs \ RecordedAdded,
   verified  |-> VerifiedReqs \ RecordedVerified]

BumpRevision(commit) ==
  /\ status = "verified"
  /\ \A r \in ActiveReqs : Matched(r)
  /\ NextEntry.closed # {} \/ NextEntry.withdrawn # {}
  /\ Save(deltas, reqs)
  /\ changelog' = Append(changelog, NextEntry)
  /\ rev' = rev + 1
  /\ checkpoint' = commit
  /\ UNCHANGED <<secondary, world>>

(* Mutant: a delta in progress does not hold the checkpoint back. *)
Sync_InProgress(commit) ==
  /\ \A r \in ActiveReqs : Matched(r)
  /\ WithStatus("open") = {}
  /\ Save(deltas, reqs)
  /\ checkpoint' = commit
  /\ UNCHANGED <<rev, changelog, secondary, world>>

Sync(commit) ==
  /\ \A r \in ActiveReqs : Matched(r)
  /\ WithStatus("open") \cup WithStatus("in-progress") = {}
  /\ Save(deltas, reqs)
  /\ checkpoint' = commit
  /\ UNCHANGED <<rev, changelog, secondary, world>>

SaveDocuments(docs) ==
  /\ Loadable
  /\ FilesExist(reqs, docs)
  /\ secondary' = docs
  /\ UNCHANGED <<deltas, reqs, status, rev, checkpoint, changelog, world>>

DocAdd(path)    == path \notin secondary /\ SaveDocuments(secondary \cup {path})
DocRemove(path) == path \in secondary /\ SaveDocuments(secondary \ {path})

-----------------------------------------------------------------------------
(* The agent and its editor: SPEC.md and the files of the repository change *)
(* between any two commands, without specctl.                               *)

EditSpecDoc(block) ==
  /\ doc' = IF block \in doc THEN doc \ {block} ELSE doc \cup {block}
  /\ UNCHANGED <<tracking, repoFiles>>

EditRepoFile(path) ==
  /\ repoFiles' = IF path \in repoFiles THEN repoFiles \ {path} ELSE repoFiles \cup {path}
  /\ UNCHANGED <<tracking, doc>>

DeltaCommand(d) ==
  \/ StartDelta(d)
  \/ DeferDelta(d)
  \/ ResumeDelta(d)
  \/ CloseDelta(d)
  \/ WithdrawDelta(d)
  \/ \E r \in DOMAIN reqs : RebindDelta(d, r, {})
  \/ \E r, to \in DOMAIN reqs : RebindDelta(d, r, {to})

RequirementCommand(r) ==
  \/ \E d \in DOMAIN deltas : WithdrawRequirement(d, r)
  \/ \E d \in DOMAIN deltas : StaleRequirement(d, r)
  \/ \E d \in DOMAIN deltas, b \in Blocks : ReplaceRequirement(d, r, b)
  \/ \E b \in Blocks : RefreshRequirement(r, b)
  \/ \E files \in SUBSET TestFiles : VerifyRequirement(r, files)

Next ==
  \/ \E intent \in Intents, affected \in SUBSET DOMAIN reqs : AddDelta(intent, affected)
  \/ \E d \in DOMAIN deltas : DeltaCommand(d)
  \/ \E d \in DOMAIN deltas, b \in Blocks : AddRequirement(d, b)
  \/ \E r \in DOMAIN reqs : RequirementCommand(r)
  \/ \E c \in Commits : BumpRevision(c)
  \/ \E c \in Commits : Sync(c)
  \/ \E p \in SecondaryDocs : DocAdd(p)
  \/ \E p \in SecondaryDocs : DocRemove(p)
  \/ \E b \in Blocks : EditSpecDoc(b)
  \/ \E p \in TestFiles \cup SecondaryDocs : EditRepoFile(p)

Spec == Init /\ [][Next]_vars

-----------------------------------------------------------------------------
(* Invariants. *)

(* The seal of a closed delta outlives every later command: what it changed *)
(* stays superseded, what it removed stays withdrawn, and every requirement *)
(* it touched that is still active is verified.  The requirement commands   *)
(* do not look at the delta's status, so only the validation in Save keeps  *)
(* "req stale", "req add" and "req withdraw" from breaking an old closure.   *)
ClosedDeltasSealed ==
  \A d \in WithStatus("closed"), r \in DOMAIN reqs :
    LET affected == r \in deltas[d].affects
    IN /\ (affected /\ deltas[d].intent = "change") => reqs[r].lifecycle = "superseded"
       /\ (affected /\ deltas[d].intent = "remove") => reqs[r].lifecycle = "withdrawn"
       /\ ((affected \/ reqs[r].introducedBy = d) /\ IsActive(reqs[r]))
            => reqs[r].verification = "verified"

(* "req replace" leaves a chain that can be walked both ways: a superseded  *)
(* requirement names a later one, which names it back and was introduced by *)
(* a change delta; nothing else carries a link.  Validate checks no link.    *)
SupersessionLinked ==
  \A r \in DOMAIN reqs :
    LET next == reqs[r].supersededBy
        prev == reqs[r].supersedes
    IN /\ reqs[r].lifecycle = "superseded" <=> next # NoReq
       /\ next # NoReq => /\ next \in DOMAIN reqs /\ r < next
                          /\ reqs[next].supersedes = r
                          /\ deltas[reqs[next].introducedBy].intent = "change"
       /\ prev # NoReq => prev \in DOMAIN reqs /\ reqs[prev].supersededBy = r

(* "rev bump" records each delta and each requirement once, in the entry of *)
(* one revision, though it never looks at the entries' order: entries are   *)
(* numbered without gaps, nothing is in two of them, what they call closed  *)
(* or withdrawn still is, and a requirement is never recorded ahead of the  *)
(* delta that introduced it.                                                 *)
ChangelogExact ==
  /\ rev = Len(changelog) + 1
  /\ \A i, j \in DOMAIN changelog :
       /\ changelog[i].rev = i + 1
       /\ i # j => /\ changelog[i].opened \cap changelog[j].opened = {}
                   /\ changelog[i].closed \cap changelog[j].closed = {}
                   /\ changelog[i].withdrawn \cap changelog[j].withdrawn = {}
                   /\ changelog[i].added \cap changelog[j].added = {}
  /\ RecordedClosed \subseteq WithStatus("closed") \cap RecordedOpened
  /\ RecordedWithdrawn \subseteq WithStatus("withdrawn") \cap RecordedOpened
  /\ \A r \in RecordedAdded : reqs[r].introducedBy \in RecordedOpened

(* What the stored status "verified" is worth: no requirement that a live    *)
(* delta touches is unproven, and an unproven active one can only come from *)
(* a delta that was deferred or withdrawn.                                   *)
VerifiedSpecIsProven ==
  status = "verified" =>
    \A r \in ActiveReqs :
      \/ reqs[r].verification = "verified"
      \/ /\ deltas[reqs[r].introducedBy].status \in {"deferred", "withdrawn"}
         /\ \A d \in LiveDeltas(deltas) : r \notin deltas[d].affects

(* Proof is never only a flag: a verified requirement that is not @manual   *)
(* names test files, also after "req refresh" took the @manual tag away and *)
(* after it was superseded, where Validate no longer asks for them.          *)
VerifiedHasEvidence ==
  \A r \in VerifiedReqs : IsManual(reqs[r]) \/ reqs[r].files # {}

-----------------------------------------------------------------------------
(* Action properties. *)

(* Closing and withdrawing are final: whatever command comes later, a       *)
(* settled delta keeps its status and its affected requirements (also while *)
(* "req replace" rebinds the others), and no delta changes its intent or is *)
(* lost.                                                                     *)
SettledDeltasFrozen ==
  [][\A d \in DOMAIN deltas :
       /\ d \in DOMAIN deltas'
       /\ deltas'[d].intent = deltas[d].intent
       /\ deltas[d].status \in {"closed", "withdrawn"} => deltas'[d] = deltas[d]]_vars

(* A requirement that left the active lifecycle never changes again, and no *)
(* requirement disappears or moves to another delta.                         *)
RetiredRequirementsFrozen ==
  [][\A r \in DOMAIN reqs :
       /\ r \in DOMAIN reqs'
       /\ reqs'[r].introducedBy = reqs[r].introducedBy
       /\ ~IsActive(reqs[r]) => reqs'[r] = reqs[r]]_vars

(* specctl never writes a file it would refuse to read: after every write   *)
(* the strict reader of the next command accepts it, although the write was *)
(* judged by other code (Validate and the lenient reader of the audit).      *)
WritesStayLoadable == [][tracking' # tracking => Loadable']_vars

(* The review anchor moves only when no work is in flight and SPEC.md agrees *)
(* with every active requirement.  "rev bump" never looks at the deltas: it  *)
(* relies on the stored status.                                              *)
CheckpointMovesWhenSettled ==
  [][checkpoint' # checkpoint =>
       /\ \A d \in DOMAIN deltas : deltas[d].status \notin {"open", "in-progress"}
       /\ \A r \in ActiveReqs : Matched(r)]_vars

(* Supersession keeps anchors alive: once a requirement is superseded, the  *)
(* deltas still pointing at it are settled ones and the one that replaced it. *)
SupersessionKeepsAnchors ==
  [][\A r \in DOMAIN reqs :
       (IsActive(reqs[r]) /\ reqs'[r].lifecycle = "superseded") =>
         \A d \in DOMAIN deltas' :
           r \in deltas'[d].affects =>
             \/ deltas'[d].status \in {"closed", "withdrawn"}
             \/ d = reqs'[reqs'[r].supersededBy].introducedBy]_vars
=============================================================================
