------------------------ MODULE SpecLifecycleProofs ------------------------
(***************************************************************************)
(* Machine-checked proofs about SpecLifecycle, for any blocks, test files, *)
(* documents, commits and identifier limits.                               *)
(***************************************************************************)
EXTENDS SpecLifecycle, SequenceTheorems, TLAPS

-----------------------------------------------------------------------------
(* Sequences of deltas and requirements. *)

LEMMA DomainOfSeq ==
  ASSUME NEW S, NEW seq \in Seq(S)
  PROVE  /\ Len(seq) \in Nat
         /\ DOMAIN seq = 1 .. Len(seq)
         /\ \A i \in DOMAIN seq : i \in Nat /\ i # 0 /\ seq[i] \in S
BY ElementOfSeq, LenProperties

LEMMA UpdatedSeq ==
  ASSUME NEW S, NEW seq \in Seq(S), NEW i \in DOMAIN seq, NEW e \in S
  PROVE  /\ [seq EXCEPT ![i] = e] \in Seq(S)
         /\ DOMAIN [seq EXCEPT ![i] = e] = DOMAIN seq
         /\ [seq EXCEPT ![i] = e][i] = e
         /\ \A j \in DOMAIN seq : j # i => [seq EXCEPT ![i] = e][j] = seq[j]
<1>1. i \in 1 .. Len(seq) /\ DOMAIN seq = 1 .. Len(seq)
  BY LenProperties
<1> QED
  BY <1>1, ExceptSeq, Zenon

LEMMA ExtendedSeq ==
  ASSUME NEW S, NEW seq \in Seq(S), NEW e \in S
  PROVE  /\ Append(seq, e) \in Seq(S)
         /\ DOMAIN Append(seq, e) = DOMAIN seq \cup {Len(seq) + 1}
         /\ Len(seq) + 1 \notin DOMAIN seq
         /\ \A j \in DOMAIN seq : Append(seq, e)[j] = seq[j]
         /\ Append(seq, e)[Len(seq) + 1] = e
<1>1. /\ Append(seq, e) \in Seq(S)
      /\ Len(Append(seq, e)) = Len(seq) + 1
      /\ \A j \in 1 .. Len(seq) : Append(seq, e)[j] = seq[j]
      /\ Append(seq, e)[Len(seq) + 1] = e
  BY AppendProperties
<1>2. Len(seq) \in Nat /\ DOMAIN seq = 1 .. Len(seq)
  BY DomainOfSeq
<1>3. DOMAIN Append(seq, e) = 1 .. Len(seq) + 1
  BY <1>1, DomainOfSeq
<1> QED
  BY <1>1, <1>2, <1>3

-----------------------------------------------------------------------------
(* What a command can do to the deltas and the requirements.  Every proof   *)
(* below argues over these forms of a step instead of over every command.    *)

(* Save checked the new file and stored the status it computed for it. *)
Saved ==
  /\ ValidTracking(deltas', reqs')
  /\ status' = ComputedStatus(deltas', reqs')

NothingRecorded == UNCHANGED <<deltas, reqs, status>>

DeltaAdded ==
  /\ \E e \in Delta : deltas' = Append(deltas, e)
  /\ UNCHANGED reqs

DeltaChanged ==
  /\ \E d \in DOMAIN deltas, e \in Delta :
       /\ deltas[d].status \in Unsettled
       /\ e.intent = deltas[d].intent
       /\ deltas' = [deltas EXCEPT ![d] = e]
  /\ UNCHANGED reqs

(* A requirement no other one is linked with, and not verified yet. *)
Fresh(e) ==
  /\ e \in Requirement
  /\ IsActive(e)
  /\ e.verification = "unverified"
  /\ e.supersedes = NoReq
  /\ e.supersededBy = NoReq

RequirementAdded ==
  /\ \E e \in Requirement : Fresh(e) /\ reqs' = Append(reqs, e)
  /\ UNCHANGED deltas

RequirementChanged ==
  /\ \E r \in ActiveReqs, e \in Requirement :
       /\ e.lifecycle # "superseded"
       /\ e.introducedBy = reqs[r].introducedBy
       /\ e.supersedes = reqs[r].supersedes
       /\ e.supersededBy = reqs[r].supersededBy
       /\ reqs' = [reqs EXCEPT ![r] = e]
  /\ UNCHANGED deltas

Superseded(r) ==
  [reqs[r] EXCEPT !.lifecycle = "superseded", !.supersededBy = Len(reqs) + 1]

Successor(r, b, d) == [NewRequirement(b, d) EXCEPT !.supersedes = r]

RequirementReplaced ==
  \E d \in DOMAIN deltas, r \in ActiveReqs, b \in Blocks :
    /\ deltas[d].intent = "change"
    /\ deltas' = AutoRebind(d, r, Len(reqs) + 1)
    /\ reqs' = Append([reqs EXCEPT ![r] = Superseded(r)], Successor(r, b, d))

(* Saved again as it is, by "rev bump" and "sync". *)
ContentKept == UNCHANGED <<deltas, reqs>>

FormOfStep ==
  \/ NothingRecorded
  \/ /\ Saved
     /\ \/ ContentKept
        \/ DeltaAdded
        \/ DeltaChanged
        \/ RequirementAdded
        \/ RequirementChanged
        \/ RequirementReplaced

(* A transition rewrites the status of one delta that is not settled. *)
LEMMA TransitionForm ==
  ASSUME TypeOK, NEW d \in DOMAIN deltas, NEW from \in SUBSET Unsettled,
         NEW to \in DeltaStatuses, Transition(d, from, to)
  PROVE  Saved /\ DeltaChanged
<1> DEFINE e == [deltas[d] EXCEPT !.status = to]
<1>1. deltas[d] \in Delta
  BY DomainOfSeq DEF TypeOK
<1>2. e \in Delta /\ e.intent = deltas[d].intent
  BY <1>1 DEF Delta
<1>3. /\ deltas[d].status \in Unsettled
      /\ deltas' = [deltas EXCEPT ![d] = e]
      /\ reqs' = reqs
      /\ status' = ComputedStatus(deltas', reqs')
      /\ ValidTracking(deltas', reqs')
  BY DEF Transition, SaveDeltas, Save
<1> QED
  BY <1>2, <1>3 DEF Saved, DeltaChanged

LEMMA DeltaCommandForm ==
  ASSUME TypeOK, NEW d \in DOMAIN deltas, DeltaCommand(d)
  PROVE  Saved /\ DeltaChanged
<1>1. CASE StartDelta(d)
  BY <1>1, TransitionForm DEF StartDelta, Unsettled, DeltaStatuses
<1>2. CASE DeferDelta(d)
  BY <1>2, TransitionForm DEF DeferDelta, Unsettled, DeltaStatuses
<1>3. CASE ResumeDelta(d)
  BY <1>3, TransitionForm DEF ResumeDelta, Unsettled, DeltaStatuses
<1>4. CASE CloseDelta(d)
  BY <1>4, TransitionForm DEF CloseDelta, Unsettled, DeltaStatuses
<1>5. CASE WithdrawDelta(d)
  BY <1>5, TransitionForm DEF WithdrawDelta, Unsettled, DeltaStatuses
<1>6. ASSUME NEW r \in DOMAIN reqs, NEW to \in SUBSET DOMAIN reqs, RebindDelta(d, r, to)
      PROVE  Saved /\ DeltaChanged
  <2> DEFINE e == [deltas[d] EXCEPT !.affects = (@ \ {r}) \cup to]
  <2>1. deltas[d] \in Delta /\ DOMAIN reqs \subseteq Nat
    BY DomainOfSeq DEF TypeOK
  <2>2. e \in Delta /\ e.intent = deltas[d].intent
    BY <2>1 DEF Delta
  <2>3. /\ deltas[d].status \in Unsettled
        /\ deltas' = [deltas EXCEPT ![d] = e]
        /\ reqs' = reqs
        /\ status' = ComputedStatus(deltas', reqs')
        /\ ValidTracking(deltas', reqs')
    BY <1>6 DEF RebindDelta, SaveDeltas, Save
  <2> QED
    BY <2>2, <2>3 DEF Saved, DeltaChanged
<1> QED
  BY <1>1, <1>2, <1>3, <1>4, <1>5, <1>6 DEF DeltaCommand

LEMMA RequirementCommandForm ==
  ASSUME TypeOK, NEW r \in DOMAIN reqs, RequirementCommand(r)
  PROVE  Saved /\ (RequirementChanged \/ RequirementReplaced)
<1>1. reqs[r] \in Requirement
  BY DomainOfSeq DEF TypeOK
(* One active requirement rewritten, its links and its delta kept. *)
<1>2. ASSUME NEW e \in Requirement, r \in ActiveReqs, e.lifecycle # "superseded",
             e.introducedBy = reqs[r].introducedBy,
             e.supersedes = reqs[r].supersedes, e.supersededBy = reqs[r].supersededBy,
             SaveRequirements(deltas, [reqs EXCEPT ![r] = e])
      PROVE  Saved /\ RequirementChanged
  <2>1. /\ deltas' = deltas
        /\ reqs' = [reqs EXCEPT ![r] = e]
        /\ status' = ComputedStatus(deltas', reqs')
        /\ ValidTracking(deltas', reqs')
    BY <1>2 DEF SaveRequirements, Save
  <2> QED
    BY <1>2, <2>1 DEF Saved, RequirementChanged
<1>3. ASSUME NEW d \in DOMAIN deltas, WithdrawRequirement(d, r)
      PROVE  Saved /\ RequirementChanged
  <2> DEFINE e == [reqs[r] EXCEPT !.lifecycle = "withdrawn"]
  <2>1. /\ e \in Requirement
        /\ e.lifecycle # "superseded"
        /\ e.introducedBy = reqs[r].introducedBy
        /\ e.supersedes = reqs[r].supersedes
        /\ e.supersededBy = reqs[r].supersededBy
    BY <1>1 DEF Requirement, Lifecycles
  <2>2. r \in ActiveReqs /\ SaveRequirements(deltas, [reqs EXCEPT ![r] = e])
    BY <1>3 DEF WithdrawRequirement
  <2> QED
    BY <1>2, <2>1, <2>2
<1>4. ASSUME NEW d \in DOMAIN deltas, StaleRequirement(d, r)
      PROVE  Saved /\ RequirementChanged
  <2> DEFINE e == [reqs[r] EXCEPT !.verification = "stale"]
  <2>1. r \in ActiveReqs /\ SaveRequirements(deltas, [reqs EXCEPT ![r] = e])
    BY <1>4 DEF StaleRequirement
  <2>2. /\ e \in Requirement
        /\ e.lifecycle # "superseded"
        /\ e.introducedBy = reqs[r].introducedBy
        /\ e.supersedes = reqs[r].supersedes
        /\ e.supersededBy = reqs[r].supersededBy
    BY <1>1, <2>1 DEF Requirement, Verifications, ActiveReqs, IsActive
  <2> QED
    BY <1>2, <2>1, <2>2
<1>5. ASSUME NEW b \in Blocks, RefreshRequirement(r, b)
      PROVE  Saved /\ RequirementChanged
  <2> DEFINE e == [reqs[r] EXCEPT !.block = b]
  <2>1. r \in ActiveReqs /\ SaveRequirements(deltas, [reqs EXCEPT ![r] = e])
    BY <1>5 DEF RefreshRequirement
  <2>2. /\ e \in Requirement
        /\ e.lifecycle # "superseded"
        /\ e.introducedBy = reqs[r].introducedBy
        /\ e.supersedes = reqs[r].supersedes
        /\ e.supersededBy = reqs[r].supersededBy
    BY <1>1, <2>1 DEF Requirement, ActiveReqs, IsActive
  <2> QED
    BY <1>2, <2>1, <2>2
<1>6. ASSUME NEW files \in SUBSET TestFiles, VerifyRequirement(r, files)
      PROVE  Saved /\ RequirementChanged
  <2> DEFINE e == [reqs[r] EXCEPT !.verification = "verified", !.files = reqs[r].files \cup files]
  <2>1. r \in ActiveReqs /\ SaveRequirements(deltas, [reqs EXCEPT ![r] = e])
    BY <1>6 DEF VerifyRequirement
  <2>2. /\ e \in Requirement
        /\ e.lifecycle # "superseded"
        /\ e.introducedBy = reqs[r].introducedBy
        /\ e.supersedes = reqs[r].supersedes
        /\ e.supersededBy = reqs[r].supersededBy
    BY <1>1, <2>1 DEF Requirement, Verifications, ActiveReqs, IsActive
  <2> QED
    BY <1>2, <2>1, <2>2
<1>7. ASSUME NEW d \in DOMAIN deltas, NEW b \in Blocks, ReplaceRequirement(d, r, b)
      PROVE  Saved /\ RequirementReplaced
  <2>1. /\ r \in ActiveReqs
        /\ deltas' = AutoRebind(d, r, Len(reqs) + 1)
        /\ reqs' = Append([reqs EXCEPT ![r] = Superseded(r)], Successor(r, b, d))
        /\ status' = ComputedStatus(deltas', reqs')
        /\ ValidTracking(deltas', reqs')
    BY <1>7 DEF ReplaceRequirement, SaveRequirements, Save, Superseded, Successor
  <2>2. deltas[d].intent = "change"
    <3>0. deltas[d] \in Delta
      BY DomainOfSeq DEF TypeOK
    <3>1. deltas[d].intent \in Intents
      BY <3>0 DEF Delta
    <3>2. AllowedUpdate(deltas[d].intent) = "replace_requirement"
      BY <1>7 DEF ReplaceRequirement, DeltaAllows
    <3> QED
      BY <3>1, <3>2 DEF AllowedUpdate, Intents
  <2> QED
    BY <2>1, <2>2 DEF Saved, RequirementReplaced
<1> QED
  BY <1>3, <1>4, <1>5, <1>6, <1>7 DEF RequirementCommand

(* Every step, by a command or by the agent's editor, has one of the forms. *)
LEMMA StepForm ==
  ASSUME TypeOK, [Next]_vars
  PROVE  FormOfStep
<1>1. ASSUME NEW intent \in Intents, NEW affected \in SUBSET DOMAIN reqs,
             AddDelta(intent, affected)
      PROVE  Saved /\ DeltaAdded
  <2>1. NewDelta(intent, affected) \in Delta
    BY DomainOfSeq DEF TypeOK, NewDelta, Delta, DeltaStatuses
  <2>2. /\ deltas' = Append(deltas, NewDelta(intent, affected))
        /\ reqs' = reqs
        /\ status' = ComputedStatus(deltas', reqs')
        /\ ValidTracking(deltas', reqs')
    BY <1>1 DEF AddDelta, SaveDeltas, Save
  <2> QED
    BY <2>1, <2>2 DEF Saved, DeltaAdded
<1>2. ASSUME NEW d \in DOMAIN deltas, DeltaCommand(d)
      PROVE  Saved /\ DeltaChanged
  BY <1>2, DeltaCommandForm
<1>3. ASSUME NEW d \in DOMAIN deltas, NEW b \in Blocks, AddRequirement(d, b)
      PROVE  Saved /\ RequirementAdded
  <2>1. Fresh(NewRequirement(b, d))
    BY DomainOfSeq
       DEF TypeOK, Fresh, NewRequirement, IsActive, Requirement, Lifecycles, Verifications, NoReq
  <2>2. /\ reqs' = Append(reqs, NewRequirement(b, d))
        /\ deltas' = deltas
        /\ status' = ComputedStatus(deltas', reqs')
        /\ ValidTracking(deltas', reqs')
    BY <1>3 DEF AddRequirement, SaveRequirements, Save
  <2> QED
    BY <2>1, <2>2 DEF Saved, RequirementAdded, Fresh
<1>4. ASSUME NEW r \in DOMAIN reqs, RequirementCommand(r)
      PROVE  Saved /\ (RequirementChanged \/ RequirementReplaced)
  BY <1>4, RequirementCommandForm
<1>5. ASSUME NEW c \in Commits, BumpRevision(c) \/ Sync(c)
      PROVE  Saved /\ ContentKept
  BY <1>5 DEF BumpRevision, Sync, Save, Saved, ContentKept
<1>6. ASSUME NEW p \in SecondaryDocs, DocAdd(p) \/ DocRemove(p)
      PROVE  NothingRecorded
  BY <1>6 DEF DocAdd, DocRemove, SaveDocuments, NothingRecorded
<1>7. ASSUME NEW b \in Blocks, EditSpecDoc(b)
      PROVE  NothingRecorded
  BY <1>7 DEF EditSpecDoc, tracking, NothingRecorded
<1>8. ASSUME NEW p \in TestFiles \cup SecondaryDocs, EditRepoFile(p)
      PROVE  NothingRecorded
  BY <1>8 DEF EditRepoFile, tracking, NothingRecorded
<1>9. CASE UNCHANGED vars
  BY <1>9 DEF vars, tracking, NothingRecorded, FormOfStep
<1> QED
  BY <1>1, <1>2, <1>3, <1>4, <1>5, <1>6, <1>7, <1>8, <1>9 DEF Next, FormOfStep

-----------------------------------------------------------------------------
(* Type correctness. *)

LEMMA StatusTyped ==
  ASSUME NEW ds, NEW rs
  PROVE  ComputedStatus(ds, rs) \in SpecStatuses
BY DEF ComputedStatus, SpecStatuses

LEMMA AutoRebindTyped ==
  ASSUME TypeOK, NEW d \in DOMAIN deltas, NEW r \in DOMAIN reqs, NEW new \in Nat
  PROVE  /\ AutoRebind(d, r, new) \in Seq(Delta)
         /\ DOMAIN AutoRebind(d, r, new) = DOMAIN deltas
<1> DEFINE f(i) == IF i # d /\ deltas[i].status \in Unsettled /\ r \in deltas[i].affects
                   THEN [deltas[i] EXCEPT !.affects = (@ \ {r}) \cup {new}]
                   ELSE deltas[i]
<1>1. Len(deltas) \in Nat /\ DOMAIN deltas = 1 .. Len(deltas)
  BY DomainOfSeq DEF TypeOK
<1>2. \A i \in 1 .. Len(deltas) : deltas[i] \in Delta
  BY DomainOfSeq, <1>1 DEF TypeOK
<1>3. \A i \in 1 .. Len(deltas) : f(i) \in Delta
  BY <1>2 DEF Delta
<1>4. AutoRebind(d, r, new) = [i \in 1 .. Len(deltas) |-> f(i)]
  BY <1>1 DEF AutoRebind
<1> HIDE DEF f
<1>5. [i \in 1 .. Len(deltas) |-> f(i)] \in Seq(Delta)
  BY <1>1, <1>3, IsASeq
<1> QED
  BY <1>1, <1>4, <1>5

LEMMA ReplacementTyped ==
  ASSUME TypeOK, NEW d \in DOMAIN deltas, NEW r \in DOMAIN reqs, NEW b \in Blocks
  PROVE  /\ Superseded(r) \in Requirement
         /\ Successor(r, b, d) \in Requirement
         /\ [reqs EXCEPT ![r] = Superseded(r)] \in Seq(Requirement)
         /\ Len(reqs) + 1 \in Nat
<1>1. /\ reqs[r] \in Requirement
      /\ r \in Nat /\ d \in Nat /\ Len(reqs) \in Nat
  BY DomainOfSeq DEF TypeOK
<1>2. Superseded(r) \in Requirement
  <2> DEFINE half == [reqs[r] EXCEPT !.lifecycle = "superseded"]
  <2>1. half \in Requirement
    BY <1>1 DEF Requirement, Lifecycles
  <2>2. Superseded(r) = [half EXCEPT !.supersededBy = Len(reqs) + 1]
    BY DEF Superseded
  <2>3. Len(reqs) + 1 \in Nat
    BY <1>1
  <2>4. PICK n \in Nat : n = Len(reqs) + 1
    BY <2>3
  <2> HIDE DEF half
  <2>5. [half EXCEPT !.supersededBy = n] \in Requirement
    BY <2>1 DEF Requirement
  <2> QED
    BY <2>2, <2>4, <2>5
<1>3. Successor(r, b, d) \in Requirement
  <2>1. Successor(r, b, d) =
          [block |-> b, lifecycle |-> "active", verification |-> "unverified",
           files |-> {}, introducedBy |-> d, supersedes |-> r, supersededBy |-> NoReq]
    BY DEF Successor, NewRequirement
  <2> QED
    BY <1>1, <2>1 DEF Requirement, Lifecycles, Verifications, NoReq
<1> QED
  BY <1>1, <1>2, <1>3, UpdatedSeq DEF TypeOK

LEMMA ContentTyped ==
  ASSUME TypeOK, FormOfStep
  PROVE  /\ deltas' \in Seq(Delta)
         /\ reqs' \in Seq(Requirement)
         /\ status' \in SpecStatuses
<1>1. CASE NothingRecorded
  BY <1>1 DEF NothingRecorded, TypeOK
<1>2. ASSUME Saved
      PROVE  status' \in SpecStatuses
  BY <1>2, StatusTyped DEF Saved
<1>3. ASSUME ContentKept
      PROVE  deltas' \in Seq(Delta) /\ reqs' \in Seq(Requirement)
  BY <1>3 DEF ContentKept, TypeOK
<1>4. ASSUME DeltaAdded
      PROVE  deltas' \in Seq(Delta) /\ reqs' \in Seq(Requirement)
  BY <1>4, ExtendedSeq DEF DeltaAdded, TypeOK
<1>5. ASSUME DeltaChanged
      PROVE  deltas' \in Seq(Delta) /\ reqs' \in Seq(Requirement)
  BY <1>5, UpdatedSeq DEF DeltaChanged, TypeOK
<1>6. ASSUME RequirementAdded
      PROVE  deltas' \in Seq(Delta) /\ reqs' \in Seq(Requirement)
  BY <1>6, ExtendedSeq DEF RequirementAdded, TypeOK
<1>7. ASSUME RequirementChanged
      PROVE  deltas' \in Seq(Delta) /\ reqs' \in Seq(Requirement)
  BY <1>7, UpdatedSeq DEF RequirementChanged, ActiveReqs, TypeOK
<1>8. ASSUME RequirementReplaced
      PROVE  deltas' \in Seq(Delta) /\ reqs' \in Seq(Requirement)
  <2>1. PICK d \in DOMAIN deltas, r \in ActiveReqs, b \in Blocks :
          /\ deltas' = AutoRebind(d, r, Len(reqs) + 1)
          /\ reqs' = Append([reqs EXCEPT ![r] = Superseded(r)], Successor(r, b, d))
    BY <1>8 DEF RequirementReplaced
  <2>2. r \in DOMAIN reqs
    BY DEF ActiveReqs
  <2> QED
    BY <2>1, <2>2, AutoRebindTyped, ReplacementTyped, ExtendedSeq
<1> QED
  BY <1>1, <1>2, <1>3, <1>4, <1>5, <1>6, <1>7, <1>8 DEF FormOfStep

LEMMA NextEntryTyped ==
  ASSUME TypeOK
  PROVE  NextEntry \in ChangelogEntry
<1>1. DOMAIN deltas \subseteq Nat /\ DOMAIN reqs \subseteq Nat
  BY DomainOfSeq DEF TypeOK
<1>2. rev + 1 \in Nat
  BY DEF TypeOK
<1> QED
  BY <1>1, <1>2 DEF NextEntry, ChangelogEntry, WithStatus, VerifiedReqs

(* The commands that write only the deltas and the requirements. *)
OthersKept == UNCHANGED <<rev, checkpoint, changelog, secondary, world>>

LEMMA ContentCommandsKeepOthers ==
  /\ \A intent, affected : AddDelta(intent, affected) => OthersKept
  /\ \A d \in DOMAIN deltas : DeltaCommand(d) => OthersKept
  /\ \A d, b : AddRequirement(d, b) => OthersKept
  /\ \A r \in DOMAIN reqs : RequirementCommand(r) => OthersKept
<1>1. /\ \A ds : SaveDeltas(ds) => OthersKept
      /\ \A ds, rs : SaveRequirements(ds, rs) => OthersKept
  BY DEF SaveDeltas, SaveRequirements, OthersKept
<1>2. \A d, from, to : Transition(d, from, to) => OthersKept
  BY <1>1 DEF Transition
<1>3. \A d, r, to : RebindDelta(d, r, to) => OthersKept
  BY <1>1 DEF RebindDelta
<1>4. \A d \in DOMAIN deltas : DeltaCommand(d) => OthersKept
  BY <1>2, <1>3
     DEF DeltaCommand, StartDelta, DeferDelta, ResumeDelta, CloseDelta, WithdrawDelta
<1>5. \A r \in DOMAIN reqs : RequirementCommand(r) => OthersKept
  BY <1>1
     DEF RequirementCommand, WithdrawRequirement, StaleRequirement, ReplaceRequirement,
         RefreshRequirement, VerifyRequirement
<1>6. /\ \A intent, affected : AddDelta(intent, affected) => OthersKept
      /\ \A d, b : AddRequirement(d, b) => OthersKept
  BY <1>1 DEF AddDelta, AddRequirement
<1> QED
  BY <1>4, <1>5, <1>6

RestTyped ==
  /\ rev \in Nat \ {0}
  /\ checkpoint \in Commits
  /\ changelog \in Seq(ChangelogEntry)
  /\ secondary \subseteq SecondaryDocs
  /\ doc \subseteq Blocks
  /\ repoFiles \subseteq TestFiles \cup SecondaryDocs

LEMMA RestStaysTyped ==
  ASSUME TypeOK, [Next]_vars
  PROVE  RestTyped'
<1>1. RestTyped
  BY DEF TypeOK, RestTyped
<1>2. CASE OthersKept
  BY <1>1, <1>2 DEF OthersKept, world, RestTyped
<1>3. ASSUME NEW c \in Commits, BumpRevision(c)
      PROVE  RestTyped'
  <2>1. /\ changelog' = Append(changelog, NextEntry)
        /\ rev' = rev + 1
        /\ checkpoint' = c
        /\ UNCHANGED <<secondary, doc, repoFiles>>
    BY <1>3 DEF BumpRevision, world
  <2>2. changelog' \in Seq(ChangelogEntry)
    BY <1>1, <2>1, NextEntryTyped, ExtendedSeq DEF RestTyped
  <2> QED
    BY <1>1, <2>1, <2>2 DEF RestTyped
<1>4. ASSUME NEW c \in Commits, Sync(c)
      PROVE  RestTyped'
  BY <1>1, <1>4 DEF Sync, world, RestTyped
<1>5. ASSUME NEW p \in SecondaryDocs, DocAdd(p) \/ DocRemove(p)
      PROVE  RestTyped'
  BY <1>1, <1>5 DEF DocAdd, DocRemove, SaveDocuments, world, RestTyped
<1>6. ASSUME NEW b \in Blocks, EditSpecDoc(b)
      PROVE  RestTyped'
  BY <1>1, <1>6 DEF EditSpecDoc, tracking, RestTyped
<1>7. ASSUME NEW p \in TestFiles \cup SecondaryDocs, EditRepoFile(p)
      PROVE  RestTyped'
  BY <1>1, <1>7 DEF EditRepoFile, tracking, RestTyped
<1>8. CASE UNCHANGED vars
  BY <1>1, <1>8 DEF vars, tracking, world, RestTyped
<1> QED
  BY <1>2, <1>3, <1>4, <1>5, <1>6, <1>7, <1>8, ContentCommandsKeepOthers DEF Next

LEMMA StepTyped ==
  ASSUME TypeOK, [Next]_vars
  PROVE  TypeOK'
<1>1. deltas' \in Seq(Delta) /\ reqs' \in Seq(Requirement) /\ status' \in SpecStatuses
  BY StepForm, ContentTyped
<1>2. RestTyped'
  BY RestStaysTyped
<1> QED
  BY <1>1, <1>2 DEF TypeOK, RestTyped

LEMMA InitTyped == Init => TypeOK
BY EmptySeq DEF Init, TypeOK, SpecStatuses

(* Every value stored is of its type: no command writes a status, a link or *)
(* an entry the file format does not know.                                   *)
THEOREM TypeCorrect == Spec => []TypeOK
BY InitTyped, StepTyped, PTL DEF Spec

-----------------------------------------------------------------------------
(* The file is consistent between commands: it passes its own validation and *)
(* the stored status is the computed one.  This is what makes a closed delta *)
(* and the status "verified" mean something after later commands, and it is  *)
(* inductive once the types are known.                                        *)

Consistent == ValidTracking(deltas, reqs) /\ StoredStatusCurrent

LEMMA InitConsistent == Init => Consistent
<1> SUFFICES ASSUME Init PROVE Consistent
  OBVIOUS
<1>1. deltas = << >> /\ reqs = << >> /\ status = "draft"
  BY DEF Init
<1>2. DOMAIN deltas = {} /\ DOMAIN reqs = {} /\ Len(deltas) = 0 /\ Len(reqs) = 0
  BY <1>1
<1>3. ValidTracking(deltas, reqs)
  BY <1>2, LimitsAssumption DEF ValidTracking
<1>4. LiveDeltas(deltas) = {}
  BY <1>2 DEF LiveDeltas
<1>5. ComputedStatus(deltas, reqs) = "draft"
  BY <1>4 DEF ComputedStatus
<1> QED
  BY <1>1, <1>3, <1>5 DEF Consistent, StoredStatusCurrent

LEMMA StepConsistent ==
  ASSUME TypeOK, Consistent, [Next]_vars
  PROVE  Consistent'
<1>1. CASE NothingRecorded
  BY <1>1 DEF NothingRecorded, Consistent, StoredStatusCurrent
<1>2. CASE Saved
  BY <1>2 DEF Saved, Consistent, StoredStatusCurrent
<1> QED
  BY <1>1, <1>2, StepForm DEF FormOfStep

(* Consistent: the file on disk passes Validate and stores the status it computes. *)
THEOREM AlwaysConsistent == Spec => []Consistent
<1>1. Spec => []TypeOK
  BY TypeCorrect
<1>2. TypeOK /\ Consistent /\ [Next]_vars => Consistent'
  BY StepConsistent
<1> QED
  BY InitConsistent, <1>1, <1>2, PTL DEF Spec

(* What validation demands of one closed delta, requirement by requirement. *)
LEMMA ClosureSeals ==
  ASSUME TypeOK, Consistent, NEW d \in WithStatus("closed"), NEW r \in DOMAIN reqs
  PROVE  /\ (r \in deltas[d].affects /\ deltas[d].intent = "change")
              => reqs[r].lifecycle = "superseded"
         /\ (r \in deltas[d].affects /\ deltas[d].intent = "remove")
              => reqs[r].lifecycle = "withdrawn"
         /\ (r \in TouchedBy(deltas, reqs, d) /\ IsActive(reqs[r]))
              => reqs[r].verification = "verified"
<1>1. UpdatesResolved(deltas, reqs, d) /\ BlockingForClosure(deltas, reqs, d) = {}
  BY DEF Consistent, ValidTracking, DeltaClosureValid, WithStatus
<1>2. deltas[d].intent = "change" => deltas[d].affects \subseteq InLifecycle(reqs, "superseded")
  BY <1>1 DEF UpdatesResolved
<1>3. deltas[d].intent = "remove" => deltas[d].affects \subseteq InLifecycle(reqs, "withdrawn")
  BY <1>1 DEF UpdatesResolved
<1> QED
  BY <1>1, <1>2, <1>3 DEF BlockingForClosure, InLifecycle

(* ClosedDeltasSealed for every project: no sequence of requirement commands *)
(* takes back what a closed delta recorded.                                   *)
THEOREM ClosuresStaySealed == Spec => []ClosedDeltasSealed
<1>1. TypeOK /\ Consistent => ClosedDeltasSealed
  BY ClosureSeals DEF ClosedDeltasSealed, TouchedBy
<1> QED
  BY <1>1, TypeCorrect, AlwaysConsistent, PTL

(* VerifiedSpecIsProven for every project: the stored status "verified" is    *)
(* never ahead of the requirements that live deltas answer for.               *)
THEOREM VerifiedMeansProven == Spec => []VerifiedSpecIsProven
<1>1. TypeOK /\ Consistent => VerifiedSpecIsProven
  <2> SUFFICES ASSUME TypeOK, Consistent, status = "verified", NEW r \in ActiveReqs
               PROVE  \/ reqs[r].verification = "verified"
                      \/ /\ deltas[reqs[r].introducedBy].status \in {"deferred", "withdrawn"}
                         /\ \A d \in LiveDeltas(deltas) : r \notin deltas[d].affects
    BY DEF VerifiedSpecIsProven
  <2>1. r \in DOMAIN reqs /\ IsActive(reqs[r])
    BY DEF ActiveReqs
  <2>2. ComputedStatus(deltas, reqs) = "verified"
    BY DEF Consistent, StoredStatusCurrent
  <2>3. \A d \in LiveDeltas(deltas) : BlockingForClosure(deltas, reqs, d) = {}
    BY <2>2 DEF ComputedStatus
  <2>4. \A d \in LiveDeltas(deltas) :
          r \in TouchedBy(deltas, reqs, d) => reqs[r].verification = "verified"
    BY <2>1, <2>3 DEF BlockingForClosure
  <2>5. reqs[r].introducedBy \in DOMAIN deltas
    BY <2>1 DEF Consistent, ValidTracking, ValidRequirement
  <2> QED
    BY <2>1, <2>4, <2>5 DEF TouchedBy, LiveDeltas
<1> QED
  BY <1>1, TypeCorrect, AlwaysConsistent, PTL

-----------------------------------------------------------------------------
(* History: settled deltas and retired requirements do not change. *)

LEMMA SettledStepFrozen ==
  ASSUME TypeOK, FormOfStep, NEW d \in DOMAIN deltas
  PROVE  /\ d \in DOMAIN deltas'
         /\ deltas'[d].intent = deltas[d].intent
         /\ deltas[d].status \in {"closed", "withdrawn"} => deltas'[d] = deltas[d]
<1>1. CASE deltas' = deltas
  BY <1>1
<1>2. CASE DeltaAdded
  BY <1>2, ExtendedSeq DEF DeltaAdded, TypeOK
<1>3. CASE DeltaChanged
  <2>1. PICK c \in DOMAIN deltas, e \in Delta :
          /\ deltas[c].status \in Unsettled
          /\ e.intent = deltas[c].intent
          /\ deltas' = [deltas EXCEPT ![c] = e]
    BY <1>3 DEF DeltaChanged
  <2>2. /\ DOMAIN deltas' = DOMAIN deltas
        /\ deltas'[c] = e
        /\ \A i \in DOMAIN deltas : i # c => deltas'[i] = deltas[i]
    BY <2>1, UpdatedSeq DEF TypeOK
  <2> QED
    BY <2>1, <2>2 DEF Unsettled
<1>4. CASE RequirementReplaced
  <2>1. PICK c \in DOMAIN deltas, r \in ActiveReqs :
          deltas' = AutoRebind(c, r, Len(reqs) + 1)
    BY <1>4 DEF RequirementReplaced
  <2>2. deltas[d] \in Delta
    BY DomainOfSeq DEF TypeOK
  <2> QED
    BY <2>1, <2>2 DEF AutoRebind, Unsettled, Delta
<1> QED
  BY <1>1, <1>2, <1>3, <1>4
     DEF FormOfStep, NothingRecorded, ContentKept, RequirementAdded, RequirementChanged

(* SettledDeltasFrozen for every project. *)
THEOREM SettledDeltasStayFrozen == Spec => SettledDeltasFrozen
<1>1. TypeOK /\ [Next]_vars =>
        [\A d \in DOMAIN deltas :
           /\ d \in DOMAIN deltas'
           /\ deltas'[d].intent = deltas[d].intent
           /\ deltas[d].status \in {"closed", "withdrawn"} => deltas'[d] = deltas[d]]_vars
  BY StepForm, SettledStepFrozen
<1> QED
  BY <1>1, TypeCorrect, PTL DEF Spec, SettledDeltasFrozen

(* What a replacement leaves behind, position by position. *)
LEMMA ReplacedSeq ==
  ASSUME TypeOK, NEW d \in DOMAIN deltas, NEW r \in ActiveReqs, NEW b \in Blocks,
         reqs' = Append([reqs EXCEPT ![r] = Superseded(r)], Successor(r, b, d))
  PROVE  /\ DOMAIN reqs' = DOMAIN reqs \cup {Len(reqs) + 1}
         /\ Len(reqs) + 1 \notin DOMAIN reqs
         /\ r \in DOMAIN reqs /\ r < Len(reqs) + 1
         /\ reqs'[r] = Superseded(r)
         /\ reqs'[Len(reqs) + 1] = Successor(r, b, d)
         /\ \A i \in DOMAIN reqs : i # r => reqs'[i] = reqs[i]
<1> DEFINE mid == [reqs EXCEPT ![r] = Superseded(r)]
<1>1. r \in DOMAIN reqs
  BY DEF ActiveReqs
<1>2. /\ mid \in Seq(Requirement)
      /\ DOMAIN mid = DOMAIN reqs
      /\ mid[r] = Superseded(r)
      /\ \A i \in DOMAIN reqs : i # r => mid[i] = reqs[i]
  BY <1>1, ReplacementTyped, UpdatedSeq DEF TypeOK
<1>3. Successor(r, b, d) \in Requirement
  BY <1>1, ReplacementTyped
<1>4. Len(mid) = Len(reqs) /\ DOMAIN reqs = 1 .. Len(reqs) /\ Len(reqs) \in Nat
  BY <1>1, ReplacementTyped, ExceptSeq, DomainOfSeq DEF TypeOK
<1> HIDE DEF mid
<1>5. /\ DOMAIN reqs' = DOMAIN reqs \cup {Len(reqs) + 1}
      /\ Len(reqs) + 1 \notin DOMAIN reqs
      /\ \A i \in DOMAIN reqs : reqs'[i] = mid[i]
      /\ reqs'[Len(reqs) + 1] = Successor(r, b, d)
  BY <1>2, <1>3, <1>4, ExtendedSeq DEF mid
<1> QED
  BY <1>1, <1>2, <1>4, <1>5

LEMMA RetiredStepFrozen ==
  ASSUME TypeOK, FormOfStep, NEW r \in DOMAIN reqs
  PROVE  /\ r \in DOMAIN reqs'
         /\ reqs'[r].introducedBy = reqs[r].introducedBy
         /\ ~IsActive(reqs[r]) => reqs'[r] = reqs[r]
<1>1. CASE reqs' = reqs
  BY <1>1
<1>2. CASE RequirementAdded
  BY <1>2, ExtendedSeq DEF RequirementAdded, TypeOK
<1>3. CASE RequirementChanged
  <2>1. PICK c \in ActiveReqs, e \in Requirement :
          /\ e.introducedBy = reqs[c].introducedBy
          /\ reqs' = [reqs EXCEPT ![c] = e]
    BY <1>3 DEF RequirementChanged
  <2>2. /\ DOMAIN reqs' = DOMAIN reqs
        /\ reqs'[c] = e
        /\ \A i \in DOMAIN reqs : i # c => reqs'[i] = reqs[i]
    BY <2>1, UpdatedSeq DEF TypeOK, ActiveReqs
  <2> QED
    BY <2>1, <2>2 DEF ActiveReqs
<1>4. CASE RequirementReplaced
  <2>1. PICK d \in DOMAIN deltas, c \in ActiveReqs, b \in Blocks :
          reqs' = Append([reqs EXCEPT ![c] = Superseded(c)], Successor(c, b, d))
    BY <1>4 DEF RequirementReplaced
  <2>2. reqs[c] \in Requirement
    BY DomainOfSeq DEF TypeOK, ActiveReqs
  <2>3. Superseded(c).introducedBy = reqs[c].introducedBy
    BY <2>2 DEF Superseded, Requirement
  <2> QED
    BY <2>1, <2>3, ReplacedSeq DEF ActiveReqs
<1> QED
  BY <1>1, <1>2, <1>3, <1>4 DEF FormOfStep, NothingRecorded, ContentKept, DeltaAdded, DeltaChanged

(* RetiredRequirementsFrozen for every project. *)
THEOREM RetiredRequirementsStayFrozen == Spec => RetiredRequirementsFrozen
<1>1. TypeOK /\ [Next]_vars =>
        [\A r \in DOMAIN reqs :
           /\ r \in DOMAIN reqs'
           /\ reqs'[r].introducedBy = reqs[r].introducedBy
           /\ ~IsActive(reqs[r]) => reqs'[r] = reqs[r]]_vars
  BY StepForm, RetiredStepFrozen
<1> QED
  BY <1>1, TypeCorrect, PTL DEF Spec, RetiredRequirementsFrozen

-----------------------------------------------------------------------------
(* Evidence and supersession links, which validation does not (fully) check: *)
(* each is inductive relative to the consistency of the file.                 *)

LEMMA StepKeepsEvidence ==
  ASSUME TypeOK, VerifiedHasEvidence, FormOfStep
  PROVE  VerifiedHasEvidence'
<1> SUFFICES ASSUME NEW r \in DOMAIN reqs', reqs'[r].verification = "verified",
                    ~IsManual(reqs'[r])
             PROVE  reqs'[r].files # {}
  BY DEF VerifiedHasEvidence, VerifiedReqs, IsManual
<1>1. \A i \in DOMAIN reqs :
        (reqs[i].verification = "verified" /\ ~IsManual(reqs[i])) => reqs[i].files # {}
  BY DEF VerifiedHasEvidence, VerifiedReqs
<1>2. CASE reqs' = reqs
  BY <1>1, <1>2
<1>3. CASE RequirementAdded
  <2>1. PICK e \in Requirement : Fresh(e) /\ reqs' = Append(reqs, e)
    BY <1>3 DEF RequirementAdded
  <2>2. CASE r \in DOMAIN reqs
    BY <1>1, <2>1, <2>2, ExtendedSeq, SMTT(30) DEF TypeOK
  <2>3. CASE r \notin DOMAIN reqs
    BY <2>1, <2>3, ExtendedSeq DEF TypeOK, Fresh
  <2> QED
    BY <2>2, <2>3
<1>4. CASE Saved /\ RequirementChanged
  <2>1. PICK c \in ActiveReqs, e \in Requirement :
          e.lifecycle # "superseded" /\ reqs' = [reqs EXCEPT ![c] = e]
    BY <1>4 DEF RequirementChanged
  <2>2. /\ DOMAIN reqs' = DOMAIN reqs
        /\ reqs'[c] = e
        /\ \A i \in DOMAIN reqs : i # c => reqs'[i] = reqs[i]
    BY <2>1, UpdatedSeq DEF TypeOK, ActiveReqs
  <2>3. CASE r = c
    <3>1. ValidRequirement(deltas', reqs'[r])
      BY <1>4 DEF Saved, ValidTracking
    <3> QED
      BY <2>1, <2>2, <2>3, <3>1 DEF ValidRequirement
  <2>4. CASE r # c
    BY <1>1, <2>2, <2>4
  <2> QED
    BY <2>3, <2>4
<1>5. CASE RequirementReplaced
  <2>1. PICK d \in DOMAIN deltas, c \in ActiveReqs, b \in Blocks :
          reqs' = Append([reqs EXCEPT ![c] = Superseded(c)], Successor(c, b, d))
    BY <1>5 DEF RequirementReplaced
  <2>2. reqs[c] \in Requirement /\ c \in DOMAIN reqs
    BY DomainOfSeq DEF TypeOK, ActiveReqs
  <2>3. /\ Superseded(c).verification = reqs[c].verification
        /\ Superseded(c).block = reqs[c].block
        /\ Superseded(c).files = reqs[c].files
    BY <2>2 DEF Superseded, Requirement
  <2>4. Successor(c, b, d).verification = "unverified"
    BY DEF Successor, NewRequirement
  <2>5. CASE r = c
    BY <1>1, <2>1, <2>2, <2>3, <2>5, ReplacedSeq DEF IsManual
  <2>6. CASE r \in DOMAIN reqs /\ r # c
    BY <1>1, <2>1, <2>6, ReplacedSeq
  <2>7. CASE r \notin DOMAIN reqs
    BY <2>1, <2>4, <2>7, ReplacedSeq
  <2> QED
    BY <2>5, <2>6, <2>7
<1> QED
  BY <1>2, <1>3, <1>4, <1>5
     DEF FormOfStep, NothingRecorded, ContentKept, DeltaAdded, DeltaChanged

(* VerifiedHasEvidence for every project. *)
THEOREM VerifiedAlwaysHasEvidence == Spec => []VerifiedHasEvidence
<1>1. Init => VerifiedHasEvidence
  BY DEF Init, VerifiedHasEvidence, VerifiedReqs
<1>2. TypeOK /\ VerifiedHasEvidence /\ [Next]_vars => VerifiedHasEvidence'
  BY StepForm, StepKeepsEvidence
<1> QED
  BY <1>1, <1>2, TypeCorrect, PTL DEF Spec

LEMMA StepKeepsLinks ==
  ASSUME TypeOK, Consistent, SupersessionLinked, FormOfStep
  PROVE  SupersessionLinked'
<1>1. \A r \in DOMAIN reqs :
        /\ r \in Nat \ {0} /\ reqs[r] \in Requirement
        /\ reqs[r].introducedBy \in DOMAIN deltas
  BY DomainOfSeq DEF TypeOK, Consistent, ValidTracking, ValidRequirement
<1>2. \A d \in DOMAIN deltas : d \in DOMAIN deltas' /\ deltas'[d].intent = deltas[d].intent
  BY SettledStepFrozen
<1>3. CASE reqs' = reqs
  BY <1>1, <1>2, <1>3 DEF SupersessionLinked
<1>4. CASE RequirementAdded
  <2>1. PICK e \in Requirement : Fresh(e) /\ reqs' = Append(reqs, e)
    BY <1>4 DEF RequirementAdded
  <2>2. /\ DOMAIN reqs' = DOMAIN reqs \cup {Len(reqs) + 1}
        /\ \A i \in DOMAIN reqs : reqs'[i] = reqs[i]
        /\ reqs'[Len(reqs) + 1] = e
    BY <2>1, ExtendedSeq DEF TypeOK
  <2>3. e.lifecycle # "superseded" /\ e.supersedes = NoReq /\ e.supersededBy = NoReq
    BY <2>1 DEF Fresh, IsActive
  <2> QED
    BY <1>1, <1>2, <2>2, <2>3, SMTT(30) DEF SupersessionLinked
<1>5. CASE RequirementChanged
  <2>1. PICK c \in ActiveReqs, e \in Requirement :
          /\ e.lifecycle # "superseded"
          /\ e.introducedBy = reqs[c].introducedBy
          /\ e.supersedes = reqs[c].supersedes
          /\ e.supersededBy = reqs[c].supersededBy
          /\ reqs' = [reqs EXCEPT ![c] = e]
    BY <1>5 DEF RequirementChanged
  <2>2. /\ DOMAIN reqs' = DOMAIN reqs
        /\ reqs'[c] = e
        /\ \A i \in DOMAIN reqs : i # c => reqs'[i] = reqs[i]
    BY <2>1, UpdatedSeq DEF TypeOK, ActiveReqs
  <2>3. reqs[c].lifecycle # "superseded"
    BY DEF ActiveReqs, IsActive
  <2>4. \A i \in DOMAIN reqs :
          /\ reqs'[i].lifecycle = "superseded" <=> reqs[i].lifecycle = "superseded"
          /\ reqs'[i].introducedBy = reqs[i].introducedBy
          /\ reqs'[i].supersedes = reqs[i].supersedes
          /\ reqs'[i].supersededBy = reqs[i].supersededBy
    BY <2>1, <2>2, <2>3
  <2> QED
    BY <1>1, <1>2, <2>2, <2>4, SMTT(30) DEF SupersessionLinked
<1>6. CASE RequirementReplaced
  <2>1. PICK d \in DOMAIN deltas, c \in ActiveReqs, b \in Blocks :
          /\ deltas[d].intent = "change"
          /\ reqs' = Append([reqs EXCEPT ![c] = Superseded(c)], Successor(c, b, d))
    BY <1>6 DEF RequirementReplaced
  <2> DEFINE new == Len(reqs) + 1
  <2>2. /\ DOMAIN reqs' = DOMAIN reqs \cup {new}
        /\ new \notin DOMAIN reqs
        /\ c \in DOMAIN reqs /\ c < new
        /\ reqs'[c] = Superseded(c)
        /\ reqs'[new] = Successor(c, b, d)
        /\ \A i \in DOMAIN reqs : i # c => reqs'[i] = reqs[i]
    BY <2>1, ReplacedSeq
  <2>3. /\ Superseded(c).lifecycle = "superseded"
        /\ Superseded(c).supersededBy = new
        /\ Superseded(c).supersedes = reqs[c].supersedes
        /\ Superseded(c).introducedBy = reqs[c].introducedBy
    BY <1>1, <2>2 DEF Superseded, Requirement
  <2>4. /\ Successor(c, b, d).lifecycle = "active"
        /\ Successor(c, b, d).supersedes = c
        /\ Successor(c, b, d).supersededBy = NoReq
        /\ Successor(c, b, d).introducedBy = d
    BY DEF Successor, NewRequirement
  <2>5. reqs[c].lifecycle = "active" /\ reqs[c].supersededBy = NoReq
    BY <2>2 DEF ActiveReqs, IsActive, SupersessionLinked
  <2>6. new \in Nat /\ new # NoReq
    BY DomainOfSeq DEF TypeOK, NoReq
  <2> HIDE DEF new
  <2>7. \A i \in DOMAIN reqs' : i = c \/ i = new \/ (i \in DOMAIN reqs /\ reqs'[i] = reqs[i])
    BY <2>2
  <2>8. deltas'[d].intent = "change"
    BY <1>2, <2>1
  (* Nothing but the pair just linked names c as replaced. *)
  <2>9. \A i \in DOMAIN reqs : reqs[i].supersedes # c
    BY <1>1, <2>2, <2>5 DEF SupersessionLinked, NoReq
  <2>10. ASSUME NEW r \in DOMAIN reqs'
         PROVE  /\ reqs'[r].lifecycle = "superseded" <=> reqs'[r].supersededBy # NoReq
                /\ reqs'[r].supersededBy # NoReq =>
                     /\ reqs'[r].supersededBy \in DOMAIN reqs' /\ r < reqs'[r].supersededBy
                     /\ reqs'[reqs'[r].supersededBy].supersedes = r
                     /\ deltas'[reqs'[reqs'[r].supersededBy].introducedBy].intent = "change"
                /\ reqs'[r].supersedes # NoReq =>
                     /\ reqs'[r].supersedes \in DOMAIN reqs'
                     /\ reqs'[reqs'[r].supersedes].supersededBy = r
    <3>1. CASE r = new
      BY <2>2, <2>3, <2>4, <3>1
    <3>2. CASE r = c
      BY <1>1, <2>2, <2>3, <2>4, <2>5, <2>6, <2>8, <2>9, <3>2, SMTT(30) DEF SupersessionLinked
    <3>3. CASE r \in DOMAIN reqs /\ r # c
      BY <1>1, <1>2, <2>2, <2>3, <2>5, <2>9, <3>3, SMTT(30) DEF SupersessionLinked
    <3> QED
      BY <2>7, <3>1, <3>2, <3>3
  <2> QED
    BY <2>10 DEF SupersessionLinked
<1> QED
  BY <1>3, <1>4, <1>5, <1>6 DEF FormOfStep, NothingRecorded, ContentKept, DeltaAdded, DeltaChanged

(* SupersessionLinked for every project. *)
THEOREM SupersessionStaysLinked == Spec => []SupersessionLinked
<1>1. Init => SupersessionLinked
  BY DEF Init, SupersessionLinked
<1>2. TypeOK /\ Consistent /\ SupersessionLinked /\ [Next]_vars => SupersessionLinked'
  BY StepForm, StepKeepsLinks
<1> QED
  BY <1>1, <1>2, TypeCorrect, AlwaysConsistent, PTL DEF Spec

-----------------------------------------------------------------------------
(* What a write may do, judged on the write alone. *)

LEMMA SaveIsLoadable ==
  ASSUME NEW ds, NEW rs, Save(ds, rs), UNCHANGED <<secondary, repoFiles>>
  PROVE  Loadable'
<1>1. ValidTracking(deltas', reqs') /\ status' = ComputedStatus(deltas', reqs')
  BY DEF Save
<1>2. FilesExist(reqs, secondary)'
  BY DEF Save, FilesExist, IsManual
<1> QED
  BY <1>1, <1>2 DEF Loadable, StoredStatusCurrent

LEMMA ContentCommandsLoadable ==
  /\ \A intent, affected : AddDelta(intent, affected) => Loadable'
  /\ \A d \in DOMAIN deltas : DeltaCommand(d) => Loadable'
  /\ \A d, b : AddRequirement(d, b) => Loadable'
  /\ \A r \in DOMAIN reqs : RequirementCommand(r) => Loadable'
<1>1. /\ \A ds : SaveDeltas(ds) => Loadable'
      /\ \A ds, rs : SaveRequirements(ds, rs) => Loadable'
  BY SaveIsLoadable DEF SaveDeltas, SaveRequirements, world
<1>2. \A d, from, to : Transition(d, from, to) => Loadable'
  BY <1>1 DEF Transition
<1>3. \A d, r, to : RebindDelta(d, r, to) => Loadable'
  BY <1>1 DEF RebindDelta
<1>4. \A d \in DOMAIN deltas : DeltaCommand(d) => Loadable'
  BY <1>2, <1>3
     DEF DeltaCommand, StartDelta, DeferDelta, ResumeDelta, CloseDelta, WithdrawDelta
<1>5. \A r \in DOMAIN reqs : RequirementCommand(r) => Loadable'
  BY <1>1
     DEF RequirementCommand, WithdrawRequirement, StaleRequirement, ReplaceRequirement,
         RefreshRequirement, VerifyRequirement
<1>6. /\ \A intent, affected : AddDelta(intent, affected) => Loadable'
      /\ \A d, b : AddRequirement(d, b) => Loadable'
  BY <1>1 DEF AddDelta, AddRequirement
<1> QED
  BY <1>4, <1>5, <1>6

(* WritesStayLoadable for every project. *)
THEOREM WritesAreLoadable == Spec => WritesStayLoadable
<1>1. [Next]_vars => [tracking' # tracking => Loadable']_vars
  <2> SUFFICES ASSUME Next PROVE tracking' # tracking => Loadable'
    OBVIOUS
  <2>1. ASSUME NEW c \in Commits, BumpRevision(c) \/ Sync(c)
        PROVE  Loadable'
    BY <2>1, SaveIsLoadable DEF BumpRevision, Sync, world
  <2>2. ASSUME NEW docs, SaveDocuments(docs)
        PROVE  Loadable'
    <3>1. /\ FilesExist(reqs, docs)
          /\ secondary' = docs
          /\ UNCHANGED <<deltas, reqs, status, repoFiles>>
      BY <2>2 DEF SaveDocuments, world
    <3>2. ValidTracking(deltas', reqs') /\ StoredStatusCurrent'
      BY <2>2, <3>1 DEF SaveDocuments, Loadable, StoredStatusCurrent
    <3>3. FilesExist(reqs, secondary)'
      BY <3>1 DEF FilesExist, IsManual
    <3> QED
      BY <3>2, <3>3 DEF Loadable
  <2>3. ASSUME NEW p \in SecondaryDocs, DocAdd(p) \/ DocRemove(p)
        PROVE  Loadable'
    BY <2>2, <2>3 DEF DocAdd, DocRemove
  <2>4. ASSUME NEW p, EditSpecDoc(p) \/ EditRepoFile(p)
        PROVE  UNCHANGED tracking
    BY <2>4 DEF EditSpecDoc, EditRepoFile
  <2> QED
    BY <2>1, <2>3, <2>4, ContentCommandsLoadable DEF Next
<1> QED
  BY <1>1, PTL DEF Spec, WritesStayLoadable

(* A verified file has no delta in flight. *)
LEMMA VerifiedHasNoLiveWork ==
  ASSUME status = "verified", StoredStatusCurrent, NEW d \in DOMAIN deltas
  PROVE  deltas[d].status \notin {"open", "in-progress"}
<1>1. ComputedStatus(deltas, reqs) = "verified"
  BY DEF StoredStatusCurrent
<1>2. d \in LiveDeltas(deltas) => deltas[d].status = "closed"
  BY <1>1 DEF ComputedStatus
<1> QED
  BY <1>2 DEF LiveDeltas

(* CheckpointMovesWhenSettled for every project. *)
THEOREM CheckpointMovesOnlyWhenSettled == Spec => CheckpointMovesWhenSettled
<1> DEFINE Settled == /\ \A d \in DOMAIN deltas : deltas[d].status \notin {"open", "in-progress"}
                      /\ \A r \in ActiveReqs : Matched(r)
<1>1. [Next]_vars => [checkpoint' # checkpoint => Settled]_vars
  <2> SUFFICES ASSUME Next PROVE checkpoint' # checkpoint => Settled
    OBVIOUS
  <2>1. ASSUME NEW c \in Commits, BumpRevision(c)
        PROVE  Settled
    <3>1. /\ status = "verified" /\ StoredStatusCurrent
          /\ \A r \in ActiveReqs : Matched(r)
      BY <2>1 DEF BumpRevision, Save, Loadable
    <3> QED
      BY <3>1, VerifiedHasNoLiveWork
  <2>2. ASSUME NEW c \in Commits, Sync(c)
        PROVE  Settled
    BY <2>2 DEF Sync, WithStatus
  <2>3. ASSUME NEW p, DocAdd(p) \/ DocRemove(p) \/ EditSpecDoc(p) \/ EditRepoFile(p)
        PROVE  checkpoint' = checkpoint
    BY <2>3 DEF DocAdd, DocRemove, SaveDocuments, EditSpecDoc, EditRepoFile, tracking
  <2>4. OthersKept => checkpoint' = checkpoint
    BY DEF OthersKept
  <2> HIDE DEF Settled
  <2> QED
    BY <2>1, <2>2, <2>3, <2>4, ContentCommandsKeepOthers DEF Next
<1> QED
  BY <1>1, PTL DEF Spec, CheckpointMovesWhenSettled

(* SupersessionKeepsAnchors for every project. *)
THEOREM SupersessionKeepsEveryAnchor == Spec => SupersessionKeepsAnchors
<1>1. ASSUME TypeOK, FormOfStep, NEW r \in DOMAIN reqs,
             IsActive(reqs[r]), reqs'[r].lifecycle = "superseded",
             NEW d \in DOMAIN deltas', r \in deltas'[d].affects
      PROVE  \/ deltas'[d].status \in {"closed", "withdrawn"}
             \/ d = reqs'[reqs'[r].supersededBy].introducedBy
  <2>1. CASE RequirementReplaced
    <3>1. PICK c \in DOMAIN deltas, o \in ActiveReqs, b \in Blocks :
            /\ deltas' = AutoRebind(c, o, Len(reqs) + 1)
            /\ reqs' = Append([reqs EXCEPT ![o] = Superseded(o)], Successor(o, b, c))
      BY <2>1 DEF RequirementReplaced
    <3>2. o = r
      BY <1>1, <3>1, ReplacedSeq DEF IsActive
    <3>3. reqs[r] \in Requirement /\ Len(reqs) \in Nat /\ r # Len(reqs) + 1
      BY DomainOfSeq, <1>1 DEF TypeOK
    <3>4. Superseded(r).supersededBy = Len(reqs) + 1
      BY <3>3 DEF Superseded, Requirement
    <3>5. reqs'[reqs'[r].supersededBy].introducedBy = c
      BY <3>1, <3>2, <3>4, ReplacedSeq DEF Successor, NewRequirement
    <3>6. ASSUME d # c, deltas'[d].status \notin {"closed", "withdrawn"}
          PROVE  FALSE
      <4>1. d \in DOMAIN deltas /\ deltas[d] \in Delta
        BY <1>1, <3>1, DomainOfSeq DEF AutoRebind, TypeOK
      <4>2. CASE deltas[d].status \in Unsettled /\ r \in deltas[d].affects
        <5>1. deltas'[d].affects = (deltas[d].affects \ {r}) \cup {Len(reqs) + 1}
          BY <3>1, <3>2, <3>6, <4>1, <4>2 DEF AutoRebind, Delta
        <5> QED
          BY <1>1, <3>3, <5>1
      <4>3. CASE ~(deltas[d].status \in Unsettled /\ r \in deltas[d].affects)
        <5>1. deltas'[d] = deltas[d]
          BY <3>1, <3>2, <3>6, <4>1, <4>3 DEF AutoRebind
        <5> QED
          BY <1>1, <3>6, <4>1, <4>3, <5>1 DEF Delta, DeltaStatuses, Unsettled
      <4> QED
        BY <4>2, <4>3
    <3> QED
      BY <3>5, <3>6
  <2>2. CASE reqs' = reqs
    BY <1>1, <2>2 DEF IsActive
  <2>3. CASE RequirementAdded
    BY <1>1, <2>3, ExtendedSeq DEF RequirementAdded, TypeOK, IsActive
  <2>4. CASE RequirementChanged
    <3>1. PICK c \in ActiveReqs, e \in Requirement :
            e.lifecycle # "superseded" /\ reqs' = [reqs EXCEPT ![c] = e]
      BY <2>4 DEF RequirementChanged
    <3>2. /\ reqs'[c] = e
          /\ \A i \in DOMAIN reqs : i # c => reqs'[i] = reqs[i]
      BY <3>1, UpdatedSeq DEF TypeOK, ActiveReqs
    <3> QED
      BY <1>1, <3>1, <3>2 DEF IsActive
  <2> QED
    BY <1>1, <2>1, <2>2, <2>3, <2>4
       DEF FormOfStep, NothingRecorded, ContentKept, DeltaAdded, DeltaChanged
<1>2. TypeOK /\ [Next]_vars =>
        [\A r \in DOMAIN reqs :
           (IsActive(reqs[r]) /\ reqs'[r].lifecycle = "superseded") =>
             \A d \in DOMAIN deltas' :
               r \in deltas'[d].affects =>
                 \/ deltas'[d].status \in {"closed", "withdrawn"}
                 \/ d = reqs'[reqs'[r].supersededBy].introducedBy]_vars
  BY <1>1, StepForm
<1> QED
  BY <1>2, TypeCorrect, PTL DEF Spec, SupersessionKeepsAnchors

-----------------------------------------------------------------------------
(* The changelog. *)

(* ChangelogExact speaks of reqs[r] for a recorded r; that such an r exists   *)
(* has to be carried along.                                                   *)
ChangelogInductive == ChangelogExact /\ RecordedAdded \subseteq DOMAIN reqs

LEMMA BumpRecords ==
  ASSUME TypeOK, changelog' = Append(changelog, NextEntry)
  PROVE  /\ DOMAIN changelog' = DOMAIN changelog \cup {Len(changelog) + 1}
         /\ Len(changelog) + 1 \notin DOMAIN changelog
         /\ Len(changelog') = Len(changelog) + 1
         /\ \A i \in DOMAIN changelog : changelog'[i] = changelog[i]
         /\ changelog'[Len(changelog) + 1] = NextEntry
<1>1. NextEntry \in ChangelogEntry /\ changelog \in Seq(ChangelogEntry)
  BY NextEntryTyped DEF TypeOK
<1> HIDE DEF NextEntry
<1>2. Len(changelog') = Len(changelog) + 1
  BY <1>1, AppendProperties
<1> QED
  BY <1>1, <1>2, ExtendedSeq

LEMMA BumpKeepsChangelog ==
  ASSUME TypeOK, Consistent, ChangelogInductive, UNCHANGED <<deltas, reqs>>,
         changelog' = Append(changelog, NextEntry), rev' = rev + 1
  PROVE  ChangelogInductive'
<1> DEFINE n == Len(changelog) + 1
<1>1. /\ DOMAIN changelog' = DOMAIN changelog \cup {n}
      /\ n \notin DOMAIN changelog
      /\ Len(changelog') = n
      /\ \A i \in DOMAIN changelog : changelog'[i] = changelog[i]
      /\ changelog'[n] = NextEntry
  BY BumpRecords
<1>2. /\ NextEntry.rev = rev + 1
      /\ NextEntry.opened = DOMAIN deltas \ RecordedOpened
      /\ NextEntry.closed = WithStatus("closed") \ RecordedClosed
      /\ NextEntry.withdrawn = WithStatus("withdrawn") \ RecordedWithdrawn
      /\ NextEntry.added = DOMAIN reqs \ RecordedAdded
  BY DEF NextEntry
<1>3. rev = n /\ \A i \in DOMAIN changelog : changelog[i].rev = i + 1
  BY DEF ChangelogInductive, ChangelogExact
<1> HIDE DEF n
<1>4. /\ RecordedOpened' = RecordedOpened \cup NextEntry.opened
      /\ RecordedClosed' = RecordedClosed \cup NextEntry.closed
      /\ RecordedWithdrawn' = RecordedWithdrawn \cup NextEntry.withdrawn
      /\ RecordedAdded' = RecordedAdded \cup NextEntry.added
  BY <1>1 DEF RecordedOpened, RecordedClosed, RecordedWithdrawn, RecordedAdded
(* No entry holds what the new one records. *)
<1>5. \A i \in DOMAIN changelog :
        /\ changelog[i].opened \cap NextEntry.opened = {}
        /\ changelog[i].closed \cap NextEntry.closed = {}
        /\ changelog[i].withdrawn \cap NextEntry.withdrawn = {}
        /\ changelog[i].added \cap NextEntry.added = {}
  BY <1>2 DEF RecordedOpened, RecordedClosed, RecordedWithdrawn, RecordedAdded
<1>6. rev' = Len(changelog') + 1
  BY <1>1, <1>3
<1>7. ASSUME NEW i \in DOMAIN changelog', NEW j \in DOMAIN changelog'
      PROVE  /\ changelog'[i].rev = i + 1
             /\ i # j => /\ changelog'[i].opened \cap changelog'[j].opened = {}
                         /\ changelog'[i].closed \cap changelog'[j].closed = {}
                         /\ changelog'[i].withdrawn \cap changelog'[j].withdrawn = {}
                         /\ changelog'[i].added \cap changelog'[j].added = {}
  <2>1. changelog'[i].rev = i + 1
    BY <1>1, <1>2, <1>3
  <2>2. CASE i = n
    BY <1>1, <1>5, <2>1, <2>2
  <2>3. CASE j = n
    BY <1>1, <1>5, <2>1, <2>3
  <2>4. CASE i # n /\ j # n
    BY <1>1, <2>1, <2>4 DEF ChangelogInductive, ChangelogExact
  <2> QED
    BY <2>2, <2>3, <2>4
<1>8. DOMAIN deltas \subseteq RecordedOpened' /\ DOMAIN reqs \subseteq RecordedAdded'
  BY <1>2, <1>4
<1>9. /\ (RecordedClosed \subseteq WithStatus("closed") \cap RecordedOpened)'
      /\ (RecordedWithdrawn \subseteq WithStatus("withdrawn") \cap RecordedOpened)'
  <2>1. WithStatus("closed")' = WithStatus("closed") /\ WithStatus("withdrawn")' = WithStatus("withdrawn")
    BY DEF WithStatus
  <2>2. /\ RecordedClosed \subseteq WithStatus("closed")
        /\ RecordedWithdrawn \subseteq WithStatus("withdrawn")
    BY DEF ChangelogInductive, ChangelogExact
  <2>3. WithStatus("closed") \subseteq DOMAIN deltas /\ WithStatus("withdrawn") \subseteq DOMAIN deltas
    BY DEF WithStatus
  <2> QED
    BY <1>2, <1>4, <1>8, <2>1, <2>2, <2>3
<1>10. RecordedAdded' \subseteq DOMAIN reqs'
  BY <1>2, <1>4 DEF ChangelogInductive
<1>11. \A r \in RecordedAdded' : reqs'[r].introducedBy \in RecordedOpened'
  BY <1>8, <1>10 DEF Consistent, ValidTracking, ValidRequirement
<1> QED
  BY <1>6, <1>7, <1>9, <1>10, <1>11 DEF ChangelogInductive, ChangelogExact

LEMMA OtherStepsKeepChangelog ==
  ASSUME TypeOK, ChangelogInductive, FormOfStep, UNCHANGED <<rev, changelog>>
  PROVE  ChangelogInductive'
<1>1. /\ RecordedOpened' = RecordedOpened
      /\ RecordedClosed' = RecordedClosed
      /\ RecordedWithdrawn' = RecordedWithdrawn
      /\ RecordedAdded' = RecordedAdded
  BY DEF RecordedOpened, RecordedClosed, RecordedWithdrawn, RecordedAdded
<1>2. /\ WithStatus("closed") \subseteq WithStatus("closed")'
      /\ WithStatus("withdrawn") \subseteq WithStatus("withdrawn")'
  BY SettledStepFrozen DEF WithStatus
<1>3. /\ RecordedAdded \subseteq DOMAIN reqs
      /\ \A r \in DOMAIN reqs : r \in DOMAIN reqs' /\ reqs'[r].introducedBy = reqs[r].introducedBy
  BY RetiredStepFrozen DEF ChangelogInductive
<1>4. \A r \in RecordedAdded' : r \in DOMAIN reqs' /\ reqs'[r].introducedBy \in RecordedOpened'
  BY <1>1, <1>3 DEF ChangelogInductive, ChangelogExact
<1> QED
  BY <1>1, <1>2, <1>4 DEF ChangelogInductive, ChangelogExact

LEMMA StepKeepsChangelog ==
  ASSUME TypeOK, Consistent, ChangelogInductive, [Next]_vars
  PROVE  ChangelogInductive'
<1>1. FormOfStep
  BY StepForm
<1>2. ASSUME NEW c \in Commits, BumpRevision(c)
      PROVE  ChangelogInductive'
  BY <1>2, BumpKeepsChangelog DEF BumpRevision, Save
<1>3. CASE UNCHANGED <<rev, changelog>>
  BY <1>1, <1>3, OtherStepsKeepChangelog
<1>4. ASSUME NEW p, \/ Sync(p) \/ DocAdd(p) \/ DocRemove(p)
                    \/ EditSpecDoc(p) \/ EditRepoFile(p)
      PROVE  UNCHANGED <<rev, changelog>>
  BY <1>4
     DEF Sync, DocAdd, DocRemove, SaveDocuments, EditSpecDoc, EditRepoFile, tracking
<1>5. OthersKept \/ UNCHANGED vars => UNCHANGED <<rev, changelog>>
  BY DEF OthersKept, vars, tracking
<1> QED
  BY <1>2, <1>3, <1>4, <1>5, ContentCommandsKeepOthers DEF Next

LEMMA InitChangelog == Init => ChangelogInductive
BY DEF Init, ChangelogInductive, ChangelogExact, RecordedClosed, RecordedWithdrawn, RecordedAdded

(* ChangelogExact for every project. *)
THEOREM ChangelogStaysExact == Spec => []ChangelogExact
<1>1. TypeOK /\ Consistent /\ ChangelogInductive /\ [Next]_vars => ChangelogInductive'
  BY StepKeepsChangelog
<1>2. ChangelogInductive => ChangelogExact
  BY DEF ChangelogInductive
<1> QED
  BY <1>1, <1>2, InitChangelog, TypeCorrect, AlwaysConsistent, PTL DEF Spec
=============================================================================
