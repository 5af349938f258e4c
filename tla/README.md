# specctl in TLA+

`specctl` keeps, beside a repository's code, a set of governed specifications:
`.specs/<charter>/<slug>.yaml` tracking files, a `CHARTER.yaml` per charter, a
`specctl.yaml` for the project, and a `SPEC.md` per specification. People and
agents change them only through commands (`delta add`, `req verify`, `rev
bump`, ...); this project models what those commands do and what they promise.
Paths below are relative to `src/`.

## Inventory

| Part | State | Operations | What is hard about it |
|---|---|---|---|
| domain: tracking file (`internal/domain/{tracking,delta,requirement}.go`) | deltas, requirements, derived status | `Validate`, `ComputedStatus`, closure rules | the rules must stay true under commands that do not look at them |
| application: spec write commands (`internal/application/spec_writes.go`, `write_pipeline.go`) | one tracking file, loaded, cloned, replaced | 7 delta, 6 requirement, 2 revision, 2 document commands, `spec create` | long command sequences; guards that look at one record while another depends on it |
| design documents (`infrastructure/design_doc_*.go`) | the Gherkin blocks of `SPEC.md` | match a stored block; bootstrap frontmatter | edited by the agent between any two commands |
| charters (`domain/charter.go`, `application/adjacent_writes.go`) | groups, ordered entries, dependencies | create, add/replace entry, remove entry, order | acyclicity, group order, stale entries |
| config (`infrastructure/config.go`) | tags, source prefixes | add/remove tag or prefix | a tag removed while a requirement that uses it is being added |
| registries and commit (`infrastructure/registry_components.go`, `transaction.go`, `repo_audit.go`) | the files of `.specs/` | preview the whole repository with the planned writes, stage, rename one by one, roll back | no lock, no version: lost updates, crash between renames, rollback over another writer |
| readers (`infrastructure/tracking_reader.go`, `tracking_lenient.go`) | none | strict read (before a write), lenient read (audit) | two judges of one file that must agree |
| drift and git (`infrastructure/workspace.go`, `drift_source.go`, `git.go`) | git history, checkpoint | drifted, tracked, reviewed | which commit introduced a delta |
| ownership (`infrastructure/ownership_resolver.go`) | scope directories of all specs | governing spec of a file | overlapping scopes |
| read surface (`application/service.go`, `projections.go`) | none | `context`, `diff`, the `next` steps | an agent follows `next`: does it get anywhere? |
| cli, mcp (`internal/cli`, `internal/mcp`) | none | parse, call the service, print | the MCP server is one more concurrent process |
| dashboard (`internal/dashboard`, `dashboard/`) | none | read-only HTTP projections | - |

The command line and the MCP server call the application service; the service
loads through the strict reader, decides on a clone, and writes through a
registry, which previews the whole repository with the candidate in place,
refuses when the audit of that preview finds anything, and commits by renaming
temporary files. `SPEC.md`, test files and secondary documents are shared state
that the agent's editor changes at any time.

`PROJECT.json` lists every part with its status, and under "hazards" what in
this code a test would hardly reach, at its line.

## Modules

`TrackingFile` - the pure domain layer: `Delta` and `Requirement` records,
`ComputedStatus`, the closure rules, `ValidTracking` (`TrackingFile.Validate`).

`SpecLifecycle` - the state machine of one specification. Its variables are the
fields of the tracking file (`deltas`, `reqs`, `status`, `rev`, `checkpoint`,
`changelog`, `secondary`), the blocks that occur exactly once in `SPEC.md`
(`doc`) and the files that exist (`repoFiles`). Every write command is one
action; a command that is refused writes nothing and is a stuttering step.
`Save` is the pipeline all of them share: the strict load, the recomputed
status, the validation of the candidate, the preview of the repository, the
replacement of the file. `EditSpecDoc` and `EditRepoFile` are the agent's
editor: they need nobody's permission.

| Command | Action |
|---|---|
| `delta add/start/defer/resume/close/withdraw` | `AddDelta`, `StartDelta`, `DeferDelta`, `ResumeDelta`, `CloseDelta`, `WithdrawDelta` |
| `delta rebind-requirements` (`--to`, `--remove`) | `RebindDelta` |
| `req add/replace/withdraw/stale/refresh/verify` | `AddRequirement`, `ReplaceRequirement` (with `AutoRebind`), `WithdrawRequirement`, `StaleRequirement`, `RefreshRequirement`, `VerifyRequirement` |
| `rev bump`, `sync` | `BumpRevision`, `Sync` |
| `doc add/remove` | `DocAdd`, `DocRemove` |

`Governance` - the abstract specification of one spec: requirements are promised,
proven, doubted or retired, work is ongoing, parked, done or dropped, and what is
settled is published. It knows no intents, supersession links, evidence, stored
status or files. `SpecGovernance` maps `SpecLifecycle` to it (`Stage`, `Work`, the
introducing delta, the affected requirements, what the changelog records) and
states that every command is one of its steps or none. What makes this more than
a renaming: `Doubt` and `Promise` ask that finished work stays as it is, and
`Publish` that nothing is ongoing and all that is finished is proven, while
`req stale`, `req add` and `rev bump` look at none of it: they rely on the
validation of every write and on the stored status.

`MCSpecLifecycle` holds bounds and symmetries for TLC. Theorems are in modules of
their own, named after what they are about: `SpecLifecycleProofs`,
`SpecGovernanceProofs`, `RepoWritesProofs`, `RepoAtomicProofs`, `CharterProofs`,
`OwnershipProofs`, `DriftProofs`, `GuidanceProofs`.
Definitions named `<Action>_<Bug>` are mutations: plausible bugs of the code,
used to show that a property would notice them. No behaviour uses them.

`RepoFiles` - the files of a whole repository as pure definitions: what each
holds as far as other files depend on it, `Audit` (`EvaluateRepoSnapshot`), and
for seven commands what they require (`Legal`) and the writes they plan in order
(`Plan`). `RepoWrites` - the processes that run them: each loads and decides
(`Start`), previews the repository with its writes in place in two reads
(`ReadTrackings`, then the charters in `AcceptPreview` or `RefusePreview`),
replaces one file after the other (`Rename`) and reports. `RenameFails`,
`Restore`, `RestoreFails`, `BackupFails` and `Crash` are the ways it can go
wrong. `undo` is the backup list of `CommitWritesAtomicallyWithRollback`, `acked`
a history of the requirements reported as added. `AtomicRepo` is the abstract
specification: a command is one step. `RepoWrites` is shown to implement it
with `files <- Visible`, the repository in which unfinished writes do not count.
`MCRepoWrites` holds the symmetries.

| Code | Definition |
|---|---|
| `CreateCharter`, `CreateSpec`, `AddSpecToCharter`, `RemoveSpecFromCharter` | `"charter create"`, `"spec create"`, `"charter add-spec"`, `"charter remove-spec"` in `Legal`, `Plan` |
| a write of a tracking file (`req add` stands for all of them) | `"req add"` |
| `ApplyConfigMutation` for tags, `TagInUse` | `"config add-tag"`, `"config remove-tag"` |
| `loadRepoReadSnapshotWithOverlay` | `ReadTrackings`, `Snapshot`, `Overlay` |
| `CommitWritesAtomicallyWithRollback`, `captureBackup`, `rollbackWrites` | `Rename`, `RenameFails`, `BackupFails`, `Restore`, `RestoreFails` |

`Charter` - one charter: the order of its groups (`groups`), its entries
(`entries`) and which specs have a tracking file (`trackings`). `charter create`
is `Init`; `spec create`, `charter add-spec` and `charter remove-spec` are actions
that end in `Apply`, the validation and the audit every charter write passes. A
tracking file may be lost outside specctl. `OrderedSpecs` and `CycleSlugs` are the
algorithms of `domain/charter.go`, step by step, and the properties compare them
with what an order and a cycle are. `Ownership` extends `Charter` with the scope of
every spec and the source prefixes: who governs a file, and what the commit hook
reports of the staged files.

`Drift` - the commits git has (`objects`), `head`, and the tracking file on disk.
Each commit holds the governed files and the tracking file as it was committed.
`DriftStatus` is `SnapshotScopeDrift`: which files changed since the checkpoint,
and whether the open deltas of this review cycle cover them. Besides the delta
commands and `sync`/`rev bump`, git acts: commits with or without the tracking
file, reset, garbage collection, a restored tracking file.

`Guidance` - `SpecLifecycle` together with an agent that reads the `next` actions
of every response and runs one of them. Its variables are what it remembers of
the last response (`next`, `source`) and the drift it works under (`moved`,
`spent`). `Follow` is the obedient step; the agent may also forget what it was
told and ask `context` again (`NewSession`), open a delta (`Start`), or try to close
one early (`TryClose`), while code, tracking file and `SPEC.md` are committed
around it. `Acceptable` says of a proposal what its command will look at and what its
candidate must pass, as a predicate of the state: it is what theorems about
proposals speak of, and the run shows that it is exactly what the commands accept
(`JudgedAsAccepted`: a check of the model against itself, without which the
theorems would speak of a predicate of their own). `GuidanceClaims` holds the statement about `context` that the
code does not keep.

| Code | Definition |
|---|---|
| `Charter.Validate`, `EnsureGroup`, `ReplaceSpecEntry` | `Accepted`, `EnsuredGroups`, `WithEntry` |
| `OrderedSpecs`, `BuildLenientCharterOrdering`, `findCharterCycleSlugs` | `Kahn`, `OrderedSpecs`, `CycleSlugs` |
| `deltaIntroductionCommit`, `deltaCoverageFiles`, `SnapshotScopeDrift` | `Introduction`, `Coverage`, `DriftStatus` |
| `resolveFileOwnership`, `selectGoverningCandidate`, `fileCandidateLess` | `Claims`, `Matches`, `Contenders`, `GoverningSpec`, `ClaimBefore` |
| `PrepareHookInputs`, `classifyManagedHookPath`, `ReadHook` | `Considered`, `AffectedTargets`, `HookEntry`, `Hook` |
| `buildSpecContextNext`, `buildSpecDiffNext`, `buildTrackedDriftContinuationNext` | `ContextNext`, `DiffNext`, `Continuation` and `Continue` |
| the `nextBuilder` of each write command, the `Next` of each refusal | `Response`, `NoWriteResponse` |

What is abstracted in `SpecLifecycle`:

- IDs are positions: the code allocates `D-NNN`, `REQ-NNN` without gaps and
  never deletes. `MaxDeltas` and `MaxRequirements` stand for the 999 that three
  digits hold, so the bounds of a run are a limit the program also has.
- `affects_requirements` is a set, a Gherkin block an opaque value whose tag
  `@manual` is membership in `ManualBlocks` (the other tags are configured), and
  a file a name. Titles, notes, dates and messages are left out.
- The stored `updates` list is left out: every reader infers it from the intent
  when it is empty (`projectDelta`), so its contents cannot be observed.
- The spec is registered in its charter, its scope directories and its primary
  document exist. One command runs at a time; what happens when two do, or when
  one stops half way, is the subject of `RepoWrites`.

What is abstracted in `RepoWrites`:

- A file holds what the audit looks at: the config its tags, a charter its
  entries, a tracking file the tags of its requirements, a document whether its
  frontmatter names the spec. Charter entries have no dependencies and their
  group exists; documents are not edited while a command runs.
- Loading is one step, at the moment the command decides. The preview is two: the
  config, tracking files and documents, then the charters, which is the order of
  the code and enough for a reader to see half of a `spec create`.
- Staging the temporary files changes nothing anybody reads (the finders ignore
  `.tmp`); when it fails the command fails with nothing to undo, the case of
  `RenameFails` before the first rename. Backup and rename of one file are one step.
- Exclusion is the discipline of the users, since the code has none: one writing
  command at a time in the repository (`"all"`), one per target file, which is
  what section 23 asks for (`"target"`), or none. `"all"` is stronger than that
  contract, and a clean repository needs it: see the race of `req add` and
  `config remove-tag` below.

What is abstracted in `Charter` and `Ownership`: a slug is a number (its
alphabetical rank), titles and notes are left out, dependencies are a set since
`Validate` refuses repetitions; a path is a sequence of names and a directory a
prefix of it; lists of files in a hook report are sets; several charters do not
occur (their names would only be one more rank).

What is abstracted in `Drift`: a commit has one parent. `git log` of the tracking file
also meets merge commits, and simplifies the history around them; nothing is claimed
of a branch that has any. Left out are working copies of governed files (an uncommitted
change is reported beside the drift and does not enter it), requirements (a delta
may settle at any time, `sync` may or may not pass its other guards), contents
other than equal or different. Live stands for open and in progress, settled for
closed and withdrawn, which the code treats alike.

What is abstracted in `Guidance`: a proposal is a command with the delta and the
requirement in its arguments; advice that is not a command, priorities and texts
are left out. Drift is reduced to one governed file; edits are committed at once;
an `affects_requirements` list names one requirement.

## Runs

| Run | Instance | Question |
|---|---|---|
| sealing | 3 deltas, 2 requirements, 2 blocks, to the first revision | does anything undo a closure, move a settled delta, or leave a delta behind on a superseded requirement? is `verified` ever ahead of the proof? |
| supersession | 2 deltas, 3 requirements, 2 blocks | do chains of replacements stay linked both ways, and do retired requirements stay put? is every command one step of `Governance`? |
| revisions | 3 deltas, 1 requirement, 1 block, 2 commits, any number of revisions | does the changelog record everything once? when does the checkpoint move? |
| evidence | 2 deltas, 2 requirements, 2 test files, 1 secondary document, one `@manual` block | does verification keep its evidence? is every written file readable again? |
| one_writer | 2 processes, one writing at a time; 1 charter, 2 specs, 1 tag; documents missing, plain or governed; failing renames | is every command one step of `AtomicRepo`, or none? does each leave the repository clean? |
| targets | 2 processes, assumed to keep to disjoint target files; 2 specs, 2 tags; plain documents; every fault | is a reported requirement ever lost? |
| crash | 1 process, 2 charters with 2 specs each, governed documents; crashes and failing renames | does any crash leave a repository in which every command is refused? |
| charter | 3 slugs, 2 groups, 2 group and 2 entry orders | are dependencies acyclic, is the listed order the best one, is a reported cycle real, is nobody else reshuffled? |
| drift | 2 governed files, 2 contents, 3 commits without merges, 2 deltas | can tracked drift hide a late change? is committing the tracking file neutral? how do commands move the drift? |
| guidance | 4 blocks, 1 test file, 3 deltas, 3 requirements, 1 rewording; all four intents | is the same work ever recorded twice? is a proposal of a write ever refused? can a new session go on? does following `next` reach a new checkpoint? |
| ownership | 2 specs, 4 files, 2 nested directories, 2 entry orders | does the hook depend on the order of its input? who governs a file, and what can move it? |
| claim_guidance | as guidance, sessions also end while a removal or repair is in flight | `context` proposes a step that is refused (violated) |

### Other disagreements

Met while modelling, visible in the models, without a run of their own. About the
lifecycle of one specification:

- A spec is `verified` with an unverified active requirement when the delta that
  introduced it is deferred or withdrawn (`tracking.go:109`); SPEC.md:2768 says
  "every live delta closed, every active req verified, no match issues".
- `delta add --intent repair` accepts a requirement that a closed delta
  introduced (`spec_writes.go:477` looks at affected requirements only), and no
  `req stale` for it is ever accepted; SPEC.md:3230 wants it rejected.
- `charter add-spec` replaces an entry that is registered already;
  SPEC.md:574 has it refused.
- `req add` accepts a second active requirement with the block, hence the title,
  of an active one (`spec_writes.go:835`); SPEC.md:2999 calls titles unique.
- `req add` accepts a delta that is already withdrawn (`spec_writes.go:870`); SPEC.md:3833
  calls an active requirement introduced by a withdrawn delta inconsistent.
- `req verify` merges test files (`spec_writes.go:1445`); SPEC.md:1162 says they
  are fully replaced.
- A withdrawn delta blocks `req refresh` (`spec_writes.go:1207`); SPEC.md:1032
  names live deltas only.

About the repository:

- Of two commands on one tracking file, both can report success and one be lost
  (`registry_components.go:247`): `MCTargets.cfg` with `Exclusion = "none"`, `Faults = {}`
  violates `AcknowledgedKept`. SPEC.md:3122 says exactly one succeeds at a time. The
  rollback of a command over what another has written since (`transaction.go:155`)
  needs the same overlap.
- `req add` and `config remove-tag` have no target file in common, each previews
  before the other has renamed (`registry_components.go:354`), and together they
  leave a requirement whose tag is not configured: `MCOneWriter.cfg` with
  `Exclusion = "target"`, `Faults = {}` and the invariants alone violates `CleanWhenIdle`.
  SPEC.md:899 requires it configured. So `one_writer` holds under a discipline
  stronger than section 23 asks for.
- When the backup of a later file cannot be read, the commit returns without
  restoring the files already replaced (`transaction.go:102`); a failing rename eight
  lines below does restore them. `MCOneWriter.cfg` with `Faults = {"backup"}` violates
  `CleanWhenIdle`. SPEC.md:3118 says "no partial state on disk".
- A crash between two renames of `spec create` leaves a tracking file whose
  document has no frontmatter: creating it again is `SPEC_EXISTS`, every other
  write is refused by the audit (`transaction.go:100`, `Crash`).
- A read beside a `spec create` takes the tracking files before and the charter after
  its rename, and reports an entry without a tracking file (`repo_read_store.go:83`):
  `Snapshot` of a reader does not satisfy `Audit`; SPEC.md:3126 says "Read commands are always safe and
  reflect the last complete write".
- With two tracking files of a charter lost, the audit refuses every command,
  their creation and their removal included, until a file is restored.
- `spec create` may take the scope of another spec; their files then tie and are
  governed by nobody. `hook` reports such files unowned, and
  ignores governed files outside `source_prefixes` unless they are primary documents.

About drift and `next`:

- A closed delta covers no drift (`workspace.go:352`); SPEC.md:3091 says "Closed
  deltas still count as coverage until the next sync point".
- A delta that is committed before its change covers none of it: the drift is
  `drifted`, and `context` does not continue the delta.
- An uncommitted open delta makes a commit of governed files `tracked`, not
  `drifted` as SPEC.md:3085 has it.
- When the checkpoint commit is gone, `context` proposes `sync --checkpoint HEAD`,
  which is refused while a delta is open.
- After `req refresh` with no delta in flight the response can propose work on a
  closed delta (`trackedDeltaIDs`, `service.go:1332`, falls back to all live deltas).
- A refused `delta close` names the first unverified requirement even if it is
  superseded (`spec_writes.go:2690`); `req verify` of it is refused.
- A change and a remove delta on one requirement are both accepted; settling one
  strands the other (hence `Anchored` in the properties).
- For a requirement whose block was reworded under a live change, remove or repair,
  `context` proposes `req refresh` only, and it is refused.
- While the scope is clean, the advice to take orphaned tests off superseded
  requirements and to delete them (`service.go:1069`) is given instead of any other
  step. No command takes test files off a requirement, and with the files deleted
  the strict reader refuses the tracking file.
- `context` proposes `delta add --intent repair` for a stale requirement although a
  repair is open; with a clean scope it proposes nothing for open deltas.
- A refused `delta withdraw` proposes `req withdraw` with the delta itself, which an
  add delta does not allow (`spec_writes.go:2189`).

Why these bounds are enough. The rules relate a delta to the requirements it
touches, and two deltas through one requirement; nothing counts further than
one item against another, except the supersession chain, where a middle element
(three requirements) is the largest case, and auto-rebinding, which needs a
replacing delta, a settled and an unsettled bystander (three deltas). In the
sealing, supersession and revisions runs every block is `@manual`: evidence is
out of the way, `req verify` needs no files, and files are the subject of the
evidence run. Four constraints cut runs short: `FirstRevision` stops at the first `rev bump`
where revisions are not the question, `SpecDocFirst` writes `SPEC.md` before the
first delta where its edits are not (the revisions run leaves the editor free), `OneIdle` keeps all deltas but one in progress or closed in the
sealing run, which needs a delta in progress beside a settled one and one
set aside, and `DocumentsApart` explores secondary documents before there are
requirements in the evidence run. Symmetry is used for blocks or files that no
formula distinguishes. The theorems hold without any of this.

The repository runs need two specs because the audit of one refuses the
commands of another, two charters because two dangling entries could lock each
other out, two tags because a lost update needs two requirements of one spec,
and two processes because every race in the code is between a load and a rename
of two commands. `Repairable` is checked with governed documents: with one that
`spec create` has to bootstrap it does not hold (see above). `CleanWhenIdle` is
claimed for failing renames only: a failing backup, a rollback that fails itself,
and a crash all leave partial writes. `AcknowledgedKept` is checked under every fault but
with one command per target file: what it shows is that a process's own rollback, failed
or not, and a crash take no reported requirement away, not that two commands on
one file keep out of each other's way.

Three slugs are the least with a cycle longer than two, with a cycle
beside an entry that is blocked but on no cycle, and with an entry that becomes
ready while another waits; two groups and two orders give every way to compare
two entries. Three commits hold a checkpoint, a commit on it and a second one on
it or beside it; two deltas hold one that is settled or set aside and one in
flight (`OneInFlight`), or an ID that returns (history is only rewritten before
the second delta, `OneWorkLine`); two files differ independently. Two nested
directories and two specs give a longer scope, a tie and a document inside a
foreign scope. In the guidance run a third requirement allows a change of a change,
three deltas a change or removal after an addition with one to spare, four blocks
one for each and one for a rewording. A session only ends while no removal or repair
is in flight: it would lead to the refusal `claim_guidance` shows, after which the
agent would ask for the same again. The agent opens repairs as well; only
`WriteResponsesLegal` and `FinishTrackedWork` stop at the first one (`NoRepairs`): a
repair can be accepted whose first step, `req stale`, the validation refuses because of
a closed delta (`spec_writes.go:477`), and while a requirement is stale it can neither be
replaced nor withdrawn.

`CHECK_DEADLOCK FALSE` is said for `charter` and `ownership`: with two tracking files
lost every command is refused. Elsewhere the editor or git can always act, a
repository can always be read.

Fairness is assumed in one place, for the agent of `Guidance`, and is an
assumption about it, not about the program, which only answers: an agent told to
work until nothing is left goes on (`WF` of `Follow`: it runs what is
proposed, or asks `context`), and does not refuse for ever a proposal that would be
accepted whenever it is offered (`SF` of `RunProposed`: weak fairness would allow
it to alternate between `diff` and `context`). Nothing is assumed about forgetting,
initiatives, or commits. `FinishTrackedWork` is therefore a statement about the
proposals: they neither go in circles nor run dry before the checkpoint has
moved.

## Proofs

Every safety invariant, action property and refinement the passing runs check is
proved for every value of the constants (those of `RepoWrites` under the discipline
and the faults its run assumes), but for the one that speaks of ENABLED (see the
end). The theorems that matter to a reader are listed in `PROJECT.json`.

| Module | Theorems | From |
|---|---|---|
| `SpecLifecycleProofs` | every property of `SpecLifecycle` | `TypeOK`, `Consistent`, `ChangelogInductive` |
| `SpecGovernanceProofs` | `SpecLifecycle` implements `Governance` | the same |
| `RepoWritesProofs` | types under any discipline and any fault; `AcknowledgedKept` with one writer per target file, whatever fails | `TypeInv`, `AckInv` |
| `RepoAtomicProofs` | `CleanWhenIdle` and the refinement of `AtomicRepo` with one writing command at a time and failing renames; `Repairable` with crashes as well | `WriterInv`, `MendInv` |
| `CharterProofs` | the search is exact; `DependenciesAcyclic`, `OrderedIsLeast`, `RefusedCycleIsReal`, `OthersKeepTheirOrder` | `StoredInv`, and `KahnInv` over the rounds of the search |
| `OwnershipProofs` | `Ownership` behaves as `Charter` does; `GovernsMostSpecific`, `OwnershipIsLocal`; the hook's report depends on the set of staged files only | `OTypeOK`, `StoredInv` |
| `DriftProofs` | `TrackedHidesNothingLate`, `CommittingTrackingIsNeutral`, `CommandsMoveDrift` | `HistoryInv` |
| `GuidanceProofs` | types; every proposal names a delta and a requirement that exist; an agent that follows `next` keeps the promises of `Governance`; `WorkRecordedOnce`, `WriteResponsesLegal`, `ContextResumesWork` | `AgentInv`, `OnceInv`, `TendedInv`, `DutyInv` |

### One specification

Assumptions: `ManualAssumption`, `LimitsAssumption`, `CommitsAssumption`. The
argument has three layers.

1. *Forms of a step.* `StepForm` shows that whatever a command does, seen from the
   file it either records nothing on the deltas and requirements, or `Save`s
   one of six changes: content kept, a delta added, a delta changed (status of
   an unsettled delta, or its affected set), a requirement added, a requirement
   changed (lifecycle, verification, block or files of an active one), a
   requirement replaced. The commands are looked at only here and in the few
   theorems that need a guard.
2. *The inductive core.* `Consistent` == the file passes its validation and its
   stored status is the computed one. `Save` re-establishes it on every write,
   which is why `ClosedDeltasSealed` and `VerifiedSpecIsProven` follow from it
   although `req stale`, `req add` and `req withdraw` never look at a delta's
   status, and why `WritesStayLoadable` holds.
3. *Strengthenings.* `ChangelogExact` is not inductive by itself: an entry
   could record a requirement that does not exist. `ChangelogInductive` adds
   that recorded requirements exist. `SupersessionLinked` and
   `VerifiedHasEvidence` are inductive over the forms together with `TypeOK`
   and `Consistent`; the action properties follow from the forms alone.

`SpecGovernanceProofs` maps each command to one step of `Governance` or a stutter. The
guards of the abstract steps that no command has come out of `Consistent'`: the
validation of the candidate says that the touched requirements of a closed delta
are proven, so `Doubt` and `Promise` cannot concern finished work; the stored status
being the computed one gives `Publish` that nothing is ongoing.

`GuidanceProofs` puts the agent on top (with `IntentsAssumption` and
`RewordingsAssumption`). The builders of `next` take the smallest member of a set of
deltas or requirements; `AgentInv` says enough for those sets not to be empty where
they do so (`Aimed`: no delta of the agent but an addition is without an affected
requirement, which would fail if the agent ran `delta rebind-requirements
--remove`). Every step of the agent is a command of `SpecLifecycle` or an edit of
`SPEC.md`, so what was proved of commands carries over.

What the agent is told is a second argument, in four steps:

1. *Work is recorded once* (`NoWorkIsRepeated`, no further assumption). No command
   looks whether its delta already has a requirement, so the invariant must say it of
   the proposals: `Timely` proposes `req add` and `req replace` only for a delta
   that introduced none yet, and `req stale` only for what its delta affects. `OnceInv`
   carries `Timely` proposals and `WorkRecordedOnce` together; neither is inductive
   alone, since the one says what the other lets happen.
2. *Requirements do not run out.* With one requirement for each delta at most, an add
   or change delta without one leaves room for it (`RoomForOne`), given `MaxDeltas <=
   MaxRequirements`: the code allows 999 of each.
3. *The file stays tended* (`TendedInv`): all files exist, no delta is put off or
   dropped, and a requirement is stale only while a repair of it is in flight. That
   `req stale` is not run for a repair already closed follows from the validation of
   its candidate, that `delta close` leaves nothing stale behind from its own guard.
4. *What is sound is acceptable.* `Sound` is the part of each command's tests that
   edits of `SPEC.md` cannot undo. `SoundIsAcceptable` shows that with a tended
   file, no repair in flight and a `SPEC.md` that agrees, the command's own tests hold
   and the candidate it would store passes the whole validation: the closures of
   all other deltas are kept (`ClosureKept`), which neither the builder nor the
   command looks at. `DutyInv` adds that what a write proposed stays `Sound` until the
   agent runs it, `TrackedContextSound` that what `context` proposes is, whatever
   was forgotten; hence `WritesProposeLegalSteps` and `ContextResumesTrackedWork`.
   Both assume that the agent has a test to cite (`TestFiles # {}`): without one
   `req verify` of a requirement that is not `@manual` is refused.

### The repository

Assumptions: `KindsAssumption` (the contents of different kinds of files are told
apart), `DocsAssumption`, `ExclusionAssumption`, `FaultsAssumption`, and per theorem
what the code leaves to its users:

- `Exclusive` (one command at a time per target file, or in the repository) for
  `AcknowledgedKept`. That is not inductive: a process may hold in memory an old
  tracking file as backup or a new one to write. `AckInv` adds that targets of
  processes are disjoint, that whatever is planned or backed up holds every
  acknowledged tag of its file, and that a `req add` under way is about to write its tag
  or has.
- `OneAtATime` (one writing command, only renames fail) for `CleanWhenIdle` and
  `AtomicRepo`. `WriterInv` says that the disk is the accepted repository with some
  of the writer's plan applied, and that undoing what it has backed up leads to a
  clean one (`Underway`). A command then happens, to everyone else, at its last rename; all other
  steps, the failed rename and the rollback are stutters of `Visible`.
- `CrashesAlone` (one writing command, crashes and failing renames, documents that
  are governed, at least one spec) for `Repairable`. `MendInv` says at every step
  what a crash would leave: a clean repository, in which `charter create`, `spec create`
  or `charter add-spec` is accepted (`CleanAccepts`), or one in which `spec create` of the
  interrupted spec is accepted again (`Settled`). With a document that must be bootstrapped it
  is false.

### Charters and ownership

Assumptions: `SlugsAssumption` (finite, numbers), `OrdersAssumption`; for ownership
`PathsAssumption` (paths are non-empty sequences) and `DocsAssumption` (every spec has
a document of its own). `StoredInv` == `TypeOK` and the stored charter passes its
validation. The theorems about the algorithms hold for every well-formed charter,
stored or candidate (`Judged`).

- `KahnInv` describes the search after any number of rounds: what is listed comes
  after its dependencies and was the least of those ready, `degree` counts the
  dependencies not yet listed, and the queue is all that waits for none, sorted. The queue is empty after at most as many rounds as
  there are entries (`RoundInv`); then what is left is blocked, and `SearchIsExact` says it is
  empty exactly when every set of entries has one that depends on none of
  them. `OrderedIsLeast` follows since every round takes the entry of least
  rank among those ready (`Greedy`).
- The walk along blocked dependencies repeats an entry after at most as many steps
  as there are blocked entries; from there on it is the reported cycle.
- Claims of specs on a file are sorted by source, length of the scope and rank.
  `BestClaim` shows that the sort has a first element and which, and
  `GovernsMostSpecific` that a difference in rank alone never decides.
- `Hook` is a fold over the staged files. `HookReportsTheStagedSet` shows that it
  equals `Summary` of the set of the files read so far, for lists of any length with
  repetitions, which is more than the run looks at (two files swapped).

### Drift

Assumption: `CommitsAssumption`, and a commit has one parent. `HistoryInv` == types, what git keeps is closed
under parents, and no tracking file, on disk or in a commit, names a checkpoint that
was never made. From it, the introduction of a delta is the commit the code looks for,
and what changed since cannot have changed unseen.

### Left to TLC

- `JudgedAsAccepted`, that `Acceptable` is what the commands decide, is about ENABLED,
  which this prover does not treat. It is the only step between the theorems
  about `Acceptable` and the commands, and it concerns the model, not its size.
- `FinishTrackedWork` is liveness under fairness.
- What is true of the repository with target exclusion beyond `AcknowledgedKept`:
  nothing is claimed there, and a clean repository is not (see above).

Some definitions are stated the way they are to be reasoned about: recursion is by
functions over a finite domain (`Kahn`'s rounds, the walk, `Hook`) or by quantifying
over what it computes (`Log`: the commits in every history that holds the commit);
a sorted list is the one that is sorted (`Ranked`, `Matches`); and in `Guidance` the
agent stops editing when `Blocks` has no new block left. The runs evaluate these same
definitions.

## Not modelled

The MCP server is a second entrance to the same service and keeps no state; what
it adds is one more concurrent process, which is `RepoWrites`. The presenter, the
dashboard and its web client, and the skills are text and views. Of the read
surface, the contexts of the registry, a charter and a file, warnings and focus
blocks are reports nobody acts on by argv alone; of `diff` the section by section
comparison. Format selection and frontmatter text of `spec create`, init and
settings bootstrap files. Merge commits (see `Drift`). Decoding and encoding of YAML is taken as exact.

## Plan

Done: `TrackingFile`, `SpecLifecycle`, `Governance`, `RepoFiles`, `RepoWrites`,
`AtomicRepo`, `Charter`, `Ownership`, `Drift`, `Guidance`, their runs, and the proofs
above.

Left: `Repairable` for documents that are plain, restricted to crashes that do not
fall between the renames of `spec create`; the refinement of `AtomicRepo` with backups
that fail on the first file only; merge commits in `Drift`.
