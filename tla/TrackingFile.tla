---------------------------- MODULE TrackingFile ----------------------------
(***************************************************************************)
(* The domain layer of specctl: the deltas and the requirements that one   *)
(* .specs/<charter>/<slug>.yaml file holds, the status derived from them,  *)
(* and the validation every write passes (src/internal/domain).            *)
(*                                                                         *)
(* IDs are sequential without gaps (D-001, D-002, ...; REQ-001, ...), so a *)
(* delta or a requirement IS its position in a sequence: ds[3] is D-003.   *)
(* affects_requirements is kept as a set: the code only asks it for        *)
(* membership, emptiness and "for all", and replaces every occurrence of   *)
(* an ID at once.  A Gherkin block is an opaque value; its @manual tag is  *)
(* membership in ManualBlocks.  Free text, dates and paths with a fixed    *)
(* form are left out, and so is the stored updates[] list: every reader    *)
(* goes through projectDelta, which infers it again from the intent when   *)
(* it is empty, so nothing can tell a cleared list from a full one.        *)
(***************************************************************************)
EXTENDS Naturals, Sequences

CONSTANTS
  Blocks,           \* requirement-level Gherkin blocks, all of whose tags are configured
  ManualBlocks,     \* the blocks that carry the semantic tag @manual
  TestFiles,        \* repository paths offered as verification evidence
  MaxDeltas,        \* largest number a D-NNN identifier can hold (999 in the code)
  MaxRequirements   \* largest number a REQ-NNN identifier can hold (999 in the code)

ASSUME ManualAssumption == ManualBlocks \subseteq Blocks
ASSUME LimitsAssumption == MaxDeltas \in Nat \ {0} /\ MaxRequirements \in Nat \ {0}

Intents       == {"add", "change", "remove", "repair"}
DeltaStatuses == {"open", "in-progress", "closed", "deferred", "withdrawn"}
Lifecycles    == {"active", "superseded", "withdrawn"}
Verifications == {"unverified", "verified", "stale"}
SpecStatuses  == {"draft", "ready", "active", "verified"}

NoReq == 0   \* the empty supersedes / superseded_by

Delta == [intent: Intents, status: DeltaStatuses, affects: SUBSET Nat]

Requirement ==
  [block: Blocks, lifecycle: Lifecycles, verification: Verifications,
   files: SUBSET TestFiles, introducedBy: Nat, supersedes: Nat, supersededBy: Nat]

-----------------------------------------------------------------------------

NewDelta(intent, affects) ==
  [intent |-> intent, status |-> "open", affects |-> affects]

NewRequirement(block, delta) ==
  [block |-> block, lifecycle |-> "active", verification |-> "unverified",
   files |-> {}, introducedBy |-> delta, supersedes |-> NoReq, supersededBy |-> NoReq]

(* What a delta's intent lets the requirement commands do on its behalf. *)
AllowedUpdate(intent) ==
  CASE intent = "change" -> "replace_requirement"
    [] intent = "remove" -> "withdraw_requirement"
    [] intent = "repair" -> "stale_requirement"
    [] OTHER             -> "add_requirement"

IsActive(req) == req.lifecycle = "active"
IsManual(req) == req.block \in ManualBlocks

LiveDeltas(ds) == {d \in DOMAIN ds : ds[d].status \notin {"deferred", "withdrawn"}}

TracingRequirements(rs, d) == {r \in DOMAIN rs : rs[r].introducedBy = d}

(* Mutant: a delta touches only what it affects, not what it introduced. *)
TouchedBy_AffectedOnly(ds, rs, d) == {r \in DOMAIN rs : r \in ds[d].affects}

(* Affected IDs that name no requirement are dropped, as RequirementByID does. *)
TouchedBy(ds, rs, d) ==
  {r \in DOMAIN rs : r \in ds[d].affects \/ rs[r].introducedBy = d}

DeltasTouching(ds, rs, r) ==
  {d \in DOMAIN ds : rs[r].introducedBy = d \/ r \in ds[d].affects}

InLifecycle(rs, lifecycle) == {r \in DOMAIN rs : rs[r].lifecycle = lifecycle}

Assessed(rs) == {r \in DOMAIN rs : rs[r].verification # "unverified"}

(* Has the work the intent declares been recorded? *)
UpdatesResolved(ds, rs, d) ==
  LET affected == ds[d].affects
      introduced == TracingRequirements(rs, d)
  IN CASE ds[d].intent = "change" -> /\ affected # {} /\ introduced # {}
                                     /\ affected \subseteq InLifecycle(rs, "superseded")
       [] ds[d].intent = "remove" -> affected # {} /\ affected \subseteq InLifecycle(rs, "withdrawn")
       [] ds[d].intent = "repair" -> affected # {} /\ affected \subseteq Assessed(rs)
       [] OTHER                   -> introduced # {}

BlockingForClosure(ds, rs, d) ==
  {r \in TouchedBy(ds, rs, d) : IsActive(rs[r]) /\ rs[r].verification # "verified"}

DeltaClosureValid(ds, rs, d) ==
  UpdatesResolved(ds, rs, d) /\ BlockingForClosure(ds, rs, d) = {}

ComputedStatus(ds, rs) ==
  LET live == LiveDeltas(ds)
      settled(d) == ds[d].status = "closed" /\ BlockingForClosure(ds, rs, d) = {}
  IN IF live = {} THEN "draft"
     ELSE IF \E d \in live : ~UpdatesResolved(ds, rs, d) THEN "ready"
     ELSE IF \E d \in live : ~settled(d) THEN "active"
     ELSE "verified"

-----------------------------------------------------------------------------

(* Mutant: the check of test_files is left to "req verify". *)
ValidRequirement_NoEvidence(ds, req) ==
  /\ ~IsActive(req) => req.verification # "stale"
  /\ req.introducedBy \in DOMAIN ds

(* One requirement on its own, then against the deltas of the file. *)
ValidRequirement(ds, req) ==
  /\ ~IsActive(req) => req.verification # "stale"
  /\ req.introducedBy \in DOMAIN ds
  /\ (req.verification = "verified" /\ ~IsManual(req) /\ req.lifecycle # "superseded")
       => req.files # {}

(* Mutant: closure is validated by "delta close" and never again. *)
ValidTracking_CloseOnce(ds, rs) ==
  /\ Len(ds) <= MaxDeltas
  /\ Len(rs) <= MaxRequirements
  /\ \A d \in DOMAIN ds : ds[d].affects \subseteq DOMAIN rs
  /\ \A r \in DOMAIN rs : ValidRequirement(ds, rs[r])

(* TrackingFile.Validate, less the comparison of the stored status with the *)
(* computed one (StoredStatusCurrent in SpecLifecycle).                      *)
ValidTracking(ds, rs) ==
  /\ Len(ds) <= MaxDeltas
  /\ Len(rs) <= MaxRequirements
  /\ \A d \in DOMAIN ds : ds[d].affects \subseteq DOMAIN rs
  /\ \A r \in DOMAIN rs : ValidRequirement(ds, rs[r])
  /\ \A d \in DOMAIN ds : ds[d].status = "closed" => DeltaClosureValid(ds, rs, d)
=============================================================================
