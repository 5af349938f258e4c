--------------------------- MODULE SpecGovernance ---------------------------
(***************************************************************************)
(* SpecLifecycle implements Governance.  The commands check neither the     *)
(* status of the delta they act for nor the closures they may break: that   *)
(* they keep the promise is the joint effect of the validation every write   *)
(* passes and of the stored status "rev bump" relies on.                     *)
(***************************************************************************)
EXTENDS SpecLifecycle

Stage(req) ==
  IF ~IsActive(req) THEN "retired"
  ELSE CASE req.verification = "verified" -> "proven"
         [] req.verification = "stale"    -> "doubted"
         [] OTHER                         -> "promised"

Work(delta) ==
  CASE delta.status = "closed"    -> "done"
    [] delta.status = "withdrawn" -> "dropped"
    [] delta.status = "deferred"  -> "parked"
    [] OTHER                      -> "ongoing"

Stages    == [r \in DOMAIN reqs |-> Stage(reqs[r])]
Owners    == [r \in DOMAIN reqs |-> reqs[r].introducedBy]
Works     == [d \in DOMAIN deltas |-> Work(deltas[d])]
Aims      == [d \in DOMAIN deltas |-> deltas[d].affects]
Published == RecordedClosed \cup RecordedWithdrawn

Promised ==
  INSTANCE Governance WITH
    stage <- Stages, owner <- Owners, work <- Works, aims <- Aims, published <- Published

(* Every command is one step of Governance or none: no sequence of commands *)
(* doubts what finished work touched, adds to finished work, finishes work    *)
(* that is not proven, retires what is doubted, or publishes a settled delta  *)
(* twice or while others are in flight.                                       *)
ImplementsGovernance == Promised!Spec
=============================================================================
