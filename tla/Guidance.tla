------------------------------ MODULE Guidance ------------------------------
(***************************************************************************)
(* The agent and the "next" actions specctl gives it: SpecLifecycle driven  *)
(* by an agent that runs what the last response proposed, asks "context"    *)
(* when nothing was proposed, and may forget everything and start again     *)
(* from "context" at any time.  A proposal names a command and the delta    *)
(* and requirement in its argv; proposals that are advice and no command    *)
(* (kind "guidance"), and their wording and priorities, are left out.       *)
(*                                                                         *)
(* Scope drift is the part of module Drift that "next" looks at, over one   *)
(* governed file: whether it changed since the checkpoint, and which deltas *)
(* were committed before it did.  Edits of SPEC.md are committed at once,   *)
(* together with the tracking file.  Every affects_requirements list names  *)
(* one requirement.                                                         *)
(***************************************************************************)
EXTENDS SpecLifecycle, FiniteSetsExt

CONSTANTS
  WorkIntents,       \* the intents of the deltas the agent opens
  ForgetfulIntents,  \* a session may end while only deltas of these intents are in flight
  MaxRewordings      \* bound: times a tracked block is reworded in SPEC.md

ASSUME IntentsAssumption == ForgetfulIntents \subseteq WorkIntents /\ WorkIntents \subseteq Intents
ASSUME RewordingsAssumption == MaxRewordings \in Nat

VARIABLES
  moved,     \* the governed file differs from the checkpoint
  spent,     \* the deltas that cover nothing of that difference
  next,      \* the commands the last response proposes
  source,    \* what that response answered: a read, a write, a req refresh or a refusal
  reworded   \* rewordings so far

agent == <<next, source>>
gvars == <<vars, moved, spent, agent, reworded>>

-----------------------------------------------------------------------------
(* Proposals. *)

Proposal ==
  [cmd: Intents \cup {"req add", "req replace", "req withdraw", "req stale", "req verify",
                      "req refresh", "delta close", "rev bump", "sync", "diff"},
   delta: Nat, req: Nat]

Propose(cmd)          == [cmd |-> cmd, delta |-> 0, req |-> NoReq]
ProposeReq(cmd, r)    == [cmd |-> cmd, delta |-> 0, req |-> r]
ProposeDelta(cmd, d)  == [cmd |-> cmd, delta |-> d, req |-> NoReq]
ProposeBoth(cmd, d, r) == [cmd |-> cmd, delta |-> d, req |-> r]

-----------------------------------------------------------------------------
(* Drift as the read surface sees it. *)

InFlight == WithStatus("open") \cup WithStatus("in-progress")

TrackedBy == IF moved THEN InFlight \ spent ELSE {}

DriftStatus == IF ~moved THEN "clean" ELSE IF TrackedBy # {} THEN "tracked" ELSE "drifted"

MatchBlocking == {r \in ActiveReqs : ~Matched(r)}

SyncCandidate == MatchBlocking = {} /\ InFlight = {}

UnbumpedClosed == WithStatus("closed") \ RecordedClosed # {}

-----------------------------------------------------------------------------
(* What a response proposes. *)

(* Mutant: a delta is started before its work is recorded. *)
Formalize_Start(d) == {ProposeDelta("delta start", d)}

(* The step that records the work a delta declares. *)
Formalize(d) ==
  LET r == Min(deltas[d].affects)
  IN CASE deltas[d].intent = "change" -> {ProposeBoth("req replace", d, r)}
       [] deltas[d].intent = "remove" -> {ProposeBoth("req withdraw", d, r)}
       [] deltas[d].intent = "repair" -> {ProposeBoth("req stale", d, r)}
       [] OTHER                       -> {ProposeDelta("req add", d)}

(* Mutant: only the evidence is looked at, not the updates still to record. *)
CloseSuggestions_Unresolved(ds) ==
  {ProposeDelta("delta close", d) :
     d \in {e \in ds \cap InFlight : BlockingForClosure(deltas, reqs, e) = {}}}

CloseSuggestions(ds) ==
  {ProposeDelta("delta close", d) :
     d \in {e \in ds \cap InFlight : DeltaClosureValid(deltas, reqs, e)}}

(* Mutant: the first unverified requirement is named, active or not, as the *)
(* refusal of "delta close" does.                                            *)
Continue_AnyLifecycle(d) ==
  LET blocking == TouchedBy(deltas, reqs, d) \ VerifiedReqs
  IN IF TracingRequirements(reqs, d) = {} THEN Formalize(d)
     ELSE IF ~UpdatesResolved(deltas, reqs, d) THEN {}
     ELSE IF blocking # {} THEN {ProposeReq("req verify", Min(blocking))}
     ELSE CloseSuggestions({d})

(* Mutant: work counts as recorded when a requirement of it is verified. *)
Continue_Proven(d) ==
  LET blocking == BlockingForClosure(deltas, reqs, d)
  IN IF TracingRequirements(reqs, d) \cap VerifiedReqs = {} THEN Formalize(d)
     ELSE IF ~UpdatesResolved(deltas, reqs, d) THEN {}
     ELSE IF blocking # {} THEN {ProposeReq("req verify", Min(blocking))}
     ELSE CloseSuggestions({d})

(* What is left to do for one delta; nothing while its updates are open but *)
(* it introduced some requirement.                                           *)
Continue(d) ==
  LET blocking == BlockingForClosure(deltas, reqs, d)
  IN IF TracingRequirements(reqs, d) = {} THEN Formalize(d)
     ELSE IF ~UpdatesResolved(deltas, reqs, d) THEN {}
     ELSE IF blocking # {} THEN {ProposeReq("req verify", Min(blocking))}
     ELSE CloseSuggestions({d})

(* The first delta something is left to do for; when no delta tracks the    *)
(* drift, every live one is looked at, the closed ones too.                  *)
Continuation ==
  LET candidates == IF TrackedBy # {} THEN TrackedBy ELSE LiveDeltas(deltas)
      unfinished == {d \in candidates : Continue(d) # {}}
  IN IF unfinished = {} THEN {} ELSE Continue(Min(unfinished))

BumpIfVerified == IF status = "verified" THEN {Propose("rev bump")} ELSE {}

TrackedNext == IF Continuation # {} THEN Continuation ELSE BumpIfVerified

RefreshOptions(r) ==
  {ProposeReq("req refresh", r), ProposeReq("change", r), ProposeReq("remove", r)}

(* Tests of superseded requirements that no active requirement shares. *)
OrphanFiles ==
  (UNION {reqs[r].files : r \in InLifecycle(reqs, "superseded")})
    \ (UNION {reqs[r].files : r \in ActiveReqs})

StaleActive == {r \in ActiveReqs : reqs[r].verification = "stale"}

RefreshNext == IF MatchBlocking = {} THEN {} ELSE {ProposeReq("req refresh", Min(MatchBlocking))}

RepairNext == IF StaleActive = {} THEN {} ELSE {ProposeReq("repair", Min(StaleActive))}

(* Mutant: the clean-up of residue replaces drift triage. *)
ContextNext_OrphansFirst ==
  IF OrphanFiles \cap repoFiles # {} THEN {}
  ELSE IF RefreshNext # {} THEN RefreshNext
  ELSE IF RepairNext # {} THEN RepairNext
  ELSE CASE DriftStatus = "tracked" -> TrackedNext
         [] DriftStatus = "drifted" ->
              {Propose("diff")} \cup (IF SyncCandidate THEN {Propose("sync")} ELSE {})
         [] OTHER -> {ProposeReq("req verify", r) :
                        r \in {a \in ActiveReqs : reqs[a].verification = "unverified"}}

(* "specctl context <charter:slug>" *)
ContextNext ==
  IF ~moved /\ OrphanFiles \cap repoFiles # {} THEN {}
  ELSE IF RefreshNext # {} THEN RefreshNext
  ELSE IF RepairNext # {} THEN RepairNext
  ELSE CASE DriftStatus = "tracked" -> TrackedNext
         [] DriftStatus = "drifted" ->
              {Propose("diff")} \cup (IF SyncCandidate THEN {Propose("sync")} ELSE {})
         [] OTHER -> {ProposeReq("req verify", r) :
                        r \in {a \in ActiveReqs : reqs[a].verification = "unverified"}}

(* "specctl diff <charter:slug>"; the agent fills in the requirement. *)
DiffOptions ==
  {Propose("add")}
    \cup (UNION {{ProposeReq("change", r), ProposeReq("remove", r), ProposeReq("repair", r),
                  ProposeReq("req refresh", r)} : r \in ActiveReqs})
    \cup (IF SyncCandidate THEN {Propose("sync")} ELSE {})

DiffNext ==
  CASE DriftStatus = "tracked" -> TrackedNext
    [] DriftStatus = "drifted" ->
         IF status = "verified" /\ InFlight = {} /\ UnbumpedClosed
         THEN {Propose("rev bump")} ELSE DiffOptions
    [] OTHER -> {}

CloseNext(d) ==
  IF deltas[d].intent # "repair" THEN BumpIfVerified
  ELSE IF status = "verified" THEN {Propose("sync")} ELSE Continuation

(* The response to an accepted write, in the state it leaves. *)
Response(s) ==
  CASE s.cmd \in Intents                     -> Formalize(Len(deltas))
    [] s.cmd \in {"req add", "req replace"}  -> {ProposeReq("req verify", Len(reqs))}
    [] s.cmd = "req stale"                   -> {ProposeReq("req verify", s.req)}
    [] s.cmd = "req withdraw"                -> CloseSuggestions({s.delta})
    [] s.cmd = "req verify"                  -> CloseSuggestions(DeltasTouching(deltas, reqs, s.req))
    [] s.cmd = "req refresh"                 -> Continuation
    [] s.cmd = "delta close"                 -> CloseNext(s.delta)
    [] OTHER -> {}

(* The response when nothing is written: the write is refused, or it only   *)
(* repeats evidence already recorded.  A delta that cannot be closed names   *)
(* its first unverified requirement, be it active or not.                    *)
NoWriteResponse(s) ==
  CASE s.cmd = "delta close" /\ s.delta \in InFlight ->
         LET touched == TouchedBy(deltas, reqs, s.delta)
         IN IF ~UpdatesResolved(deltas, reqs, s.delta) THEN {}
            ELSE IF touched \cap MatchBlocking # {}
                 THEN RefreshOptions(Min(touched \cap MatchBlocking))
            ELSE IF BlockingForClosure(deltas, reqs, s.delta) = {} THEN {}
            ELSE {ProposeReq("req verify", Min(touched \ VerifiedReqs))}
    [] s.cmd = "req verify" /\ s.req \in MatchBlocking -> RefreshOptions(s.req)
    [] s.cmd = "req verify" /\ s.req \in (ActiveReqs \cap VerifiedReqs) \ MatchBlocking ->
         CloseSuggestions(DeltasTouching(deltas, reqs, s.req))
    [] s.cmd = "rev bump" /\ status = "verified" /\ MatchBlocking # {} ->
         RefreshOptions(Min(MatchBlocking))
    [] OTHER -> {}

-----------------------------------------------------------------------------
(* The agent. *)

Registered == {reqs[r].block : r \in DOMAIN reqs}

(* A proposed write the code accepts. *)
Accept(s) ==
  \/ s.cmd \in WorkIntents /\ AddDelta(s.cmd, IF s.req = NoReq THEN {} ELSE {s.req})
  \/ s.cmd = "req add" /\ \E b \in doc \ Registered : AddRequirement(s.delta, b)
  \/ s.cmd = "req replace" /\ \E b \in doc \ Registered : ReplaceRequirement(s.delta, s.req, b)
  \/ s.cmd = "req withdraw" /\ WithdrawRequirement(s.delta, s.req)
  \/ s.cmd = "req stale" /\ StaleRequirement(s.delta, s.req)
  \/ s.cmd = "req verify" /\ VerifyRequirement(s.req, TestFiles)
  \/ s.cmd = "req refresh" /\ \E b \in doc \ Registered : RefreshRequirement(s.req, b)
  \/ s.cmd = "delta close" /\ CloseDelta(s.delta)
  \/ s.cmd = "rev bump" /\ \E c \in Commits : BumpRevision(c)
  \/ s.cmd = "sync" /\ \E c \in Commits : Sync(c)

(* The same tests as a predicate of the state: what a command looks at       *)
(* before it writes, and what its candidate must pass.                       *)
Savable(ds, rs) == Loadable /\ ValidTracking(ds, rs) /\ FilesExist(rs, secondary)

MayOpen(intent, affected) ==
  /\ affected = {} <=> intent = "add"
  /\ affected \subseteq ActiveReqs
  /\ intent = "repair" => ~RepairConflict(affected)
  /\ Savable(Append(deltas, NewDelta(intent, affected)), reqs)

MayAdd(d, block) ==
  /\ DeltaAllows(d, "add_requirement")
  /\ Savable(deltas, Append(reqs, NewRequirement(block, d)))

MayReplace(d, r, block) ==
  LET new == Len(reqs) + 1
      old == [reqs[r] EXCEPT !.lifecycle = "superseded", !.supersededBy = new]
      successor == [NewRequirement(block, d) EXCEPT !.supersedes = r]
  IN /\ r \in ActiveReqs \cap deltas[d].affects
     /\ DeltaAllows(d, "replace_requirement")
     /\ Savable(AutoRebind(d, r, new), Append([reqs EXCEPT ![r] = old], successor))

MayWithdraw(d, r) ==
  /\ r \in ActiveReqs
  /\ DeltaAllows(d, "withdraw_requirement")
  /\ Savable(deltas, [reqs EXCEPT ![r].lifecycle = "withdrawn"])

MayStale(d, r) ==
  /\ r \in ActiveReqs
  /\ DeltaAllows(d, "stale_requirement")
  /\ Savable(deltas, [reqs EXCEPT ![r].verification = "stale"])

MayVerify(r, files) ==
  LET verified == [reqs[r] EXCEPT !.verification = "verified", !.files = @ \cup files]
  IN /\ r \in ActiveReqs \ MatchBlocking
     /\ files \subseteq repoFiles
     /\ files # {} \/ IsManual(reqs[r])
     /\ verified # reqs[r]
     /\ Savable(deltas, [reqs EXCEPT ![r] = verified])

MayRefresh(r, block) ==
  /\ r \in ActiveReqs
  /\ ~RefreshConflict(r)
  /\ Savable(deltas, [reqs EXCEPT ![r].block = block])

MayClose(d) ==
  /\ d \in InFlight
  /\ DeltaClosureValid(deltas, reqs, d)
  /\ TouchedBy(deltas, reqs, d) \cap MatchBlocking = {}
  /\ Savable([deltas EXCEPT ![d].status = "closed"], reqs)

MayBump ==
  /\ status = "verified"
  /\ MatchBlocking = {}
  /\ NextEntry.closed # {} \/ NextEntry.withdrawn # {}
  /\ Savable(deltas, reqs)

Acceptable(s) ==
  \/ s.cmd \in WorkIntents /\ MayOpen(s.cmd, IF s.req = NoReq THEN {} ELSE {s.req})
  \/ s.cmd = "req add" /\ \E b \in doc \ Registered : MayAdd(s.delta, b)
  \/ s.cmd = "req replace" /\ \E b \in doc \ Registered : MayReplace(s.delta, s.req, b)
  \/ s.cmd = "req withdraw" /\ MayWithdraw(s.delta, s.req)
  \/ s.cmd = "req stale" /\ MayStale(s.delta, s.req)
  \/ s.cmd = "req verify" /\ MayVerify(s.req, TestFiles)
  \/ s.cmd = "req refresh" /\ \E b \in doc \ Registered : MayRefresh(s.req, b)
  \/ s.cmd = "delta close" /\ MayClose(s.delta)
  \/ s.cmd = "rev bump" /\ MayBump
  \/ s.cmd = "sync" /\ SyncCandidate /\ Savable(deltas, reqs)

Moves == {"rev bump", "sync"}   \* the commands that move the checkpoint to HEAD

Write(s) ==
  /\ Accept(s)
  /\ moved' = (moved /\ s.cmd \notin Moves)
  /\ spent' = IF s.cmd \in Moves THEN DOMAIN deltas ELSE spent
  /\ next' = Response(s)'
  /\ source' = IF s.cmd = "req refresh" THEN "refresh" ELSE "write"
  /\ UNCHANGED reworded

WriteNothing(s) ==
  /\ s.cmd # "diff"
  /\ ~ENABLED Accept(s)
  /\ next' = NoWriteResponse(s)
  /\ source' = "refusal"
  /\ UNCHANGED <<vars, moved, spent, reworded>>

ReadDiff(s) ==
  /\ s.cmd = "diff"
  /\ next' = DiffNext
  /\ source' = "read"
  /\ UNCHANGED <<vars, moved, spent, reworded>>

ReadContext ==
  /\ next' = ContextNext
  /\ source' = "read"
  /\ UNCHANGED <<vars, moved, spent, reworded>>

(* Which block is written does not matter, as long as it is a new one; when *)
(* Blocks has no new one left, SPEC.md is not edited any more.               *)
Unwritten == Blocks \ (doc \cup Registered)
NewBlock  == CHOOSE b \in Unwritten : TRUE

(* "write_spec_section" goes before "req add" and "req replace". *)
WriteSection ==
  /\ \E s \in next : s.cmd \in {"req add", "req replace"}
  /\ doc \subseteq Registered
  /\ Unwritten # {}   \* the bound
  /\ doc' = doc \cup {NewBlock}
  /\ moved' = TRUE
  /\ UNCHANGED <<tracking, repoFiles, spent, agent, reworded>>

RunProposed == WriteSection \/ \E s \in next : Write(s)

Follow ==
  \/ RunProposed
  \/ \E s \in next : WriteNothing(s) \/ ReadDiff(s)
  \/ next = {} /\ ReadContext

MayForget == \A d \in InFlight : deltas[d].intent \in ForgetfulIntents

NewSession == MayForget /\ ReadContext

(* The agent takes an initiative of its own: it opens a delta when none is  *)
(* in flight, or closes one before it was told to.  After a refusal it goes  *)
(* on with what the refusal proposes or with "context".                      *)
Start(intent, r) ==
  /\ InFlight = {}
  /\ Write(ProposeReq(intent, r))

TryClose(d) ==
  /\ MayForget
  /\ source # "refusal"
  /\ LET s == ProposeDelta("delta close", d) IN Write(s) \/ WriteNothing(s)

-----------------------------------------------------------------------------
(* The repository. *)

CommitCode ==
  /\ ~moved
  /\ moved' = TRUE
  /\ UNCHANGED <<vars, spent, agent, reworded>>

CommitTracking ==
  /\ ~moved
  /\ spent' = DOMAIN deltas
  /\ UNCHANGED <<vars, moved, agent, reworded>>

Reword(r) ==
  /\ reworded < MaxRewordings
  /\ Matched(r)
  /\ Unwritten # {}   \* the bound
  /\ doc' = (doc \ {reqs[r].block}) \cup {NewBlock}
  /\ moved' = TRUE
  /\ reworded' = reworded + 1
  /\ UNCHANGED <<tracking, repoFiles, spent, agent>>

GInit ==
  /\ Init
  /\ moved = FALSE
  /\ spent = {}
  /\ next = {}
  /\ source = "read"
  /\ reworded = 0

GNext ==
  \/ Follow
  \/ NewSession
  \/ \E intent \in WorkIntents, r \in ActiveReqs \cup {NoReq} : Start(intent, r)
  \/ \E d \in InFlight : TryClose(d)
  \/ CommitCode
  \/ CommitTracking
  \/ \E r \in ActiveReqs : Reword(r)

(* The agent goes on as long as something is proposed or can be asked for,  *)
(* and does not turn down for ever a proposed write that would be accepted.  *)
GSpec == GInit /\ [][GNext]_gvars /\ WF_gvars(Follow) /\ SF_gvars(RunProposed)

-----------------------------------------------------------------------------

GTypeOK ==
  /\ TypeOK
  /\ moved \in BOOLEAN
  /\ spent \subseteq DOMAIN deltas
  /\ next \subseteq Proposal
  /\ source \in {"read", "write", "refresh", "refusal"}
  /\ reworded \in 0 .. MaxRewordings

(* Properties. *)

Unresolved == {d \in InFlight : ~UpdatesResolved(deltas, reqs, d)}

(* The work still to be recorded is possible: what it affects is active,    *)
(* and no other delta is about to replace or withdraw it.                    *)
Anchored ==
  \A d \in Unresolved :
    /\ deltas[d].affects \subseteq ActiveReqs
    /\ \A e \in Unresolved \ {d} : deltas[d].affects \cap deltas[e].affects = {}

(* However often the agent forgets what it did and asks again, the work of a *)
(* delta is recorded once: no proposal repeats a "req add" or "req replace".  *)
(* The commands do not look: a second one for the same delta is accepted.     *)
WorkRecordedOnce ==
  \A r1, r2 \in DOMAIN reqs : reqs[r1].introducedBy = reqs[r2].introducedBy => r1 = r2

(* SPEC.md agrees with the requirements and holds a block for the next one. *)
SpecDocReady == MatchBlocking = {} /\ ~(doc \subseteq Registered)

NoRepairs == \A d \in DOMAIN deltas : deltas[d].intent # "repair"

(* What an accepted write proposes is accepted, whatever else is in flight: *)
(* each builder judges the step it proposes by tests of its own, which are   *)
(* not the ones of the command it names.  A req refresh answers like         *)
(* "context" and is not meant here: with nothing in flight it may continue a *)
(* closed delta.  Nor is a file that has a repair: it may be opened, and its *)
(* first step refused.                                                        *)
WriteResponsesLegal ==
  (source = "write" /\ SpecDocReady /\ NoRepairs) => \A s \in next : Acceptable(s)

(* A new session can resume tracked work on additions and changes from      *)
(* "context" at any point: each command proposed is accepted, although       *)
(* nothing but the tracking file says which steps are done.                  *)
ContextResumesWork ==
  (/\ DriftStatus = "tracked" /\ Anchored /\ SpecDocReady
   /\ \A d \in InFlight : deltas[d].intent \in {"add", "change"}) =>
    \A s \in ContextNext : Acceptable(s)

(* Acceptable is what the commands decide: a proposed one is executed in     *)
(* the states it says, and in no other is it refused.                         *)
JudgedAsAccepted == \A s \in next \cup ContextNext : Acceptable(s) <=> ENABLED Accept(s)

(* Following "next" ends: once every delta in flight tracks the drift and    *)
(* is possible, the agent reaches a new checkpoint at HEAD, however often it *)
(* forgets what it was told, picks among the options or tries to close too    *)
(* soon, unless SPEC.md is reworded or a repair is opened meanwhile.          *)
FinishTrackedWork ==
  (InFlight # {} /\ InFlight \subseteq TrackedBy /\ Anchored /\ NoRepairs)
    ~> (~moved \/ MatchBlocking # {} \/ ~NoRepairs)
=============================================================================
