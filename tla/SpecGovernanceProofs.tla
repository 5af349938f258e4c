------------------------ MODULE SpecGovernanceProofs ------------------------
(***************************************************************************)
(* SpecLifecycle implements Governance, for any blocks, files, documents,  *)
(* commits and identifier limits: every command is mapped to one step of   *)
(* the abstract specification or to a stutter.                              *)
(***************************************************************************)
EXTENDS SpecGovernance, SpecLifecycleProofs

-----------------------------------------------------------------------------
(* The mapped state. *)

StageNames == {"promised", "proven", "doubted", "retired"}
WorkNames  == {"ongoing", "parked", "done", "dropped"}

LEMMA StageMeaning ==
  ASSUME NEW req \in Requirement
  PROVE  /\ Stage(req) \in StageNames
         /\ Stage(req) = "retired" <=> ~IsActive(req)
         /\ Stage(req) = "proven" <=> IsActive(req) /\ req.verification = "verified"
         /\ Stage(req) = "doubted" <=> IsActive(req) /\ req.verification = "stale"
         /\ Stage(req) = "promised" <=> IsActive(req) /\ req.verification = "unverified"
<1>1. req.verification \in Verifications
  BY DEF Requirement
<1> QED
  BY <1>1 DEF Stage, StageNames, Verifications

LEMMA WorkMeaning ==
  ASSUME NEW delta \in Delta
  PROVE  /\ Work(delta) \in WorkNames
         /\ Work(delta) = "done" <=> delta.status = "closed"
         /\ Work(delta) = "dropped" <=> delta.status = "withdrawn"
         /\ Work(delta) = "parked" <=> delta.status = "deferred"
         /\ Work(delta) = "ongoing" <=> delta.status \in {"open", "in-progress"}
<1>1. delta.status \in DeltaStatuses
  BY DEF Delta
<1> QED
  BY <1>1 DEF Work, WorkNames, DeltaStatuses

StagesOf(rs) == [r \in DOMAIN rs |-> Stage(rs[r])]
OwnersOf(rs) == [r \in DOMAIN rs |-> rs[r].introducedBy]
WorksOf(ds)  == [d \in DOMAIN ds |-> Work(ds[d])]
AimsOf(ds)   == [d \in DOMAIN ds |-> ds[d].affects]

LEMMA MappedReqsTyped ==
  ASSUME NEW rs \in Seq(Requirement)
  PROVE  /\ StagesOf(rs) \in Seq(StageNames) /\ Len(StagesOf(rs)) = Len(rs)
         /\ OwnersOf(rs) \in Seq(Nat) /\ Len(OwnersOf(rs)) = Len(rs)
<1>1. /\ Len(rs) \in Nat /\ DOMAIN rs = 1 .. Len(rs)
      /\ \A r \in DOMAIN rs : rs[r] \in Requirement
  BY DomainOfSeq
<1>2. \A r \in DOMAIN rs : Stage(rs[r]) \in StageNames
  BY <1>1, StageMeaning
<1>3. \A r \in DOMAIN rs : rs[r].introducedBy \in Nat
  BY <1>1 DEF Requirement
<1>4. StagesOf(rs) \in [1 .. Len(rs) -> StageNames]
  BY <1>1, <1>2 DEF StagesOf
<1>5. OwnersOf(rs) \in [1 .. Len(rs) -> Nat]
  BY <1>1, <1>3 DEF OwnersOf
<1>6. StagesOf(rs) \in Seq(StageNames) /\ OwnersOf(rs) \in Seq(Nat)
  BY <1>1, <1>4, <1>5, SeqDef, SMTT(30)
<1>7. DOMAIN StagesOf(rs) = 1 .. Len(rs) /\ DOMAIN OwnersOf(rs) = 1 .. Len(rs)
  BY <1>1 DEF StagesOf, OwnersOf
<1>8. Len(StagesOf(rs)) = Len(rs)
  BY <1>1, <1>6, <1>7, LenProperties
<1>9. Len(OwnersOf(rs)) = Len(rs)
  BY <1>1, <1>6, <1>7, LenProperties
<1> QED
  BY <1>6, <1>8, <1>9

LEMMA MappedDeltasTyped ==
  ASSUME NEW ds \in Seq(Delta)
  PROVE  /\ WorksOf(ds) \in Seq(WorkNames) /\ Len(WorksOf(ds)) = Len(ds)
         /\ AimsOf(ds) \in Seq(SUBSET Nat) /\ Len(AimsOf(ds)) = Len(ds)
<1>1. /\ Len(ds) \in Nat /\ DOMAIN ds = 1 .. Len(ds)
      /\ \A d \in DOMAIN ds : ds[d] \in Delta
  BY DomainOfSeq
<1>2. \A d \in DOMAIN ds : Work(ds[d]) \in WorkNames
  BY <1>1, WorkMeaning
<1>3. \A d \in DOMAIN ds : ds[d].affects \in SUBSET Nat
  BY <1>1 DEF Delta
<1>4. WorksOf(ds) \in [1 .. Len(ds) -> WorkNames]
  BY <1>1, <1>2 DEF WorksOf
<1>5. AimsOf(ds) \in [1 .. Len(ds) -> SUBSET Nat]
  BY <1>1, <1>3 DEF AimsOf
<1>6. WorksOf(ds) \in Seq(WorkNames) /\ AimsOf(ds) \in Seq(SUBSET Nat)
  BY <1>1, <1>4, <1>5, SeqDef
<1>7. DOMAIN WorksOf(ds) = 1 .. Len(ds) /\ DOMAIN AimsOf(ds) = 1 .. Len(ds)
  BY <1>1 DEF WorksOf, AimsOf
<1>8. Len(WorksOf(ds)) = Len(ds)
  BY <1>1, <1>6, <1>7, LenProperties
<1>9. Len(AimsOf(ds)) = Len(ds)
  BY <1>1, <1>6, <1>7, LenProperties
<1> QED
  BY <1>6, <1>8, <1>9

(* A sequence that agrees with another and has one value more is that one   *)
(* with the value appended.                                                  *)
LEMMA AppendedWhen ==
  ASSUME NEW T, NEW s \in Seq(T), NEW t \in Seq(T), NEW e \in T,
         Len(t) = Len(s) + 1,
         \A i \in DOMAIN s : t[i] = s[i],
         t[Len(s) + 1] = e
  PROVE  t = Append(s, e)
<1>1. /\ Append(s, e) \in Seq(T)
      /\ Len(Append(s, e)) = Len(s) + 1
      /\ \A i \in 1 .. Len(s) : Append(s, e)[i] = s[i]
      /\ Append(s, e)[Len(s) + 1] = e
  BY AppendProperties
<1>2. Len(s) \in Nat /\ DOMAIN s = 1 .. Len(s)
  BY LenProperties
<1>3. \A i \in 1 .. Len(t) : t[i] = Append(s, e)[i]
  BY <1>1, <1>2
<1> QED
  BY <1>1, <1>3, SeqEqual

(* The maps follow an appended delta or requirement. *)
LEMMA AppendMapped ==
  /\ \A ds \in Seq(Delta), e \in Delta :
       /\ WorksOf(Append(ds, e)) = Append(WorksOf(ds), Work(e))
       /\ AimsOf(Append(ds, e)) = Append(AimsOf(ds), e.affects)
  /\ \A rs \in Seq(Requirement), e \in Requirement :
       /\ StagesOf(Append(rs, e)) = Append(StagesOf(rs), Stage(e))
       /\ OwnersOf(Append(rs, e)) = Append(OwnersOf(rs), e.introducedBy)
<1>1. ASSUME NEW ds \in Seq(Delta), NEW e \in Delta
      PROVE  /\ WorksOf(Append(ds, e)) = Append(WorksOf(ds), Work(e))
             /\ AimsOf(Append(ds, e)) = Append(AimsOf(ds), e.affects)
  <2>1. /\ Append(ds, e) \in Seq(Delta)
        /\ DOMAIN Append(ds, e) = DOMAIN ds \cup {Len(ds) + 1}
        /\ \A j \in DOMAIN ds : Append(ds, e)[j] = ds[j]
        /\ Append(ds, e)[Len(ds) + 1] = e
        /\ Len(Append(ds, e)) = Len(ds) + 1
    BY ExtendedSeq, AppendProperties
  <2>2. Work(e) \in WorkNames /\ e.affects \in SUBSET Nat
    BY WorkMeaning DEF Delta
  <2>3. /\ WorksOf(ds) \in Seq(WorkNames) /\ Len(WorksOf(ds)) = Len(ds)
        /\ AimsOf(ds) \in Seq(SUBSET Nat) /\ Len(AimsOf(ds)) = Len(ds)
    BY MappedDeltasTyped
  <2>4. /\ WorksOf(Append(ds, e)) \in Seq(WorkNames)
        /\ Len(WorksOf(Append(ds, e))) = Len(ds) + 1
        /\ AimsOf(Append(ds, e)) \in Seq(SUBSET Nat)
        /\ Len(AimsOf(Append(ds, e))) = Len(ds) + 1
    BY <2>1, MappedDeltasTyped
  <2>5. /\ \A i \in DOMAIN WorksOf(ds) : WorksOf(Append(ds, e))[i] = WorksOf(ds)[i]
        /\ WorksOf(Append(ds, e))[Len(ds) + 1] = Work(e)
    BY <2>1 DEF WorksOf
  <2>6. /\ \A i \in DOMAIN AimsOf(ds) : AimsOf(Append(ds, e))[i] = AimsOf(ds)[i]
        /\ AimsOf(Append(ds, e))[Len(ds) + 1] = e.affects
    BY <2>1 DEF AimsOf
  <2>7. WorksOf(Append(ds, e)) = Append(WorksOf(ds), Work(e))
    BY <2>2, <2>3, <2>4, <2>5, AppendedWhen
  <2>8. AimsOf(Append(ds, e)) = Append(AimsOf(ds), e.affects)
    BY <2>2, <2>3, <2>4, <2>6, AppendedWhen
  <2> QED
    BY <2>7, <2>8
<1>2. ASSUME NEW rs \in Seq(Requirement), NEW e \in Requirement
      PROVE  /\ StagesOf(Append(rs, e)) = Append(StagesOf(rs), Stage(e))
             /\ OwnersOf(Append(rs, e)) = Append(OwnersOf(rs), e.introducedBy)
  <2>1. /\ Append(rs, e) \in Seq(Requirement)
        /\ DOMAIN Append(rs, e) = DOMAIN rs \cup {Len(rs) + 1}
        /\ \A j \in DOMAIN rs : Append(rs, e)[j] = rs[j]
        /\ Append(rs, e)[Len(rs) + 1] = e
        /\ Len(Append(rs, e)) = Len(rs) + 1
    BY ExtendedSeq, AppendProperties
  <2>2. Stage(e) \in StageNames /\ e.introducedBy \in Nat
    BY StageMeaning DEF Requirement
  <2>3. /\ StagesOf(rs) \in Seq(StageNames) /\ Len(StagesOf(rs)) = Len(rs)
        /\ OwnersOf(rs) \in Seq(Nat) /\ Len(OwnersOf(rs)) = Len(rs)
    BY MappedReqsTyped
  <2>4. /\ StagesOf(Append(rs, e)) \in Seq(StageNames)
        /\ Len(StagesOf(Append(rs, e))) = Len(rs) + 1
        /\ OwnersOf(Append(rs, e)) \in Seq(Nat)
        /\ Len(OwnersOf(Append(rs, e))) = Len(rs) + 1
    BY <2>1, MappedReqsTyped
  <2>5. /\ \A i \in DOMAIN StagesOf(rs) : StagesOf(Append(rs, e))[i] = StagesOf(rs)[i]
        /\ StagesOf(Append(rs, e))[Len(rs) + 1] = Stage(e)
    BY <2>1 DEF StagesOf
  <2>6. /\ \A i \in DOMAIN OwnersOf(rs) : OwnersOf(Append(rs, e))[i] = OwnersOf(rs)[i]
        /\ OwnersOf(Append(rs, e))[Len(rs) + 1] = e.introducedBy
    BY <2>1 DEF OwnersOf
  <2>7. StagesOf(Append(rs, e)) = Append(StagesOf(rs), Stage(e))
    BY <2>2, <2>3, <2>4, <2>5, AppendedWhen, SMTT(30)
  <2>8. OwnersOf(Append(rs, e)) = Append(OwnersOf(rs), e.introducedBy)
    BY <2>2, <2>3, <2>4, <2>6, AppendedWhen, SMTT(30)
  <2> QED
    BY <2>7, <2>8
<1> QED
  BY <1>1, <1>2

(* They follow a rewritten one. *)
LEMMA UpdateMapped ==
  /\ \A ds \in Seq(Delta), e \in Delta : \A d \in DOMAIN ds :
       /\ WorksOf([ds EXCEPT ![d] = e]) = [WorksOf(ds) EXCEPT ![d] = Work(e)]
       /\ AimsOf([ds EXCEPT ![d] = e]) = [AimsOf(ds) EXCEPT ![d] = e.affects]
  /\ \A rs \in Seq(Requirement), e \in Requirement : \A r \in DOMAIN rs :
       /\ StagesOf([rs EXCEPT ![r] = e]) = [StagesOf(rs) EXCEPT ![r] = Stage(e)]
       /\ OwnersOf([rs EXCEPT ![r] = e]) = [OwnersOf(rs) EXCEPT ![r] = e.introducedBy]
<1>1. ASSUME NEW ds \in Seq(Delta), NEW e \in Delta, NEW d \in DOMAIN ds
      PROVE  /\ WorksOf([ds EXCEPT ![d] = e]) = [WorksOf(ds) EXCEPT ![d] = Work(e)]
             /\ AimsOf([ds EXCEPT ![d] = e]) = [AimsOf(ds) EXCEPT ![d] = e.affects]
  <2>1. /\ DOMAIN [ds EXCEPT ![d] = e] = DOMAIN ds
        /\ [ds EXCEPT ![d] = e][d] = e
        /\ \A j \in DOMAIN ds : j # d => [ds EXCEPT ![d] = e][j] = ds[j]
    BY UpdatedSeq
  <2> QED
    BY <2>1 DEF WorksOf, AimsOf
<1>2. ASSUME NEW rs \in Seq(Requirement), NEW e \in Requirement, NEW r \in DOMAIN rs
      PROVE  /\ StagesOf([rs EXCEPT ![r] = e]) = [StagesOf(rs) EXCEPT ![r] = Stage(e)]
             /\ OwnersOf([rs EXCEPT ![r] = e]) = [OwnersOf(rs) EXCEPT ![r] = e.introducedBy]
  <2>1. /\ DOMAIN [rs EXCEPT ![r] = e] = DOMAIN rs
        /\ [rs EXCEPT ![r] = e][r] = e
        /\ \A j \in DOMAIN rs : j # r => [rs EXCEPT ![r] = e][j] = rs[j]
    BY UpdatedSeq
  <2> QED
    BY <2>1 DEF StagesOf, OwnersOf
<1> QED
  BY <1>1, <1>2

LEMMA DeltaMapped ==
  ASSUME NEW ds \in Seq(Delta), NEW e \in Delta, NEW d \in DOMAIN ds
  PROVE  /\ WorksOf([ds EXCEPT ![d] = e]) = [WorksOf(ds) EXCEPT ![d] = Work(e)]
         /\ AimsOf([ds EXCEPT ![d] = e]) = [AimsOf(ds) EXCEPT ![d] = e.affects]
BY UpdateMapped

LEMMA RequirementMapped ==
  ASSUME NEW rs \in Seq(Requirement), NEW e \in Requirement, NEW r \in DOMAIN rs
  PROVE  /\ StagesOf([rs EXCEPT ![r] = e]) = [StagesOf(rs) EXCEPT ![r] = Stage(e)]
         /\ OwnersOf([rs EXCEPT ![r] = e]) = [OwnersOf(rs) EXCEPT ![r] = e.introducedBy]
BY UpdateMapped

LEMMA MapsAre ==
  /\ Stages = StagesOf(reqs) /\ Owners = OwnersOf(reqs)
  /\ Works = WorksOf(deltas) /\ Aims = AimsOf(deltas)
  /\ (Stages = StagesOf(reqs) /\ Owners = OwnersOf(reqs))'
  /\ (Works = WorksOf(deltas) /\ Aims = AimsOf(deltas))'
BY DEF Stages, Owners, Works, Aims, StagesOf, OwnersOf, WorksOf, AimsOf

LEMMA KeptMaps ==
  /\ UNCHANGED reqs => UNCHANGED Stages /\ UNCHANGED Owners
  /\ UNCHANGED deltas => UNCHANGED Works /\ UNCHANGED Aims
  /\ UNCHANGED changelog => UNCHANGED Published
BY DEF Stages, Owners, Works, Aims, Published, RecordedClosed, RecordedWithdrawn

(* What Governance sees of one requirement, of one delta, and of the whole. *)
LEMMA MapsApplied ==
  ASSUME TypeOK
  PROVE  /\ DOMAIN Stages = DOMAIN reqs /\ DOMAIN Owners = DOMAIN reqs
         /\ DOMAIN Works = DOMAIN deltas /\ DOMAIN Aims = DOMAIN deltas
         /\ Len(Stages) = Len(reqs)
         /\ \A r \in DOMAIN reqs : /\ reqs[r] \in Requirement
                                   /\ Stages[r] = Stage(reqs[r])
                                   /\ Owners[r] = reqs[r].introducedBy
         /\ \A d \in DOMAIN deltas : /\ deltas[d] \in Delta
                                     /\ Works[d] = Work(deltas[d])
                                     /\ Aims[d] = deltas[d].affects
<1>1. Len(Stages) = Len(reqs)
  BY MappedReqsTyped, MapsAre DEF TypeOK
<1>2. /\ \A r \in DOMAIN reqs : reqs[r] \in Requirement
      /\ \A d \in DOMAIN deltas : deltas[d] \in Delta
  BY DomainOfSeq DEF TypeOK
<1> QED
  BY <1>1, <1>2 DEF Stages, Owners, Works, Aims

LEMMA MappedSets ==
  ASSUME TypeOK
  PROVE  /\ Promised!Current = ActiveReqs
         /\ Promised!Settled = WithStatus("closed") \cup WithStatus("withdrawn")
         /\ \A d \in DOMAIN deltas :
              d \notin Promised!Settled <=> deltas[d].status \in Unsettled
<1>1. \A r \in DOMAIN reqs : Stages[r] # "retired" <=> IsActive(reqs[r])
  BY MapsApplied, StageMeaning
<1>2. \A d \in DOMAIN deltas :
        Works[d] \in {"done", "dropped"} <=> deltas[d].status \in {"closed", "withdrawn"}
  BY MapsApplied, WorkMeaning
<1>3. Promised!Current = ActiveReqs
  BY <1>1, MapsApplied DEF Promised!Current, ActiveReqs
<1>4. Promised!Settled = {d \in DOMAIN deltas : deltas[d].status \in {"closed", "withdrawn"}}
  BY <1>2, MapsApplied DEF Promised!Settled
<1>5. \A d \in DOMAIN deltas : deltas[d].status \in DeltaStatuses
  BY MapsApplied DEF Delta
<1> QED
  BY <1>3, <1>4, <1>5 DEF WithStatus, Unsettled, DeltaStatuses

LEMMA MappedTouches ==
  ASSUME TypeOK, Consistent, NEW d \in DOMAIN deltas
  PROVE  Promised!Touches(d) = TouchedBy(deltas, reqs, d)
<1>1. deltas[d].affects \subseteq DOMAIN reqs
  BY DEF Consistent, ValidTracking
<1> QED
  BY <1>1, MapsApplied DEF Promised!Touches, TouchedBy

(* A closure that the domain accepts is one that Governance calls met. *)
LEMMA ValidClosureIsMet ==
  ASSUME TypeOK, Consistent, NEW d \in DOMAIN deltas, DeltaClosureValid(deltas, reqs, d)
  PROVE  Promised!Met(d)
<1>1. deltas[d].affects \subseteq DOMAIN reqs
  BY DEF Consistent, ValidTracking
<1>2. deltas[d].affects # {} \/ TracingRequirements(reqs, d) # {}
  BY DEF DeltaClosureValid, UpdatesResolved
<1>3. TouchedBy(deltas, reqs, d) # {}
  BY <1>1, <1>2 DEF TouchedBy, TracingRequirements
<1>4. \A r \in TouchedBy(deltas, reqs, d) :
        IsActive(reqs[r]) => reqs[r].verification = "verified"
  BY DEF DeltaClosureValid, BlockingForClosure
<1>5. \A r \in TouchedBy(deltas, reqs, d) : Stages[r] \in {"proven", "retired"}
  BY <1>4, MapsApplied, StageMeaning DEF TouchedBy
<1> QED
  BY <1>3, <1>5, MappedTouches DEF Promised!Met

-----------------------------------------------------------------------------
(* Delta commands. *)

LEMMA AddDeltaOpens ==
  ASSUME TypeOK, NEW intent \in Intents, NEW affected \in SUBSET DOMAIN reqs,
         AddDelta(intent, affected)
  PROVE  Promised!Open(affected)
<1> DEFINE e == NewDelta(intent, affected)
<1>1. /\ affected \subseteq ActiveReqs
      /\ deltas' = Append(deltas, e)
      /\ reqs' = reqs /\ changelog' = changelog
  BY DEF AddDelta, SaveDeltas, Save
<1>2. e \in Delta /\ e.status = "open" /\ e.affects = affected
  BY DomainOfSeq DEF TypeOK, NewDelta, Delta, DeltaStatuses
<1> HIDE DEF e
<1>3. Works' = Append(Works, Work(e)) /\ Aims' = Append(Aims, affected)
  BY <1>1, <1>2, AppendMapped, MapsAre DEF TypeOK
<1>4. Work(e) = "ongoing"
  BY <1>2, WorkMeaning
<1> QED
  BY <1>1, <1>3, <1>4, KeptMaps, MappedSets DEF Promised!Open

(* A transition turns one piece of work and nothing else. *)
LEMMA TransitionTurns ==
  ASSUME TypeOK, NEW d \in DOMAIN deltas, NEW from, NEW to \in DeltaStatuses,
         Transition(d, from, to)
  PROVE  /\ deltas[d].status \in from
         /\ Works' = [Works EXCEPT ![d] = Work([deltas[d] EXCEPT !.status = to])]
         /\ [deltas[d] EXCEPT !.status = to] \in Delta
         /\ [deltas[d] EXCEPT !.status = to].status = to
         /\ UNCHANGED <<Stages, Owners, Aims, Published>>
<1> DEFINE e == [deltas[d] EXCEPT !.status = to]
<1>1. /\ deltas[d].status \in from
      /\ deltas' = [deltas EXCEPT ![d] = e]
      /\ reqs' = reqs /\ changelog' = changelog
  BY DEF Transition, SaveDeltas, Save
<1>2. deltas[d] \in Delta
  BY MapsApplied
<1>3. e \in Delta /\ e.status = to /\ e.affects = deltas[d].affects
  BY <1>2 DEF Delta
<1> HIDE DEF e
<1>4. /\ Works' = [Works EXCEPT ![d] = Work(e)]
      /\ Aims' = [Aims EXCEPT ![d] = deltas[d].affects]
  <2>0. deltas \in Seq(Delta) /\ e \in Delta
    BY <1>3 DEF TypeOK
  <2>1. /\ WorksOf([deltas EXCEPT ![d] = e]) = [WorksOf(deltas) EXCEPT ![d] = Work(e)]
        /\ AimsOf([deltas EXCEPT ![d] = e]) = [AimsOf(deltas) EXCEPT ![d] = e.affects]
    BY <2>0, UpdateMapped, Zenon
  <2> QED
    BY <1>1, <1>3, <2>1, MapsAre
<1>5. Aims' = Aims
  BY <1>4 DEF Aims
<1>6. UNCHANGED <<Stages, Owners, Published>>
  BY <1>1, KeptMaps
<1> QED
  BY <1>1, <1>3, <1>4, <1>5, <1>6 DEF e

(* The step of Governance that a delta command amounts to. *)
Steps(d) ==
  \/ Promised!Turn(d, {"ongoing"}, "parked")
  \/ Promised!Turn(d, {"parked"}, "ongoing")
  \/ Promised!Finish(d)
  \/ Promised!Drop(d)
  \/ \E about \in SUBSET DOMAIN Stages : Promised!Redirect(d, about)

GovKept == UNCHANGED <<Stages, Owners, Works, Aims, Published>>

LEMMA DeltaCommandGoverned ==
  ASSUME TypeOK, Consistent, NEW d \in DOMAIN deltas, DeltaCommand(d)
  PROVE  Steps(d) \/ GovKept
<1>0. /\ deltas[d] \in Delta /\ Works[d] = Work(deltas[d])
      /\ DOMAIN Works = DOMAIN deltas /\ DOMAIN Stages = DOMAIN reqs
  BY MapsApplied
<1>1. CASE StartDelta(d)
  <2>1. /\ deltas[d].status \in {"open"}
        /\ Works' = [Works EXCEPT ![d] = Work([deltas[d] EXCEPT !.status = "in-progress"])]
        /\ [deltas[d] EXCEPT !.status = "in-progress"] \in Delta
        /\ [deltas[d] EXCEPT !.status = "in-progress"].status = "in-progress"
        /\ UNCHANGED <<Stages, Owners, Aims, Published>>
    BY <1>1, TransitionTurns DEF StartDelta, DeltaStatuses
  <2>2. Works[d] = "ongoing" /\ Work([deltas[d] EXCEPT !.status = "in-progress"]) = "ongoing"
    BY <1>0, <2>1, WorkMeaning
  <2>3. Works' = Works
    BY <2>1, <2>2 DEF Works
  <2> QED
    BY <2>1, <2>3 DEF GovKept
<1>2. CASE DeferDelta(d)
  <2>1. /\ deltas[d].status \in {"open", "in-progress"}
        /\ Works' = [Works EXCEPT ![d] = Work([deltas[d] EXCEPT !.status = "deferred"])]
        /\ [deltas[d] EXCEPT !.status = "deferred"] \in Delta
        /\ [deltas[d] EXCEPT !.status = "deferred"].status = "deferred"
        /\ UNCHANGED <<Stages, Owners, Aims, Published>>
    BY <1>2, TransitionTurns DEF DeferDelta, DeltaStatuses
  <2>2. Works[d] = "ongoing" /\ Work([deltas[d] EXCEPT !.status = "deferred"]) = "parked"
    BY <1>0, <2>1, WorkMeaning
  <2> QED
    BY <2>1, <2>2 DEF Steps, Promised!Turn
<1>3. CASE ResumeDelta(d)
  <2>1. /\ deltas[d].status \in {"deferred"}
        /\ Works' = [Works EXCEPT ![d] = Work([deltas[d] EXCEPT !.status = "open"])]
        /\ [deltas[d] EXCEPT !.status = "open"] \in Delta
        /\ [deltas[d] EXCEPT !.status = "open"].status = "open"
        /\ UNCHANGED <<Stages, Owners, Aims, Published>>
    BY <1>3, TransitionTurns DEF ResumeDelta, DeltaStatuses
  <2>2. Works[d] = "parked" /\ Work([deltas[d] EXCEPT !.status = "open"]) = "ongoing"
    BY <1>0, <2>1, WorkMeaning
  <2> QED
    BY <2>1, <2>2 DEF Steps, Promised!Turn
<1>4. CASE CloseDelta(d)
  <2>1. /\ deltas[d].status \in {"open", "in-progress"}
        /\ Works' = [Works EXCEPT ![d] = Work([deltas[d] EXCEPT !.status = "closed"])]
        /\ [deltas[d] EXCEPT !.status = "closed"] \in Delta
        /\ [deltas[d] EXCEPT !.status = "closed"].status = "closed"
        /\ UNCHANGED <<Stages, Owners, Aims, Published>>
    BY <1>4, TransitionTurns DEF CloseDelta, DeltaStatuses
  <2>2. Works[d] = "ongoing" /\ Work([deltas[d] EXCEPT !.status = "closed"]) = "done"
    BY <1>0, <2>1, WorkMeaning
  <2>3. DeltaClosureValid(deltas, reqs, d)
    BY <1>4 DEF CloseDelta, DeltaClosureValid
  <2>4. Promised!Met(d)
    BY <2>3, ValidClosureIsMet
  <2> QED
    BY <2>1, <2>2, <2>4 DEF Steps, Promised!Finish, Promised!Turn
<1>5. CASE WithdrawDelta(d)
  <2>1. /\ deltas[d].status \in Unsettled
        /\ Works' = [Works EXCEPT ![d] = Work([deltas[d] EXCEPT !.status = "withdrawn"])]
        /\ [deltas[d] EXCEPT !.status = "withdrawn"] \in Delta
        /\ [deltas[d] EXCEPT !.status = "withdrawn"].status = "withdrawn"
        /\ UNCHANGED <<Stages, Owners, Aims, Published>>
    BY <1>5, TransitionTurns DEF WithdrawDelta, DeltaStatuses
  <2>2. /\ Works[d] \in {"ongoing", "parked"}
        /\ Work([deltas[d] EXCEPT !.status = "withdrawn"]) = "dropped"
    BY <1>0, <2>1, WorkMeaning DEF Unsettled
  <2>3. \A r \in ActiveReqs : reqs[r].introducedBy # d
    BY <1>5 DEF WithdrawDelta, TracingRequirements, ActiveReqs
  <2>4. \A r \in Promised!Current : Owners[r] # d
    BY <2>3, MappedSets, MapsApplied DEF ActiveReqs
  <2> QED
    BY <2>1, <2>2, <2>4 DEF Steps, Promised!Drop, Promised!Turn
<1>6. ASSUME NEW r \in DOMAIN reqs, NEW to \in SUBSET DOMAIN reqs, RebindDelta(d, r, to)
      PROVE  Steps(d)
  <2> DEFINE about == (deltas[d].affects \ {r}) \cup to
             e == [deltas[d] EXCEPT !.affects = about]
  <2>1. /\ deltas[d].status \in Unsettled
        /\ deltas' = [deltas EXCEPT ![d] = e]
        /\ reqs' = reqs /\ changelog' = changelog
    BY <1>6 DEF RebindDelta, SaveDeltas, Save
  <2>2. deltas[d].affects \subseteq DOMAIN reqs
    BY DEF Consistent, ValidTracking
  <2>3. about \subseteq DOMAIN reqs /\ about \subseteq Nat
    BY <2>2, DomainOfSeq DEF TypeOK
  <2>4. e \in Delta /\ e.affects = about /\ e.status = deltas[d].status
    BY <1>0, <2>3 DEF Delta
  <2> HIDE DEF e, about
  <2>5. Works' = [Works EXCEPT ![d] = Work(e)] /\ Aims' = [Aims EXCEPT ![d] = about]
    <3>1. deltas \in Seq(Delta) /\ e \in Delta
      BY <2>4 DEF TypeOK
    <3>2. /\ WorksOf([deltas EXCEPT ![d] = e]) = [WorksOf(deltas) EXCEPT ![d] = Work(e)]
          /\ AimsOf([deltas EXCEPT ![d] = e]) = [AimsOf(deltas) EXCEPT ![d] = e.affects]
      BY <3>1, DeltaMapped
    <3>3. /\ Works = WorksOf(deltas) /\ Aims = AimsOf(deltas)
          /\ Works' = WorksOf(deltas') /\ Aims' = AimsOf(deltas')
      BY MapsAre
    <3> QED
      BY <2>1, <2>4, <3>2, <3>3
  <2>6. Work(e) = Works[d]
    BY <1>0, <2>4 DEF Work
  <2>7. Works' = Works
    BY <2>5, <2>6 DEF Works
  <2>8. UNCHANGED <<Stages, Owners, Published>>
    BY <2>1, KeptMaps
  <2>9. d \notin Promised!Settled
    BY <2>1, MappedSets
  <2>10. Promised!Redirect(d, about)
    BY <1>0, <2>3, <2>5, <2>7, <2>8, <2>9 DEF Promised!Redirect
  <2> QED
    BY <1>0, <2>3, <2>10 DEF Steps
<1> QED
  BY <1>1, <1>2, <1>3, <1>4, <1>5, <1>6 DEF DeltaCommand

-----------------------------------------------------------------------------
(* Requirement commands.  None of them looks at the status of a delta; it is *)
(* the validation of the candidate file that keeps them off finished work.    *)

(* A file with an unproven requirement of a closed delta is not valid. *)
LEMMA ClosedIsProven ==
  ASSUME NEW ds, NEW rs, ValidTracking(ds, rs),
         NEW d \in DOMAIN ds, NEW r \in TouchedBy(ds, rs, d),
         IsActive(rs[r]), rs[r].verification # "verified"
  PROVE  ds[d].status # "closed"
BY DEF ValidTracking, DeltaClosureValid, BlockingForClosure

LEMMA AddRequirementPromises ==
  ASSUME TypeOK, NEW d \in DOMAIN deltas, NEW b \in Blocks, AddRequirement(d, b)
  PROVE  Promised!Promise(d)
<1> DEFINE e == NewRequirement(b, d)
           n == Len(reqs) + 1
<1>1. /\ reqs' = Append(reqs, e)
      /\ deltas' = deltas /\ changelog' = changelog
      /\ ValidTracking(deltas', reqs')
  BY DEF AddRequirement, SaveRequirements, Save
<1>2. /\ e \in Requirement /\ e.introducedBy = d
      /\ IsActive(e) /\ e.verification = "unverified"
  BY DomainOfSeq
     DEF TypeOK, NewRequirement, IsActive, Requirement, Lifecycles, Verifications, NoReq
<1> HIDE DEF e
<1>3. n \in DOMAIN reqs' /\ reqs'[n] = e
  BY <1>1, <1>2, ExtendedSeq DEF TypeOK
<1> HIDE DEF n
<1>4. n \in TouchedBy(deltas', reqs', d)
  BY <1>2, <1>3 DEF TouchedBy
<1>5. deltas[d].status # "closed"
  BY <1>1, <1>2, <1>3, <1>4, ClosedIsProven
<1>6. Works[d] # "done"
  BY <1>5, MapsApplied, WorkMeaning
<1>7. Stages' = Append(Stages, Stage(e)) /\ Owners' = Append(Owners, d)
  BY <1>1, <1>2, AppendMapped, MapsAre DEF TypeOK
<1>8. Stage(e) = "promised"
  BY <1>2, StageMeaning
<1> QED
  BY <1>1, <1>6, <1>7, <1>8, KeptMaps DEF Promised!Promise

(* Rewriting one requirement moves its stage and nothing else. *)
LEMMA RequirementRewritten ==
  ASSUME TypeOK, NEW r \in DOMAIN reqs, NEW e \in Requirement,
         e.introducedBy = reqs[r].introducedBy,
         SaveRequirements(deltas, [reqs EXCEPT ![r] = e])
  PROVE  /\ Stages' = [Stages EXCEPT ![r] = Stage(e)]
         /\ UNCHANGED <<Owners, Works, Aims, Published>>
         /\ DOMAIN reqs' = DOMAIN reqs /\ reqs'[r] = e
         /\ ValidTracking(deltas, reqs')
<1>1. /\ reqs' = [reqs EXCEPT ![r] = e]
      /\ deltas' = deltas /\ changelog' = changelog
      /\ ValidTracking(deltas, reqs')
  BY DEF SaveRequirements, Save
<1>2. DOMAIN reqs' = DOMAIN reqs /\ reqs'[r] = e
  BY <1>1, UpdatedSeq DEF TypeOK
<1>3. reqs \in Seq(Requirement)
  BY DEF TypeOK
<1>4. /\ StagesOf([reqs EXCEPT ![r] = e]) = [StagesOf(reqs) EXCEPT ![r] = Stage(e)]
      /\ OwnersOf([reqs EXCEPT ![r] = e]) = [OwnersOf(reqs) EXCEPT ![r] = e.introducedBy]
  BY <1>3, RequirementMapped
<1>5. /\ Stages' = [Stages EXCEPT ![r] = Stage(e)]
      /\ Owners' = [Owners EXCEPT ![r] = reqs[r].introducedBy]
  BY <1>1, <1>4, MapsAre
<1>6. Owners' = Owners
  BY <1>5 DEF Owners
<1> QED
  BY <1>1, <1>2, <1>5, <1>6, KeptMaps

(* What Governance requires of a replacement. *)
LEMMA ReplaceSupersedes ==
  ASSUME TypeOK, NEW d \in DOMAIN deltas, NEW r \in DOMAIN reqs, NEW b \in Blocks,
         ReplaceRequirement(d, r, b)
  PROVE  Promised!Supersede(d, r)
<1> DEFINE new == Len(reqs) + 1
           old == Superseded(r)
           mid == [reqs EXCEPT ![r] = old]
           successor == Successor(r, b, d)
<1>1. /\ r \in ActiveReqs
      /\ deltas' = AutoRebind(d, r, new)
      /\ reqs' = Append(mid, successor)
      /\ changelog' = changelog
      /\ ValidTracking(deltas', reqs')
  BY DEF ReplaceRequirement, SaveRequirements, Save, Superseded, Successor
<1>2. /\ reqs[r] \in Requirement /\ Stages[r] = Stage(reqs[r])
      /\ Works[d] = Work(deltas[d]) /\ deltas[d] \in Delta
      /\ DOMAIN Stages = DOMAIN reqs /\ Len(Stages) = Len(reqs)
      /\ DOMAIN Aims = DOMAIN deltas /\ DOMAIN Works = DOMAIN deltas
  BY MapsApplied
<1>3. /\ old \in Requirement /\ successor \in Requirement
      /\ mid \in Seq(Requirement) /\ new \in Nat
  BY ReplacementTyped
<1>4. /\ ~IsActive(old) /\ old.verification = reqs[r].verification
      /\ old.introducedBy = reqs[r].introducedBy
  BY <1>2 DEF Superseded, IsActive, Requirement
<1>5. /\ IsActive(successor) /\ successor.verification = "unverified"
      /\ successor.introducedBy = d
  BY DEF Successor, NewRequirement, IsActive
<1>6. /\ DOMAIN reqs' = DOMAIN reqs \cup {new}
      /\ reqs'[r] = old /\ reqs'[new] = successor
  BY <1>1, ReplacedSeq
<1>7. DOMAIN deltas' = DOMAIN deltas /\ \A i \in DOMAIN deltas : deltas'[i].status = deltas[i].status
  <2>1. DOMAIN deltas' = DOMAIN deltas
    BY <1>1, <1>3, AutoRebindTyped
  <2>2. \A i \in DOMAIN deltas : deltas[i] \in Delta
    BY MapsApplied
  <2> QED
    BY <1>1, <2>1, <2>2 DEF AutoRebind, Delta
<1> HIDE DEF new, old, mid, successor
(* The delta is not closed: its new requirement is unproven. *)
<1>8. Works[d] # "done"
  <2>1. new \in TouchedBy(deltas', reqs', d)
    BY <1>5, <1>6 DEF TouchedBy
  <2>2. IsActive(reqs'[new]) /\ reqs'[new].verification # "verified"
    BY <1>5, <1>6
  <2>3. deltas'[d].status # "closed"
    BY <1>1, <1>6, <1>7, <2>1, <2>2, ClosedIsProven
  <2> QED
    BY <1>2, <1>7, <2>3, WorkMeaning
(* The requirement is not stale: a superseded one cannot be. *)
<1>9. Stages[r] \in {"promised", "proven"}
  <2>1. ValidRequirement(deltas', old)
    BY <1>1, <1>6 DEF ValidTracking
  <2>2. reqs[r].verification # "stale" /\ IsActive(reqs[r])
    BY <1>1, <1>4, <2>1 DEF ValidRequirement, ActiveReqs
  <2>3. reqs[r].verification \in Verifications
    BY <1>2 DEF Requirement
  <2> QED
    BY <1>2, <2>2, <2>3, StageMeaning DEF Verifications
<1>10. /\ Stages' = Append([Stages EXCEPT ![r] = "retired"], "promised")
       /\ Owners' = Append(Owners, d)
  <2>1. reqs \in Seq(Requirement)
    BY DEF TypeOK
  <2>0. /\ StagesOf([reqs EXCEPT ![r] = old]) = [StagesOf(reqs) EXCEPT ![r] = Stage(old)]
        /\ OwnersOf([reqs EXCEPT ![r] = old]) = [OwnersOf(reqs) EXCEPT ![r] = old.introducedBy]
    BY <1>3, <2>1, RequirementMapped
  <2>2. StagesOf(mid) = [Stages EXCEPT ![r] = Stage(old)]
    <3>1. Stages = StagesOf(reqs)
      BY MapsAre
    <3> QED
      BY <2>0, <3>1 DEF mid
  <2>3. OwnersOf(mid) = [Owners EXCEPT ![r] = old.introducedBy]
    <3>1. Owners = OwnersOf(reqs)
      BY MapsAre
    <3> QED
      BY <2>0, <3>1 DEF mid
  <2>4. OwnersOf(mid) = Owners
    BY <1>4, <2>3 DEF Owners
  <2>5. Stage(old) = "retired" /\ Stage(successor) = "promised"
    BY <1>3, <1>4, <1>5, StageMeaning
  <2>6. /\ StagesOf(reqs') = Append(StagesOf(mid), Stage(successor))
        /\ OwnersOf(reqs') = Append(OwnersOf(mid), successor.introducedBy)
    BY <1>1, <1>3, AppendMapped
  <2> QED
    BY <1>5, <2>2, <2>4, <2>5, <2>6, MapsAre
<1>11. Works' = Works
  BY <1>7 DEF Works, Work
<1>12. Aims' = [e \in DOMAIN Aims |->
                  IF e # d /\ e \notin Promised!Settled /\ r \in Aims[e]
                  THEN (Aims[e] \ {r}) \cup {new} ELSE Aims[e]]
  <2> DEFINE moved(e) == e # d /\ deltas[e].status \in Unsettled /\ r \in deltas[e].affects
  <2>1. \A e \in DOMAIN deltas : deltas[e] \in Delta /\ Aims[e] = deltas[e].affects
    BY MapsApplied
  <2>2. \A e \in DOMAIN deltas :
          moved(e) <=> e # d /\ e \notin Promised!Settled /\ r \in Aims[e]
    BY <2>1, MappedSets
  <2>3. \A e \in DOMAIN deltas :
          deltas'[e].affects = IF moved(e) THEN (deltas[e].affects \ {r}) \cup {new}
                               ELSE deltas[e].affects
    BY <1>1, <2>1 DEF AutoRebind, Delta
  <2>4. \A e \in DOMAIN deltas :
          deltas'[e].affects = IF e # d /\ e \notin Promised!Settled /\ r \in Aims[e]
                               THEN (Aims[e] \ {r}) \cup {new} ELSE Aims[e]
    BY <2>1, <2>2, <2>3
  <2>5. Aims' = [e \in DOMAIN Aims |-> deltas'[e].affects]
    BY <1>2, <1>7 DEF Aims
  <2> QED
    BY <1>2, <2>4, <2>5
<1>13. UNCHANGED Published
  BY <1>1, KeptMaps
<1>14. new = Len(Stages) + 1
  BY <1>2 DEF new
<1> QED
  BY <1>8, <1>9, <1>10, <1>11, <1>12, <1>13, <1>14 DEF Promised!Supersede

(* The step of Governance that a requirement command amounts to. *)
StepsOfRequirement(r) ==
  \/ Promised!Prove(r) \/ Promised!Retire(r) \/ Promised!Doubt(r)
  \/ \E d \in DOMAIN Works : Promised!Supersede(d, r)

LEMMA RequirementCommandGoverned ==
  ASSUME TypeOK, Consistent, NEW r \in DOMAIN reqs, RequirementCommand(r)
  PROVE  StepsOfRequirement(r) \/ GovKept
<1>0. /\ reqs[r] \in Requirement /\ Stages[r] = Stage(reqs[r])
      /\ DOMAIN Works = DOMAIN deltas /\ DOMAIN Stages = DOMAIN reqs
      /\ reqs[r].verification \in Verifications
  BY MapsApplied DEF Requirement
<1>1. ASSUME NEW d \in DOMAIN deltas, WithdrawRequirement(d, r)
      PROVE  Promised!Retire(r)
  <2> DEFINE e == [reqs[r] EXCEPT !.lifecycle = "withdrawn"]
  <2>1. IsActive(reqs[r]) /\ SaveRequirements(deltas, [reqs EXCEPT ![r] = e])
    BY <1>1 DEF WithdrawRequirement, ActiveReqs
  <2>2. /\ e \in Requirement /\ e.introducedBy = reqs[r].introducedBy
        /\ ~IsActive(e) /\ e.verification = reqs[r].verification
    BY <1>0 DEF Requirement, Lifecycles, IsActive
  <2> HIDE DEF e
  <2>3. /\ Stages' = [Stages EXCEPT ![r] = Stage(e)]
        /\ UNCHANGED <<Owners, Works, Aims, Published>>
        /\ DOMAIN reqs' = DOMAIN reqs /\ reqs'[r] = e
        /\ ValidTracking(deltas, reqs')
    BY <2>1, <2>2, RequirementRewritten
  <2>4. ValidRequirement(deltas, e)
    BY <2>3 DEF ValidTracking
  <2>5. reqs[r].verification # "stale"
    BY <2>2, <2>4 DEF ValidRequirement
  <2>6. Stages[r] \in {"promised", "proven"} /\ Stage(e) = "retired"
    BY <1>0, <2>1, <2>2, <2>5, StageMeaning DEF Verifications
  <2> QED
    BY <2>3, <2>6 DEF Promised!Retire, Promised!Become
<1>2. ASSUME NEW d \in DOMAIN deltas, StaleRequirement(d, r)
      PROVE  Promised!Doubt(r) \/ GovKept
  <2> DEFINE e == [reqs[r] EXCEPT !.verification = "stale"]
  <2>1. IsActive(reqs[r]) /\ SaveRequirements(deltas, [reqs EXCEPT ![r] = e])
    BY <1>2 DEF StaleRequirement, ActiveReqs
  <2>2. /\ e \in Requirement /\ e.introducedBy = reqs[r].introducedBy
        /\ IsActive(e) /\ e.verification = "stale"
    BY <1>0, <2>1 DEF Requirement, Verifications, IsActive
  <2> HIDE DEF e
  <2>3. /\ Stages' = [Stages EXCEPT ![r] = Stage(e)]
        /\ UNCHANGED <<Owners, Works, Aims, Published>>
        /\ DOMAIN reqs' = DOMAIN reqs /\ reqs'[r] = e
        /\ ValidTracking(deltas, reqs')
    BY <2>1, <2>2, RequirementRewritten
  <2>4. Stage(e) = "doubted"
    BY <2>2, StageMeaning
  <2>5. CASE Stages[r] = "doubted"
    BY <2>3, <2>4, <2>5 DEF GovKept, Stages
  <2>6. CASE Stages[r] # "doubted"
    <3>1. Stages[r] \in {"promised", "proven"}
      BY <1>0, <2>1, <2>6, StageMeaning DEF Verifications
    <3>2. ASSUME NEW c \in DOMAIN deltas, r \in Promised!Touches(c)
          PROVE  Works[c] # "done"
      <4>1. r \in TouchedBy(deltas, reqs, c)
        BY <3>2, MappedTouches
      <4>2. r \in TouchedBy(deltas, reqs', c)
        BY <2>2, <2>3, <4>1 DEF TouchedBy
      <4>3. IsActive(reqs'[r]) /\ reqs'[r].verification # "verified"
        BY <2>2, <2>3
      <4>4. deltas[c].status # "closed"
        BY <2>3, <4>2, <4>3, ClosedIsProven
      <4> QED
        BY <4>4, MapsApplied, WorkMeaning
    <3> QED
      BY <1>0, <2>3, <2>4, <3>1, <3>2 DEF Promised!Doubt, Promised!Become
  <2> QED
    BY <2>5, <2>6
<1>3. ASSUME NEW b \in Blocks, RefreshRequirement(r, b)
      PROVE  GovKept
  <2> DEFINE e == [reqs[r] EXCEPT !.block = b]
  <2>1. SaveRequirements(deltas, [reqs EXCEPT ![r] = e])
    BY <1>3 DEF RefreshRequirement
  <2>2. /\ e \in Requirement /\ e.introducedBy = reqs[r].introducedBy
        /\ e.lifecycle = reqs[r].lifecycle /\ e.verification = reqs[r].verification
    BY <1>0 DEF Requirement
  <2> HIDE DEF e
  <2>3. /\ Stages' = [Stages EXCEPT ![r] = Stage(e)]
        /\ UNCHANGED <<Owners, Works, Aims, Published>>
    BY <2>1, <2>2, RequirementRewritten
  <2>4. Stage(e) = Stages[r]
    BY <1>0, <2>2 DEF Stage, IsActive
  <2> QED
    BY <2>3, <2>4 DEF GovKept, Stages
<1>4. ASSUME NEW files \in SUBSET TestFiles, VerifyRequirement(r, files)
      PROVE  Promised!Prove(r) \/ GovKept
  <2> DEFINE e == [reqs[r] EXCEPT !.verification = "verified", !.files = reqs[r].files \cup files]
  <2>1. IsActive(reqs[r]) /\ SaveRequirements(deltas, [reqs EXCEPT ![r] = e])
    BY <1>4 DEF VerifyRequirement, ActiveReqs
  <2>2. /\ e \in Requirement /\ e.introducedBy = reqs[r].introducedBy
        /\ IsActive(e) /\ e.verification = "verified"
    BY <1>0, <2>1 DEF Requirement, Verifications, IsActive
  <2> HIDE DEF e
  <2>3. /\ Stages' = [Stages EXCEPT ![r] = Stage(e)]
        /\ UNCHANGED <<Owners, Works, Aims, Published>>
    BY <2>1, <2>2, RequirementRewritten
  <2>4. Stage(e) = "proven"
    BY <2>2, StageMeaning
  <2>5. CASE Stages[r] = "proven"
    BY <2>3, <2>4, <2>5 DEF GovKept, Stages
  <2>6. CASE Stages[r] # "proven"
    <3>1. Stages[r] \in {"promised", "doubted"}
      BY <1>0, <2>1, <2>6, StageMeaning DEF Verifications
    <3> QED
      BY <2>3, <2>4, <3>1 DEF Promised!Prove, Promised!Become
  <2> QED
    BY <2>5, <2>6
<1>5. ASSUME NEW d \in DOMAIN deltas, NEW b \in Blocks, ReplaceRequirement(d, r, b)
      PROVE  Promised!Supersede(d, r)
  BY <1>5, ReplaceSupersedes
<1> QED
  BY <1>0, <1>1, <1>2, <1>3, <1>4, <1>5 DEF RequirementCommand, StepsOfRequirement

-----------------------------------------------------------------------------
(* Revisions, and the whole. *)

(* "rev bump" looks at the stored status only; that nothing is in flight,    *)
(* that something is done and that all of it is met follows from Consistent.  *)
LEMMA BumpPublishes ==
  ASSUME TypeOK, Consistent, ChangelogExact, NEW c \in Commits, BumpRevision(c)
  PROVE  Promised!Publish
<1>1. /\ status = "verified" /\ StoredStatusCurrent
      /\ NextEntry.closed # {} \/ NextEntry.withdrawn # {}
      /\ deltas' = deltas /\ reqs' = reqs
      /\ changelog' = Append(changelog, NextEntry)
  BY DEF BumpRevision, Save, Loadable
<1>2. ComputedStatus(deltas, reqs) = "verified"
  BY <1>1 DEF StoredStatusCurrent
<1>3. LiveDeltas(deltas) # {} /\ \A d \in LiveDeltas(deltas) : deltas[d].status = "closed"
  BY <1>2 DEF ComputedStatus
<1>4. DOMAIN Works = DOMAIN deltas /\ \A d \in DOMAIN deltas :
        /\ Works[d] = "ongoing" <=> deltas[d].status \in {"open", "in-progress"}
        /\ Works[d] = "done" <=> deltas[d].status = "closed"
  BY MapsApplied, WorkMeaning
<1>5. \A d \in DOMAIN Works : Works[d] # "ongoing"
  BY <1>1, <1>4, VerifiedHasNoLiveWork
<1>6. \E d \in DOMAIN Works : Works[d] = "done"
  BY <1>3, <1>4 DEF LiveDeltas
<1>7. \A d \in DOMAIN Works : Works[d] = "done" => Promised!Met(d)
  BY <1>4, ValidClosureIsMet DEF Consistent, ValidTracking
<1>8. /\ RecordedClosed \subseteq WithStatus("closed")
      /\ RecordedWithdrawn \subseteq WithStatus("withdrawn")
      /\ WithStatus("closed") \cap WithStatus("withdrawn") = {}
  BY DEF ChangelogExact, WithStatus
<1>9. /\ NextEntry.closed = WithStatus("closed") \ RecordedClosed
      /\ NextEntry.withdrawn = WithStatus("withdrawn") \ RecordedWithdrawn
  BY DEF NextEntry
<1>10. /\ DOMAIN changelog' = DOMAIN changelog \cup {Len(changelog) + 1}
       /\ \A i \in DOMAIN changelog : changelog'[i] = changelog[i]
       /\ changelog'[Len(changelog) + 1] = NextEntry
       /\ Len(changelog) + 1 \notin DOMAIN changelog
  BY <1>1, BumpRecords
<1>11. /\ RecordedClosed' = RecordedClosed \cup NextEntry.closed
       /\ RecordedWithdrawn' = RecordedWithdrawn \cup NextEntry.withdrawn
  BY <1>10 DEF RecordedClosed, RecordedWithdrawn
<1>12. Published' = WithStatus("closed") \cup WithStatus("withdrawn")
  BY <1>8, <1>9, <1>11 DEF Published
<1>13. WithStatus("closed") \cup WithStatus("withdrawn") # Published
  BY <1>1, <1>8, <1>9 DEF Published
<1>14. UNCHANGED <<Stages, Owners, Works, Aims>>
  BY <1>1, KeptMaps
<1> QED
  BY <1>5, <1>6, <1>7, <1>12, <1>13, <1>14, MappedSets DEF Promised!Publish

LEMMA InitGoverned == Init => Promised!Init
<1> SUFFICES ASSUME Init PROVE Promised!Init
  OBVIOUS
<1>1. deltas = << >> /\ reqs = << >> /\ changelog = << >>
  BY DEF Init
<1>2. /\ Len(StagesOf(<< >>)) = 0 /\ StagesOf(<< >>) \in Seq(StageNames)
      /\ Len(OwnersOf(<< >>)) = 0 /\ OwnersOf(<< >>) \in Seq(Nat)
      /\ Len(WorksOf(<< >>)) = 0 /\ WorksOf(<< >>) \in Seq(WorkNames)
      /\ Len(AimsOf(<< >>)) = 0 /\ AimsOf(<< >>) \in Seq(SUBSET Nat)
  BY MappedReqsTyped, MappedDeltasTyped, EmptySeq
<1>3. /\ StagesOf(<< >>) = << >> /\ OwnersOf(<< >>) = << >>
      /\ WorksOf(<< >>) = << >> /\ AimsOf(<< >>) = << >>
  BY <1>2, EmptySeq
<1>4. Published = {}
  BY <1>1 DEF Published, RecordedClosed, RecordedWithdrawn
<1> QED
  BY <1>1, <1>3, <1>4, MapsAre DEF Promised!Init

LEMMA StepGoverned ==
  ASSUME TypeOK, Consistent, ChangelogExact, [Next]_vars
  PROVE  [Promised!Next]_(Promised!gov)
<1>0. DOMAIN Works = DOMAIN deltas /\ DOMAIN Stages = DOMAIN reqs
  BY MapsApplied
<1>1. ASSUME NEW intent \in Intents, NEW affected \in SUBSET DOMAIN reqs,
             AddDelta(intent, affected)
      PROVE  Promised!Next
  BY <1>0, <1>1, AddDeltaOpens DEF Promised!Next
<1>2. ASSUME NEW d \in DOMAIN deltas, DeltaCommand(d)
      PROVE  Promised!Next \/ GovKept
  BY <1>0, <1>2, DeltaCommandGoverned DEF Promised!Next, Steps
<1>3. ASSUME NEW d \in DOMAIN deltas, NEW b \in Blocks, AddRequirement(d, b)
      PROVE  Promised!Next
  BY <1>0, <1>3, AddRequirementPromises DEF Promised!Next
<1>4. ASSUME NEW r \in DOMAIN reqs, RequirementCommand(r)
      PROVE  Promised!Next \/ GovKept
  BY <1>0, <1>4, RequirementCommandGoverned DEF Promised!Next, StepsOfRequirement
<1>5. ASSUME NEW c \in Commits, BumpRevision(c)
      PROVE  Promised!Next
  BY <1>5, BumpPublishes DEF Promised!Next
<1>6. UNCHANGED <<deltas, reqs, changelog>> => GovKept
  BY KeptMaps DEF GovKept
<1>7. ASSUME NEW p, \/ Sync(p) \/ DocAdd(p) \/ DocRemove(p)
                    \/ EditSpecDoc(p) \/ EditRepoFile(p)
      PROVE  UNCHANGED <<deltas, reqs, changelog>>
  BY <1>7 DEF Sync, Save, DocAdd, DocRemove, SaveDocuments, EditSpecDoc, EditRepoFile, tracking
<1>8. UNCHANGED vars => UNCHANGED <<deltas, reqs, changelog>>
  BY DEF vars, tracking
<1>9. Promised!Next \/ GovKept
  BY <1>1, <1>2, <1>3, <1>4, <1>5, <1>6, <1>7, <1>8 DEF Next
<1> QED
  BY <1>9 DEF GovKept, Promised!gov

(* ImplementsGovernance for every project: the commands of specctl, of which *)
(* none checks whether the delta it acts for is closed, keep the promises     *)
(* that finished work stays proven, that only proven work is finished, and    *)
(* that a revision is published when nothing is in flight.                    *)
THEOREM GovernanceImplemented == Spec => ImplementsGovernance
<1>1. Init => Promised!Init
  BY InitGoverned
<1>2. TypeOK /\ Consistent /\ ChangelogExact /\ [Next]_vars => [Promised!Next]_(Promised!gov)
  BY StepGoverned
<1> QED
  BY <1>1, <1>2, TypeCorrect, AlwaysConsistent, ChangelogStaysExact, PTL
     DEF Spec, ImplementsGovernance, Promised!Spec
=============================================================================
