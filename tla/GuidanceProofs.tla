--------------------------- MODULE GuidanceProofs ---------------------------
(***************************************************************************)
(* Theorems about Guidance, for any blocks, files, intents and bounds: what *)
(* an agent that follows the proposals of specctl does to a specification,   *)
(* and that what it is told to do is accepted.  That the work ends is a       *)
(* matter of fairness, and that Acceptable is what the commands decide one of *)
(* ENABLED: both are left to the model checker.                               *)
(***************************************************************************)
EXTENDS Guidance, SpecGovernanceProofs, FiniteSetTheorems, WellFoundedInduction

LEMMA MinMember ==
  ASSUME NEW S \in SUBSET Nat, S # {}
  PROVE  Min(S) \in S
<1>1. \E x \in S : \A y \in S : ~ (<<y, x>> \in OpToRel(<, Nat))
  BY NatLessThanWellFounded, WFMin
<1>2. PICK x \in S : \A y \in S : ~ (y < x)
  BY <1>1 DEF OpToRel
<1>3. \E x1 \in S : \A y \in S : x1 <= y
  BY <1>2
<1> QED
  BY <1>3 DEF Min

-----------------------------------------------------------------------------
(* Proposals name what exists. *)

OnDelta       == {"req add", "req replace", "req withdraw", "req stale", "delta close"}
OnRequirement == {"req replace", "req withdraw", "req stale", "req verify", "req refresh"}

Named(s) ==
  /\ s \in Proposal
  /\ s.cmd \in OnDelta => s.delta \in DOMAIN deltas
  /\ s.cmd \in OnRequirement => s.req \in DOMAIN reqs
  /\ s.req \in {NoReq} \cup DOMAIN reqs

(* No delta of the agent loses what it is about. *)
Aimed == \A d \in DOMAIN deltas : deltas[d].intent # "add" => deltas[d].affects # {}

Grounded == TypeOK /\ Consistent /\ Aimed

LEMMA Domains ==
  ASSUME TypeOK
  PROVE  /\ DOMAIN deltas \subseteq Nat /\ DOMAIN reqs \subseteq Nat
         /\ Len(deltas) \in Nat /\ DOMAIN deltas = 1 .. Len(deltas)
         /\ Len(reqs) \in Nat /\ DOMAIN reqs = 1 .. Len(reqs)
         /\ \A d \in DOMAIN deltas : deltas[d] \in Delta
         /\ \A r \in DOMAIN reqs : reqs[r] \in Requirement
BY DomainOfSeq DEF TypeOK

LEMMA Proposing ==
  ASSUME TypeOK
  PROVE  /\ \A cmd \in {"add", "rev bump", "sync", "diff"} : Named(Propose(cmd))
         /\ \A d \in DOMAIN deltas : /\ Named(ProposeDelta("req add", d))
                                     /\ Named(ProposeDelta("delta close", d))
         /\ \A r \in DOMAIN reqs :
              \A cmd \in {"req verify", "req refresh", "change", "remove", "repair"} :
                Named(ProposeReq(cmd, r))
         /\ \A d \in DOMAIN deltas, r \in DOMAIN reqs :
              \A cmd \in {"req replace", "req withdraw", "req stale"} : Named(ProposeBoth(cmd, d, r))
<1>1. /\ \A d \in DOMAIN deltas : d \in Nat
      /\ \A r \in DOMAIN reqs : r \in Nat
  BY Domains
<1> QED
  BY <1>1 DEF Named, Proposal, Intents, NoReq, OnDelta, OnRequirement,
              Propose, ProposeDelta, ProposeReq, ProposeBoth

LEMMA FormalizeNamed ==
  ASSUME Grounded, NEW d \in DOMAIN deltas, NEW s \in Formalize(d)
  PROVE  Named(s)
<1>1. TypeOK /\ deltas[d] \in Delta /\ deltas[d].affects \subseteq DOMAIN reqs /\ DOMAIN reqs \subseteq Nat
  BY Domains DEF Grounded, Consistent, ValidTracking
<1>2. deltas[d].intent # "add" => Min(deltas[d].affects) \in DOMAIN reqs
  <2> SUFFICES ASSUME deltas[d].intent # "add" PROVE Min(deltas[d].affects) \in DOMAIN reqs
    OBVIOUS
  <2>1. deltas[d].affects # {} /\ deltas[d].affects \in SUBSET Nat
    BY <1>1 DEF Grounded, Aimed
  <2> QED
    BY <1>1, <2>1, MinMember
<1>3. deltas[d].intent \in Intents
  BY <1>1 DEF Delta
<1>4. CASE deltas[d].intent = "add"
  BY <1>1, <1>4, Proposing DEF Formalize
<1>5. CASE deltas[d].intent = "change"
  BY <1>1, <1>2, <1>5, Proposing DEF Formalize
<1>6. CASE deltas[d].intent = "remove"
  BY <1>1, <1>2, <1>6, Proposing DEF Formalize
<1>7. CASE deltas[d].intent = "repair"
  BY <1>1, <1>2, <1>7, Proposing DEF Formalize
<1> QED
  BY <1>3, <1>4, <1>5, <1>6, <1>7 DEF Intents

LEMMA CloseNamed ==
  ASSUME Grounded, NEW ds, NEW s \in CloseSuggestions(ds)
  PROVE  Named(s)
<1>1. PICK d \in InFlight : s = ProposeDelta("delta close", d)
  BY DEF CloseSuggestions
<1>2. d \in DOMAIN deltas
  BY DEF InFlight, WithStatus
<1> QED
  BY <1>1, <1>2, Proposing DEF Grounded

LEMMA ContinueNamed ==
  ASSUME Grounded, NEW d \in DOMAIN deltas, NEW s \in Continue(d)
  PROVE  Named(s)
<1>1. PICK blocking : blocking = BlockingForClosure(deltas, reqs, d)
  OBVIOUS
<1>2. blocking \subseteq DOMAIN reqs
  BY <1>1 DEF BlockingForClosure, TouchedBy
<1>3. CASE s \in Formalize(d)
  BY <1>3, FormalizeNamed
<1>4. CASE s \in CloseSuggestions({d})
  BY <1>4, CloseNamed
<1>5. CASE blocking # {} /\ s = ProposeReq("req verify", Min(blocking))
  <2>1. Min(blocking) \in DOMAIN reqs
    BY <1>2, <1>5, MinMember, Domains DEF Grounded
  <2> QED
    BY <1>5, <2>1, Proposing DEF Grounded
<1> QED
  BY <1>1, <1>3, <1>4, <1>5 DEF Continue

LEMMA ContinuationNamed ==
  ASSUME Grounded, NEW s \in Continuation
  PROVE  Named(s)
<1>1. PICK candidates, unfinished :
        /\ candidates = IF TrackedBy # {} THEN TrackedBy ELSE LiveDeltas(deltas)
        /\ unfinished = {d \in candidates : Continue(d) # {}}
  OBVIOUS
<1>2. TrackedBy \subseteq DOMAIN deltas /\ LiveDeltas(deltas) \subseteq DOMAIN deltas
  BY DEF TrackedBy, InFlight, WithStatus, LiveDeltas
<1>3. unfinished \in SUBSET Nat /\ unfinished \subseteq DOMAIN deltas
  BY <1>1, <1>2, Domains DEF Grounded
<1>4. unfinished # {} /\ s \in Continue(Min(unfinished))
  BY <1>1 DEF Continuation
<1>5. Min(unfinished) \in DOMAIN deltas
  BY <1>3, <1>4, MinMember
<1> QED
  BY <1>4, <1>5, ContinueNamed

LEMMA TrackedNamed ==
  ASSUME Grounded, NEW s, s \in TrackedNext \cup BumpIfVerified
  PROVE  Named(s)
<1>1. s \in Continuation \/ s = Propose("rev bump")
  BY DEF TrackedNext, BumpIfVerified
<1> QED
  BY <1>1, ContinuationNamed, Proposing DEF Grounded

LEMMA RefreshNamed ==
  ASSUME Grounded, NEW r \in DOMAIN reqs, NEW s \in RefreshOptions(r)
  PROVE  Named(s)
BY Proposing DEF Grounded, RefreshOptions

LEMMA ContextNamed ==
  ASSUME Grounded, NEW s \in ContextNext
  PROVE  Named(s)
<1>1. TypeOK /\ DOMAIN reqs \subseteq Nat /\ ActiveReqs \subseteq DOMAIN reqs
  BY Domains DEF Grounded, ActiveReqs
<1>2. CASE s \in RefreshNext
  <2>1. MatchBlocking # {} /\ MatchBlocking \in SUBSET Nat /\ s = ProposeReq("req refresh", Min(MatchBlocking))
    BY <1>1, <1>2 DEF RefreshNext, MatchBlocking
  <2>2. Min(MatchBlocking) \in DOMAIN reqs
    BY <1>1, <2>1, MinMember DEF MatchBlocking
  <2> QED
    BY <1>1, <2>1, <2>2, Proposing
<1>3. CASE s \in RepairNext
  <2>1. StaleActive # {} /\ StaleActive \in SUBSET Nat /\ s = ProposeReq("repair", Min(StaleActive))
    BY <1>1, <1>3 DEF RepairNext, StaleActive
  <2>2. Min(StaleActive) \in DOMAIN reqs
    BY <1>1, <2>1, MinMember DEF StaleActive
  <2> QED
    BY <1>1, <2>1, <2>2, Proposing
<1>4. CASE s \in TrackedNext
  BY <1>4, TrackedNamed
<1>5. CASE s = Propose("diff") \/ s = Propose("sync")
  BY <1>1, <1>5, Proposing
<1>6. CASE \E r \in ActiveReqs : s = ProposeReq("req verify", r)
  BY <1>1, <1>6, Proposing
<1> QED
  BY <1>2, <1>3, <1>4, <1>5, <1>6 DEF ContextNext

LEMMA DiffNamed ==
  ASSUME Grounded, NEW s \in DiffNext
  PROVE  Named(s)
<1>1. TypeOK /\ ActiveReqs \subseteq DOMAIN reqs
  BY DEF Grounded, ActiveReqs
<1>2. CASE s \in DiffOptions
  <2>1. ASSUME NEW r \in ActiveReqs,
               s \in {ProposeReq("change", r), ProposeReq("remove", r), ProposeReq("repair", r),
                      ProposeReq("req refresh", r)}
        PROVE  Named(s)
    BY <1>1, <2>1, Proposing
  <2>2. CASE s = Propose("add") \/ s = Propose("sync")
    BY <1>1, <2>2, Proposing
  <2> QED
    BY <1>2, <2>1, <2>2 DEF DiffOptions
<1>3. s \in TrackedNext \/ s = Propose("rev bump") \/ s \in DiffOptions
  BY DEF DiffNext
<1> QED
  BY <1>1, <1>2, <1>3, TrackedNamed, Proposing

(* After a delta or a requirement was added, there is a last one. *)
Grown(s) ==
  /\ s.cmd \in Intents => Len(deltas) \in DOMAIN deltas
  /\ s.cmd \in {"req add", "req replace"} => Len(reqs) \in DOMAIN reqs
  /\ s.cmd = "req stale" => s.req \in DOMAIN reqs

LEMMA ResponseNamed == Grounded => \A s : Grown(s) => \A p \in Response(s) : Named(p)
<1> SUFFICES ASSUME Grounded, NEW s, Grown(s), NEW p \in Response(s)
             PROVE  Named(p)
  OBVIOUS
<1>1. TypeOK
  BY DEF Grounded
<1>2. CASE s.cmd \in Intents
  <2>1. Len(deltas) \in DOMAIN deltas
    BY <1>2 DEF Grown
  <2>2. p \in Formalize(Len(deltas))
    BY <1>2 DEF Response, Intents
  <2> QED
    BY <2>1, <2>2, FormalizeNamed
<1>3. CASE s.cmd \in {"req add", "req replace"}
  BY <1>1, <1>3, Proposing DEF Response, Grown, Intents
<1>4. CASE s.cmd = "req stale"
  BY <1>1, <1>4, Proposing DEF Response, Grown, Intents
<1>5. CASE \E ds : p \in CloseSuggestions(ds)
  BY <1>5, CloseNamed
<1>6. CASE p \in Continuation \cup BumpIfVerified
  BY <1>6, ContinuationNamed, TrackedNamed
<1>7. CASE p = Propose("sync")
  BY <1>1, <1>7, Proposing
<1>8. s.cmd \notin Intents /\ s.cmd \notin {"req add", "req replace", "req stale"} =>
        \/ \E ds : p \in CloseSuggestions(ds)
        \/ p \in Continuation \cup BumpIfVerified
        \/ p = Propose("sync")
  BY DEF Response, CloseNext
<1> QED
  BY <1>2, <1>3, <1>4, <1>5, <1>6, <1>7, <1>8

LEMMA NoWriteNamed ==
  ASSUME Grounded, NEW s, NEW p \in NoWriteResponse(s)
  PROVE  Named(p)
<1>1. TypeOK /\ DOMAIN reqs \subseteq Nat /\ MatchBlocking \subseteq DOMAIN reqs
  BY Domains DEF Grounded, MatchBlocking, ActiveReqs
<1>2. CASE s.cmd = "delta close" /\ s.delta \in InFlight
  <2>1. PICK touched : touched = TouchedBy(deltas, reqs, s.delta)
    OBVIOUS
  <2>2. touched \subseteq DOMAIN reqs
    BY <2>1 DEF TouchedBy
  <2>3. CASE touched \cap MatchBlocking # {} /\ p \in RefreshOptions(Min(touched \cap MatchBlocking))
    <3>1. touched \cap MatchBlocking \in SUBSET Nat
      BY <1>1
    <3>2. Min(touched \cap MatchBlocking) \in DOMAIN reqs
      BY <1>1, <2>3, <3>1, MinMember
    <3> QED
      BY <2>3, <3>2, RefreshNamed
  <2>4. CASE /\ BlockingForClosure(deltas, reqs, s.delta) # {}
             /\ p = ProposeReq("req verify", Min(touched \ VerifiedReqs))
    <3>1. touched \ VerifiedReqs # {} /\ touched \ VerifiedReqs \in SUBSET Nat
      BY <1>1, <2>1, <2>2, <2>4 DEF BlockingForClosure, VerifiedReqs
    <3>2. Min(touched \ VerifiedReqs) \in DOMAIN reqs
      BY <2>2, <3>1, MinMember
    <3> QED
      BY <1>1, <2>4, <3>2, Proposing
  <2> QED
    BY <1>2, <2>1, <2>3, <2>4 DEF NoWriteResponse
<1>3. CASE s.cmd = "req verify" /\ s.req \in MatchBlocking /\ p \in RefreshOptions(s.req)
  BY <1>1, <1>3, RefreshNamed
<1>4. CASE \E ds : p \in CloseSuggestions(ds)
  BY <1>4, CloseNamed
<1>5. CASE MatchBlocking # {} /\ p \in RefreshOptions(Min(MatchBlocking))
  <2>1. Min(MatchBlocking) \in DOMAIN reqs
    BY <1>1, <1>5, MinMember
  <2> QED
    BY <1>5, <2>1, RefreshNamed
<1>6. ~ (s.cmd = "delta close" /\ s.delta \in InFlight) =>
        \/ s.cmd = "req verify" /\ s.req \in MatchBlocking /\ p \in RefreshOptions(s.req)
        \/ \E ds : p \in CloseSuggestions(ds)
        \/ MatchBlocking # {} /\ p \in RefreshOptions(Min(MatchBlocking))
  BY DEF NoWriteResponse
<1> QED
  BY <1>2, <1>3, <1>4, <1>5, <1>6

-----------------------------------------------------------------------------
(* The steps of the agent. *)

(* What a proposed write does when it is accepted: it is one command of     *)
(* SpecLifecycle, and what was added is there to be named.                   *)
Recorded(s) ==
  /\ Next
  /\ UNCHANGED world
  /\ DOMAIN deltas \subseteq DOMAIN deltas'
  /\ Grown(s)'
  /\ Aimed'


LEMMA OpensDelta ==
  ASSUME Grounded, NEW s, Named(s), s.cmd \in WorkIntents,
         AddDelta(s.cmd, IF s.req = NoReq THEN {} ELSE {s.req})
  PROVE  Recorded(s)
<1>1. PICK affected : affected = IF s.req = NoReq THEN {} ELSE {s.req}
  OBVIOUS
<1>2. s.cmd \in Intents /\ affected \in SUBSET DOMAIN reqs /\ AddDelta(s.cmd, affected)
  BY <1>1, IntentsAssumption DEF Named
<1>3. Next
  BY <1>2 DEF Next
<1>4. PICK e : /\ e = NewDelta(s.cmd, affected)
               /\ deltas' = Append(deltas, e)
               /\ UNCHANGED world
  BY <1>2 DEF AddDelta, SaveDeltas, Save
<1>5. TypeOK /\ affected \in SUBSET Nat
  BY <1>2, Domains DEF Grounded
<1>6. e \in Delta /\ e.intent = s.cmd /\ e.affects = affected
  BY <1>2, <1>4, <1>5 DEF NewDelta, Delta, DeltaStatuses
<1>7. /\ DOMAIN deltas' = DOMAIN deltas \cup {Len(deltas) + 1}
      /\ Len(deltas') = Len(deltas) + 1
      /\ \A i \in DOMAIN deltas : deltas'[i] = deltas[i]
      /\ deltas'[Len(deltas) + 1] = e
  BY <1>4, <1>5, <1>6, ExtendedSeq, AppendProperties DEF TypeOK
<1>8. s.cmd # "add" => affected # {}
  BY <1>2 DEF AddDelta
<1>9. Aimed'
  BY <1>6, <1>7, <1>8 DEF Grounded, Aimed
<1>10. Grown(s)'
  BY <1>2, <1>7 DEF Grown, Intents
<1> QED
  BY <1>3, <1>4, <1>7, <1>9, <1>10 DEF Recorded

LEMMA LongerSeq ==
  ASSUME NEW S, NEW seq \in Seq(S), NEW e \in S
  PROVE  /\ Len(Append(seq, e)) = Len(seq) + 1
         /\ Len(seq) + 1 \in DOMAIN Append(seq, e)
         /\ Len(seq) + 1 \notin DOMAIN seq
         /\ Append(seq, e)[Len(seq) + 1] = e
<1>1. /\ Len(seq) + 1 \in DOMAIN Append(seq, e)
      /\ Len(seq) + 1 \notin DOMAIN seq
      /\ Append(seq, e)[Len(seq) + 1] = e
  BY ExtendedSeq
<1> QED
  BY <1>1, AppendProperties

LEMMA AddsRequirement ==
  ASSUME Grounded, NEW s, Named(s), s.cmd = "req add", NEW b \in Blocks, AddRequirement(s.delta, b)
  PROVE  Recorded(s)
<1>1. s.delta \in DOMAIN deltas
  BY DEF Named, OnDelta
<1>2. Next
  BY <1>1 DEF Next
<1>3. PICK e : /\ e = NewRequirement(b, s.delta)
               /\ reqs' = Append(reqs, e)
               /\ UNCHANGED deltas /\ UNCHANGED world
  BY DEF AddRequirement, SaveRequirements, Save
<1>4. TypeOK /\ s.delta \in Nat
  BY <1>1, Domains DEF Grounded
<1>5. e \in Requirement
  BY <1>3, <1>4 DEF NewRequirement, Requirement, Lifecycles, Verifications, NoReq
<1>6. /\ DOMAIN reqs' = DOMAIN reqs \cup {Len(reqs) + 1}
      /\ Len(reqs') = Len(reqs) + 1
  <2>1. reqs \in Seq(Requirement) /\ reqs' = Append(reqs, e)
    BY <1>3, <1>4 DEF TypeOK
  <2>2. DOMAIN Append(reqs, e) = DOMAIN reqs \cup {Len(reqs) + 1}
    BY <1>5, <2>1, ExtendedSeq
  <2>3. Len(Append(reqs, e)) = Len(reqs) + 1
    BY <1>5, <2>1, LongerSeq
  <2> QED
    BY <2>1, <2>2, <2>3
<1>7. Grown(s)'
  BY <1>6 DEF Grown, Intents
<1>8. Aimed'
  BY <1>3 DEF Grounded, Aimed
<1> QED
  BY <1>2, <1>3, <1>7, <1>8 DEF Recorded

LEMMA LastOfMore == \A n, m \in Nat : n + 1 \in 1 .. m => m \in 1 .. m
OBVIOUS

LEMMA ReplacesRequirement ==
  ASSUME Grounded, NEW s, Named(s), s.cmd = "req replace", NEW b \in Blocks,
         ReplaceRequirement(s.delta, s.req, b)
  PROVE  Recorded(s)
<1>1. TypeOK /\ s.delta \in DOMAIN deltas /\ s.req \in DOMAIN reqs
  BY DEF Named, OnDelta, OnRequirement, Grounded
<1>2. Next
  BY <1>1 DEF Next, RequirementCommand
<1>3. /\ s.req \in ActiveReqs
      /\ deltas' = AutoRebind(s.delta, s.req, Len(reqs) + 1)
      /\ reqs' = Append([reqs EXCEPT ![s.req] = Superseded(s.req)], Successor(s.req, b, s.delta))
      /\ UNCHANGED world
  BY DEF ReplaceRequirement, SaveRequirements, Save, Superseded, Successor
<1>4. DOMAIN reqs' = DOMAIN reqs \cup {Len(reqs) + 1}
  BY <1>1, <1>3, ReplacedSeq
<1>5. reqs' \in Seq(Requirement)
  BY <1>1, <1>2, StepForm, ContentTyped
<1>6. /\ DOMAIN reqs' = 1 .. Len(reqs') /\ Len(reqs') \in Nat
      /\ DOMAIN reqs = 1 .. Len(reqs) /\ Len(reqs) \in Nat
  BY <1>1, <1>5, DomainOfSeq DEF TypeOK
<1>7. Len(reqs') \in DOMAIN reqs'
  <2>1. Len(reqs) + 1 \in 1 .. Len(reqs')
    BY <1>4, <1>6
  <2> QED
    BY <1>6, <2>1, LastOfMore
<1>8. Grown(s)'
  BY <1>7 DEF Grown, Intents
<1>9. DOMAIN deltas' = DOMAIN deltas
  BY <1>3 DEF AutoRebind
<1>10. Aimed'
  <2> SUFFICES ASSUME NEW d \in DOMAIN deltas', deltas'[d].intent # "add"
               PROVE  deltas'[d].affects # {}
    BY DEF Aimed
  <2>1. d \in DOMAIN deltas /\ deltas[d] \in Delta
    BY <1>1, <1>9, Domains
  <2>2. deltas[d].intent # "add" => deltas[d].affects # {}
    BY <2>1 DEF Grounded, Aimed
  <2>3. \/ deltas'[d] = deltas[d]
        \/ deltas'[d] = [deltas[d] EXCEPT !.affects = (@ \ {s.req}) \cup {Len(reqs) + 1}]
    BY <1>3, <2>1 DEF AutoRebind
  <2> QED
    BY <2>1, <2>2, <2>3 DEF Delta
<1> QED
  BY <1>2, <1>3, <1>8, <1>9, <1>10 DEF Recorded

LEMMA ChangesRequirement ==
  ASSUME Grounded, NEW s, Named(s), Next,
         NEW e \in Requirement, reqs' = [reqs EXCEPT ![s.req] = e],
         UNCHANGED deltas, UNCHANGED world,
         s.cmd \in {"req withdraw", "req stale", "req verify", "req refresh"}
  PROVE  Recorded(s)
<1>1. Aimed'
  BY DEF Grounded, Aimed
<1>2. s.req \in DOMAIN reqs /\ DOMAIN reqs' = DOMAIN reqs
  BY DEF Named, OnRequirement
<1>3. Grown(s)'
  BY <1>2 DEF Grown, Intents
<1> QED
  BY <1>1, <1>3 DEF Recorded

LEMMA TracksRequirement ==
  ASSUME Grounded, NEW s, Named(s),
         \/ s.cmd = "req withdraw" /\ WithdrawRequirement(s.delta, s.req)
         \/ s.cmd = "req stale" /\ StaleRequirement(s.delta, s.req)
         \/ s.cmd = "req verify" /\ VerifyRequirement(s.req, TestFiles)
         \/ s.cmd = "req refresh" /\ \E b \in doc \ Registered : RefreshRequirement(s.req, b)
  PROVE  Recorded(s)
<1>1. TypeOK /\ doc \subseteq Blocks /\ s.req \in DOMAIN reqs /\ reqs[s.req] \in Requirement
  BY Domains DEF Grounded, TypeOK, Named, OnRequirement
<1>2. CASE s.cmd = "req withdraw"
  <2>1. WithdrawRequirement(s.delta, s.req) /\ s.delta \in DOMAIN deltas
    BY <1>2 DEF Named, OnDelta
  <2>2. PICK e : e = [reqs[s.req] EXCEPT !.lifecycle = "withdrawn"]
    OBVIOUS
  <2>3. e \in Requirement
    BY <1>1, <2>2 DEF Requirement, Lifecycles
  <2>4. reqs' = [reqs EXCEPT ![s.req] = e] /\ UNCHANGED deltas /\ UNCHANGED world
    BY <2>1, <2>2 DEF WithdrawRequirement, SaveRequirements, Save
  <2>5. Next
    BY <1>1, <2>1 DEF Next, RequirementCommand
  <2> QED
    BY <1>2, <2>3, <2>4, <2>5, ChangesRequirement
<1>3. CASE s.cmd = "req stale"
  <2>1. StaleRequirement(s.delta, s.req) /\ s.delta \in DOMAIN deltas
    BY <1>3 DEF Named, OnDelta
  <2>2. PICK e : e = [reqs[s.req] EXCEPT !.verification = "stale"]
    OBVIOUS
  <2>3. e \in Requirement
    BY <1>1, <2>2 DEF Requirement, Verifications
  <2>4. reqs' = [reqs EXCEPT ![s.req] = e] /\ UNCHANGED deltas /\ UNCHANGED world
    BY <2>1, <2>2 DEF StaleRequirement, SaveRequirements, Save
  <2>5. Next
    BY <1>1, <2>1 DEF Next, RequirementCommand
  <2> QED
    BY <1>3, <2>3, <2>4, <2>5, ChangesRequirement
<1>4. CASE s.cmd = "req verify"
  <2>1. VerifyRequirement(s.req, TestFiles)
    BY <1>4
  <2>2. PICK e : e = [reqs[s.req] EXCEPT !.verification = "verified", !.files = reqs[s.req].files \cup TestFiles]
    OBVIOUS
  <2>3. e \in Requirement
    BY <1>1, <2>2 DEF Requirement, Verifications
  <2>4. reqs' = [reqs EXCEPT ![s.req] = e] /\ UNCHANGED deltas /\ UNCHANGED world
    BY <2>1, <2>2 DEF VerifyRequirement, SaveRequirements, Save
  <2>5. Next
    BY <1>1, <2>1 DEF Next, RequirementCommand
  <2> QED
    BY <1>4, <2>3, <2>4, <2>5, ChangesRequirement
<1>5. CASE s.cmd = "req refresh"
  <2>1. PICK b \in doc \ Registered : RefreshRequirement(s.req, b)
    BY <1>5
  <2>2. PICK e : e = [reqs[s.req] EXCEPT !.block = b]
    OBVIOUS
  <2>3. e \in Requirement
    BY <1>1, <2>2 DEF Requirement
  <2>4. reqs' = [reqs EXCEPT ![s.req] = e] /\ UNCHANGED deltas /\ UNCHANGED world
    BY <2>1, <2>2 DEF RefreshRequirement, SaveRequirements, Save
  <2>5. Next
    BY <1>1, <2>1 DEF Next, RequirementCommand
  <2> QED
    BY <1>5, <2>3, <2>4, <2>5, ChangesRequirement
<1> QED
  BY <1>2, <1>3, <1>4, <1>5

LEMMA Settles ==
  ASSUME Grounded, NEW s, Named(s),
         \/ s.cmd = "delta close" /\ CloseDelta(s.delta)
         \/ s.cmd = "rev bump" /\ \E c \in Commits : BumpRevision(c)
         \/ s.cmd = "sync" /\ \E c \in Commits : Sync(c)
  PROVE  Recorded(s)
<1>1. TypeOK
  BY DEF Grounded
<1>2. Grown(s)'
  BY DEF Grown, Intents
<1>3. CASE s.cmd = "delta close"
  <2>1. s.delta \in DOMAIN deltas /\ CloseDelta(s.delta)
    BY <1>3 DEF Named, OnDelta
  <2>2. Next
    BY <2>1 DEF Next, DeltaCommand
  <2>3. PICK e : e = [deltas[s.delta] EXCEPT !.status = "closed"]
    OBVIOUS
  <2>4. deltas' = [deltas EXCEPT ![s.delta] = e] /\ UNCHANGED world
    BY <2>1, <2>3 DEF CloseDelta, Transition, SaveDeltas, Save
  <2>5. deltas[s.delta] \in Delta
    BY <1>1, <2>1, Domains
  <2>6. e.intent = deltas[s.delta].intent /\ e.affects = deltas[s.delta].affects
    BY <2>3, <2>5 DEF Delta
  <2>7. Aimed'
    BY <2>1, <2>4, <2>6 DEF Grounded, Aimed
  <2> QED
    BY <1>2, <2>2, <2>4, <2>7 DEF Recorded
<1>4. CASE (\E c \in Commits : BumpRevision(c)) \/ (\E c \in Commits : Sync(c))
  <2>1. Next
    BY <1>4 DEF Next
  <2>2. UNCHANGED deltas /\ UNCHANGED world
    BY <1>4 DEF BumpRevision, Sync, Save
  <2>3. Aimed'
    BY <2>2 DEF Grounded, Aimed
  <2> QED
    BY <1>2, <2>1, <2>2, <2>3 DEF Recorded
<1> QED
  BY <1>3, <1>4

LEMMA AcceptedIsCommand ==
  ASSUME Grounded, NEW s, Named(s), Accept(s)
  PROVE  Recorded(s)
<1>1. doc \subseteq Blocks
  BY DEF Grounded, TypeOK
<1>2. CASE s.cmd \in WorkIntents /\ AddDelta(s.cmd, IF s.req = NoReq THEN {} ELSE {s.req})
  BY <1>2, OpensDelta
<1>3. CASE s.cmd = "req add" /\ \E b \in doc \ Registered : AddRequirement(s.delta, b)
  BY <1>1, <1>3, AddsRequirement
<1>4. CASE s.cmd = "req replace" /\ \E b \in doc \ Registered : ReplaceRequirement(s.delta, s.req, b)
  BY <1>1, <1>4, ReplacesRequirement
<1> QED
  BY <1>2, <1>3, <1>4, TracksRequirement, Settles DEF Accept

-----------------------------------------------------------------------------
(* What holds between any two steps of the agent. *)

ProposalsNamed == \A s \in next : Named(s)

AgentInv ==
  /\ Grounded
  /\ ChangelogInductive
  /\ ProposalsNamed
  /\ moved \in BOOLEAN
  /\ spent \subseteq DOMAIN deltas
  /\ source \in {"read", "write", "refresh", "refusal"}
  /\ reworded \in 0 .. MaxRewordings

LEMMA InitAgent == GInit => AgentInv
<1> SUFFICES ASSUME GInit PROVE AgentInv
  OBVIOUS
<1>1. Init
  BY DEF GInit
<1>2. TypeOK /\ Consistent /\ ChangelogInductive
  BY <1>1, InitTyped, InitConsistent, InitChangelog
<1>3. Aimed
  BY <1>1 DEF Init, Aimed
<1>4. moved \in BOOLEAN
  BY DEF GInit
<1>5. spent = {} /\ next = {} /\ source = "read"
  BY DEF GInit
<1>6. reworded \in 0 .. MaxRewordings
  BY RewordingsAssumption DEF GInit
<1> QED
  BY <1>2, <1>3, <1>4, <1>5, <1>6 DEF AgentInv, Grounded, ProposalsNamed

(* What every step of SpecLifecycle keeps, the agent keeps by taking it. *)
FileKept == TypeOK /\ Consistent /\ ChangelogInductive

LEMMA CommandKeepsFile ==
  ASSUME AgentInv, [Next]_vars
  PROVE  FileKept'
BY StepTyped, StepConsistent, StepKeepsChangelog DEF AgentInv, Grounded, FileKept

LEMMA NextResponse ==
  (Grounded => \A s : Grown(s) => \A p \in Response(s) : Named(p))'
BY ResponseNamed, PTL

LEMMA WriteKeeps ==
  ASSUME AgentInv, NEW s, Named(s), Write(s)
  PROVE  AgentInv' /\ Next
<1>1. Recorded(s)
  BY AcceptedIsCommand DEF Write, AgentInv
<1>2. FileKept' /\ Next
  BY <1>1, CommandKeepsFile DEF Recorded
<1>3. Grounded'
  BY <1>1, <1>2 DEF Recorded, FileKept, Grounded
<1>4. \A p \in Response(s)' : Named(p)'
  BY <1>1, <1>3, NextResponse DEF Recorded
<1>5. ProposalsNamed'
  BY <1>4 DEF Write, ProposalsNamed
<1>6. spent' \subseteq DOMAIN deltas'
  BY <1>1 DEF Write, Recorded, AgentInv
<1>7. moved' \in BOOLEAN /\ source' \in {"read", "write", "refresh", "refusal"} /\ reworded' = reworded
  BY DEF Write, AgentInv
<1> QED
  BY <1>2, <1>3, <1>5, <1>6, <1>7 DEF AgentInv, FileKept

(* Steps that write nothing. *)
LEMMA ReadKeeps ==
  ASSUME AgentInv, UNCHANGED <<vars, reworded>>,
         moved' \in BOOLEAN,
         spent' \in {spent, DOMAIN deltas},
         source' \in {"read", "write", "refresh", "refusal"},
         \A s \in next' : Named(s)
  PROVE  AgentInv'
<1>1. FileKept'
  BY CommandKeepsFile DEF vars
<1>2. UNCHANGED deltas /\ UNCHANGED reqs
  BY DEF vars, tracking
<1>3. Grounded'
  BY <1>1, <1>2 DEF FileKept, Grounded, AgentInv, Aimed
<1>4. ProposalsNamed'
  BY <1>2 DEF ProposalsNamed, Named
<1> QED
  BY <1>1, <1>2, <1>3, <1>4 DEF AgentInv, FileKept

(* Edits of SPEC.md: the tracking file stays, and a new block is written. *)
LEMMA EditKeeps ==
  ASSUME AgentInv, UNCHANGED <<tracking, repoFiles, spent, agent>>,
         doc' \subseteq Blocks, moved' = TRUE, reworded' \in 0 .. MaxRewordings
  PROVE  AgentInv'
<1>1. UNCHANGED <<deltas, reqs, status, rev, checkpoint, changelog, secondary>>
  BY DEF tracking
<1>2. TypeOK'
  BY <1>1 DEF AgentInv, Grounded, TypeOK
<1>3. Consistent'
  BY <1>1 DEF AgentInv, Grounded, Consistent, StoredStatusCurrent
<1>4. ChangelogInductive'
  BY <1>1, OtherStepsKeepChangelog DEF AgentInv, Grounded, FormOfStep, NothingRecorded
<1>5. Aimed'
  BY <1>1 DEF AgentInv, Grounded, Aimed
<1>6. ProposalsNamed'
  BY <1>1 DEF agent, AgentInv, ProposalsNamed, Named
<1> QED
  BY <1>1, <1>2, <1>3, <1>4, <1>5, <1>6 DEF agent, AgentInv, Grounded

LEMMA NewBlockIsNew == Unwritten # {} => NewBlock \in Blocks /\ NewBlock \notin doc
BY DEF NewBlock, Unwritten

(* A read of the agent: a refused write, "diff" or "context". *)
LEMMA FollowKeeps ==
  ASSUME AgentInv, NEW s, Named(s), WriteNothing(s) \/ ReadDiff(s) \/ ReadContext
  PROVE  AgentInv' /\ UNCHANGED vars
<1>1. Grounded /\ moved \in BOOLEAN
  BY DEF AgentInv
<1>2. /\ UNCHANGED vars /\ UNCHANGED <<reworded, moved, spent>>
      /\ source' \in {"read", "refusal"}
      /\ next' \in {NoWriteResponse(s), DiffNext, ContextNext}
  BY DEF WriteNothing, ReadDiff, ReadContext
<1>3. \A p \in next' : Named(p)
  BY <1>1, <1>2, NoWriteNamed, DiffNamed, ContextNamed
<1> QED
  BY <1>1, <1>2, <1>3, ReadKeeps

(* A command of SpecLifecycle or none of its state but SPEC.md changes. *)
Commanded == Next \/ UNCHANGED <<tracking, repoFiles>>

LEMMA AgentStep ==
  ASSUME AgentInv, [GNext]_gvars
  PROVE  AgentInv' /\ Commanded
<1>1. ASSUME NEW s \in next, Write(s) \/ WriteNothing(s) \/ ReadDiff(s)
      PROVE  AgentInv' /\ Commanded
  <2>1. Named(s)
    BY DEF AgentInv, ProposalsNamed
  <2> QED
    BY <1>1, <2>1, WriteKeeps, FollowKeeps DEF Commanded, vars, world
<1>2. CASE ReadContext
  <2>1. Grounded
    BY DEF AgentInv
  <2>2. Named(Propose("diff"))
    BY <2>1, Proposing DEF Grounded
  <2> QED
    BY <1>2, <2>2, FollowKeeps DEF Commanded, vars, world
<1>3. CASE WriteSection
  <2>1. Unwritten # {} /\ doc' = doc \cup {NewBlock} /\ moved' = TRUE
        /\ UNCHANGED <<tracking, repoFiles, spent, agent, reworded>>
    BY <1>3 DEF WriteSection
  <2>2. doc' \subseteq Blocks /\ reworded' \in 0 .. MaxRewordings
    BY <2>1, NewBlockIsNew DEF AgentInv, Grounded, TypeOK
  <2> QED
    BY <2>1, <2>2, EditKeeps DEF Commanded
<1>4. ASSUME NEW intent \in WorkIntents, NEW r \in ActiveReqs \cup {NoReq}, Start(intent, r)
      PROVE  AgentInv' /\ Commanded
  <2>1. Named(ProposeReq(intent, r))
    <3>1. r \in {NoReq} \cup DOMAIN reqs /\ r \in Nat /\ intent \in Intents
      BY IntentsAssumption, Domains DEF AgentInv, Grounded, ActiveReqs, NoReq
    <3> QED
      BY <3>1 DEF Named, Proposal, ProposeReq, Intents, OnDelta, OnRequirement
  <2> QED
    BY <1>4, <2>1, WriteKeeps DEF Start, Commanded
<1>5. ASSUME NEW d \in InFlight, TryClose(d)
      PROVE  AgentInv' /\ Commanded
  <2>1. d \in DOMAIN deltas
    BY DEF InFlight, WithStatus
  <2>2. Named(ProposeDelta("delta close", d))
    BY <2>1, Proposing DEF AgentInv, Grounded
  <2> QED
    BY <1>5, <2>2, WriteKeeps, FollowKeeps DEF TryClose, Commanded, vars, world
<1>6. CASE CommitCode \/ CommitTracking \/ UNCHANGED gvars
  <2>1. /\ UNCHANGED <<vars, reworded>> /\ UNCHANGED agent
        /\ spent' \in {spent, DOMAIN deltas}
    BY <1>6 DEF CommitCode, CommitTracking, gvars
  <2>2. moved' \in BOOLEAN
    <3>1. moved' = moved \/ moved' = TRUE
      BY <1>6 DEF CommitCode, CommitTracking, gvars
    <3> QED
      BY <3>1 DEF AgentInv
  <2>3. /\ source' \in {"read", "write", "refresh", "refusal"}
        /\ \A s \in next' : Named(s)
    BY <2>1 DEF agent, AgentInv, ProposalsNamed
  <2>4. AgentInv'
    BY <2>1, <2>2, <2>3, ReadKeeps
  <2> QED
    BY <2>1, <2>4 DEF Commanded, vars, world
<1>7. ASSUME NEW r \in ActiveReqs, Reword(r)
      PROVE  AgentInv' /\ Commanded
  <2>1. Unwritten # {} /\ doc' = (doc \ {reqs[r].block}) \cup {NewBlock} /\ moved' = TRUE
        /\ UNCHANGED <<tracking, repoFiles, spent, agent>>
    BY <1>7 DEF Reword
  <2>2. doc' \subseteq Blocks
    BY <2>1, NewBlockIsNew DEF AgentInv, Grounded, TypeOK
  <2>3. reworded' \in 0 .. MaxRewordings
    BY <1>7, RewordingsAssumption DEF Reword, AgentInv
  <2> QED
    BY <2>1, <2>2, <2>3, EditKeeps DEF Commanded
<1> QED
  BY <1>1, <1>2, <1>3, <1>4, <1>5, <1>6, <1>7 DEF GNext, Follow, RunProposed, NewSession

-----------------------------------------------------------------------------

LEMMA AgentInvariant == GSpec => []AgentInv
<1>1. AgentInv /\ [GNext]_gvars => AgentInv'
  BY AgentStep
<1> QED
  BY <1>1, InitAgent, PTL DEF GSpec

(* Whatever the agent is told and does, the file, the proposals and the     *)
(* drift the read surface sees are well formed.                              *)
THEOREM AgentTyped == GSpec => []GTypeOK
<1>1. AgentInv => GTypeOK
  BY DEF AgentInv, Grounded, ProposalsNamed, Named, GTypeOK
<1> QED
  BY <1>1, AgentInvariant, PTL

(* No response names a delta or a requirement that does not exist, in       *)
(* whatever state the file is: the builders take the smallest member of sets  *)
(* that are never empty where they do.                                        *)
THEOREM ProposalsNameWhatExists == GSpec => []ProposalsNamed
<1>1. AgentInv => ProposalsNamed
  BY DEF AgentInv
<1> QED
  BY <1>1, AgentInvariant, PTL

(* An agent that runs what it is told and edits SPEC.md meanwhile keeps the *)
(* promises of Governance: it takes no step that is not a command or an edit. *)
THEOREM AgentKeepsPromises == GSpec => ImplementsGovernance
<1>1. GInit => Promised!Init
  BY InitGoverned DEF GInit
<1>2. AgentInv /\ [GNext]_gvars => [Promised!Next]_(Promised!gov)
  <2> SUFFICES ASSUME AgentInv, [GNext]_gvars PROVE [Promised!Next]_(Promised!gov)
    OBVIOUS
  <2>1. TypeOK /\ Consistent /\ ChangelogExact
    BY DEF AgentInv, Grounded, ChangelogInductive
  <2>2. CASE Next
    BY <2>1, <2>2, StepGoverned
  <2>3. CASE UNCHANGED <<tracking, repoFiles>>
    <3>1. UNCHANGED deltas /\ UNCHANGED reqs /\ UNCHANGED changelog
      BY <2>3 DEF tracking
    <3> QED
      BY <3>1, KeptMaps DEF Promised!gov
  <2> QED
    BY <2>2, <2>3, AgentStep DEF Commanded
<1> QED
  BY <1>1, <1>2, AgentInvariant, PTL DEF GSpec, ImplementsGovernance, Promised!Spec

-----------------------------------------------------------------------------
(* The work of a delta is recorded once, by "req add" or "req replace": they *)
(* are proposed only while the delta has introduced nothing.  And what is to  *)
(* be marked stale is what the repair is about.                               *)
Recording == {"req add", "req replace"}

Timely(s) ==
  /\ s.cmd \in Recording => TracingRequirements(reqs, s.delta) = {}
  /\ s.cmd = "req stale" => s.req \in deltas[s.delta].affects

LEMMA FormalizeTimely ==
  ASSUME Grounded, NEW d \in DOMAIN deltas, TracingRequirements(reqs, d) = {}, NEW s \in Formalize(d)
  PROVE  Timely(s)
<1>1. PICK r : r = Min(deltas[d].affects)
  OBVIOUS
<1>2. /\ deltas[d].intent \in Intents
      /\ deltas[d].intent # "add" => deltas[d].affects # {}
      /\ deltas[d].affects \in SUBSET Nat
  BY Domains DEF Grounded, Aimed, Delta
<1>3. deltas[d].intent # "add" => r \in deltas[d].affects
  BY <1>1, <1>2, MinMember
<1>4. CASE s = ProposeDelta("req add", d)
  BY <1>4 DEF ProposeDelta, Timely
<1>5. ASSUME NEW cmd, cmd # "req stale", s = ProposeBoth(cmd, d, r)
      PROVE  Timely(s)
  <2>1. s.delta = d /\ s.cmd # "req stale"
    BY <1>5 DEF ProposeBoth
  <2> QED
    BY <2>1 DEF Timely
<1>6. CASE s = ProposeBoth("req stale", d, r) /\ deltas[d].intent = "repair"
  BY <1>3, <1>6 DEF ProposeBoth, Timely, Recording
<1> QED
  BY <1>1, <1>2, <1>4, <1>5, <1>6 DEF Formalize, Intents

(* What Continue proposes for a delta, told by the work already recorded. *)
LEMMA ContinueForm ==
  ASSUME NEW d, NEW s \in Continue(d)
  PROVE  \/ TracingRequirements(reqs, d) = {} /\ s \in Formalize(d)
         \/ /\ BlockingForClosure(deltas, reqs, d) # {}
            /\ s = ProposeReq("req verify", Min(BlockingForClosure(deltas, reqs, d)))
         \/ s \in CloseSuggestions({d})
BY DEF Continue

LEMMA ContinuationForm ==
  ASSUME Grounded, NEW s \in Continuation
  PROVE  \E d \in DOMAIN deltas : /\ TrackedBy # {} => d \in TrackedBy
                                  /\ s \in Continue(d)
<1>1. PICK candidates, unfinished :
        /\ candidates = IF TrackedBy # {} THEN TrackedBy ELSE LiveDeltas(deltas)
        /\ unfinished = {d \in candidates : Continue(d) # {}}
  OBVIOUS
<1>2. candidates \subseteq DOMAIN deltas
  BY <1>1 DEF TrackedBy, InFlight, WithStatus, LiveDeltas
<1>3. unfinished \in SUBSET Nat
  BY <1>1, <1>2, Domains DEF Grounded
<1>4. unfinished # {} /\ s \in Continue(Min(unfinished))
  BY <1>1 DEF Continuation
<1>5. Min(unfinished) \in unfinished
  BY <1>3, <1>4, MinMember
<1> QED
  BY <1>1, <1>2, <1>4, <1>5

LEMMA CloseForm ==
  ASSUME NEW ds, NEW s \in CloseSuggestions(ds)
  PROVE  \E d \in InFlight : s = ProposeDelta("delta close", d) /\ DeltaClosureValid(deltas, reqs, d)
BY DEF CloseSuggestions

LEMMA OthersTimely ==
  /\ \A cmd : cmd \notin Recording \cup {"req stale"} => Timely(Propose(cmd))
  /\ \A cmd, r : cmd \notin Recording \cup {"req stale"} => Timely(ProposeReq(cmd, r))
BY DEF Propose, ProposeReq, Timely

LEMMA CloseTimely ==
  ASSUME NEW ds, NEW s \in CloseSuggestions(ds)
  PROVE  Timely(s)
<1>1. PICK d \in InFlight : s = ProposeDelta("delta close", d)
  BY CloseForm
<1> QED
  BY <1>1 DEF ProposeDelta, Timely, Recording

LEMMA ContinuationTimely ==
  ASSUME Grounded, NEW s \in Continuation
  PROVE  Timely(s)
<1>1. PICK d \in DOMAIN deltas : s \in Continue(d)
  BY ContinuationForm
<1>2. CASE TracingRequirements(reqs, d) = {} /\ s \in Formalize(d)
  BY <1>2, FormalizeTimely
<1>3. CASE \E r : s = ProposeReq("req verify", r)
  BY <1>3, OthersTimely DEF Recording
<1>4. CASE s \in CloseSuggestions({d})
  BY <1>4, CloseTimely
<1> QED
  BY <1>1, <1>2, <1>3, <1>4, ContinueForm

LEMMA RefreshTimely ==
  ASSUME NEW r, NEW s \in RefreshOptions(r)
  PROVE  Timely(s)
BY OthersTimely DEF RefreshOptions, Recording

LEMMA TrackedTimely ==
  ASSUME Grounded, NEW s \in TrackedNext \cup BumpIfVerified
  PROVE  Timely(s)
<1>1. s \in Continuation \/ s = Propose("rev bump")
  BY DEF TrackedNext, BumpIfVerified
<1> QED
  BY <1>1, ContinuationTimely, OthersTimely DEF Recording

LEMMA ReadTimely ==
  ASSUME Grounded, NEW s \in ContextNext \cup DiffNext
  PROVE  Timely(s)
<1>1. CASE s \in TrackedNext \cup BumpIfVerified
  BY <1>1, TrackedTimely
<1>2. \/ s \in TrackedNext \cup BumpIfVerified
      \/ \E cmd \in {"diff", "sync", "add", "rev bump"} : s = Propose(cmd)
      \/ \E r : \E cmd \in {"req refresh", "repair", "req verify", "change", "remove"} : s = ProposeReq(cmd, r)
  <2>1. CASE s \in ContextNext
    BY <2>1 DEF ContextNext, RefreshNext, RepairNext
  <2>2. CASE s \in DiffOptions
    BY <2>2 DEF DiffOptions
  <2>3. CASE s \in DiffNext
    BY <2>2, <2>3 DEF DiffNext
  <2> QED
    BY <2>1, <2>3
<1>3. CASE \E cmd \in {"diff", "sync", "add", "rev bump"} : s = Propose(cmd)
  BY <1>3, OthersTimely DEF Recording
<1>4. CASE \E r : \E cmd \in {"req refresh", "repair", "req verify", "change", "remove"} :
             s = ProposeReq(cmd, r)
  BY <1>4, OthersTimely DEF Recording
<1> QED
  BY <1>1, <1>2, <1>3, <1>4

LEMMA NoWriteTimely ==
  ASSUME NEW s, NEW p \in NoWriteResponse(s)
  PROVE  Timely(p)
<1>1. \/ \E r : p \in RefreshOptions(r)
      \/ \E r : p = ProposeReq("req verify", r)
      \/ \E ds : p \in CloseSuggestions(ds)
  BY DEF NoWriteResponse
<1> QED
  BY <1>1, RefreshTimely, CloseTimely, OthersTimely DEF Recording

(* A delta just opened has introduced nothing. *)
Untraced(s) == s.cmd \in Intents => TracingRequirements(reqs, Len(deltas)) = {}

LEMMA ResponseTimely ==
  Grounded => \A s : (Grown(s) /\ Untraced(s)) => \A p \in Response(s) : Timely(p)
<1> SUFFICES ASSUME Grounded, NEW s, Grown(s), Untraced(s), NEW p \in Response(s)
             PROVE  Timely(p)
  OBVIOUS
<1>1. CASE s.cmd \in Intents
  <2>1. Len(deltas) \in DOMAIN deltas /\ TracingRequirements(reqs, Len(deltas)) = {}
    BY <1>1 DEF Grown, Untraced
  <2>2. p \in Formalize(Len(deltas))
    BY <1>1 DEF Response, Intents
  <2> QED
    BY <2>1, <2>2, FormalizeTimely
<1>2. CASE s.cmd \notin Intents
  <2>1. \/ \E r : p = ProposeReq("req verify", r)
        \/ \E ds : p \in CloseSuggestions(ds)
        \/ p \in Continuation \cup BumpIfVerified
        \/ p = Propose("sync")
    BY <1>2 DEF Response, CloseNext
  <2> QED
    BY <2>1, CloseTimely, ContinuationTimely, TrackedTimely, OthersTimely DEF Recording
<1> QED
  BY <1>1, <1>2

(* What an accepted command adds to the requirements, and for which delta. *)
OneMore(s) ==
  /\ s.cmd \in Recording
  /\ DOMAIN reqs' = DOMAIN reqs \cup {Len(reqs) + 1}
  /\ reqs'[Len(reqs) + 1].introducedBy = s.delta

LEMMA AcceptedTraces ==
  ASSUME Grounded, NEW s, Named(s), Accept(s)
  PROVE  /\ \A r \in DOMAIN reqs : /\ r \in DOMAIN reqs'
                                   /\ reqs'[r].introducedBy = reqs[r].introducedBy
         /\ DOMAIN reqs' = DOMAIN reqs \/ OneMore(s)
         /\ s.cmd \in Intents => reqs' = reqs /\ Len(deltas') = Len(deltas) + 1
<1>1. TypeOK /\ doc \subseteq Blocks
  BY DEF Grounded, TypeOK
<1>2. \A r \in DOMAIN reqs : r \in DOMAIN reqs' /\ reqs'[r].introducedBy = reqs[r].introducedBy
  BY <1>1, AcceptedIsCommand, StepForm, RetiredStepFrozen DEF Recorded
<1>3. CASE s.cmd \in WorkIntents /\ AddDelta(s.cmd, IF s.req = NoReq THEN {} ELSE {s.req})
  <2>1. PICK affected : AddDelta(s.cmd, affected) /\ affected \subseteq DOMAIN reqs
    BY <1>3 DEF AddDelta, ActiveReqs
  <2>2. reqs' = reqs /\ deltas' = Append(deltas, NewDelta(s.cmd, affected))
    BY <2>1 DEF AddDelta, SaveDeltas, Save
  <2>3. NewDelta(s.cmd, affected) \in Delta
    BY <1>1, <1>3, <2>1, Domains, IntentsAssumption DEF NewDelta, Delta, DeltaStatuses
  <2>4. Len(deltas') = Len(deltas) + 1
    BY <1>1, <2>2, <2>3, AppendProperties DEF TypeOK
  <2> QED
    BY <1>2, <2>2, <2>4
<1>4. CASE s.cmd = "req add" /\ \E b \in doc \ Registered : AddRequirement(s.delta, b)
  <2>1. PICK b \in Blocks : AddRequirement(s.delta, b)
    BY <1>1, <1>4
  <2>2. s.delta \in Nat /\ reqs' = Append(reqs, NewRequirement(b, s.delta))
    BY <1>1, <1>4, <2>1, Domains DEF Named, OnDelta, AddRequirement, SaveRequirements, Save
  <2>3. NewRequirement(b, s.delta) \in Requirement /\ NewRequirement(b, s.delta).introducedBy = s.delta
    BY <2>2 DEF NewRequirement, Requirement, Lifecycles, Verifications, NoReq
  <2>4. reqs \in Seq(Requirement)
    BY <1>1 DEF TypeOK
  <2>5. DOMAIN reqs' = DOMAIN reqs \cup {Len(reqs) + 1} /\ reqs'[Len(reqs) + 1] = NewRequirement(b, s.delta)
    BY <2>2, <2>3, <2>4, ExtendedSeq
  <2>6. OneMore(s)
    BY <1>4, <2>3, <2>5 DEF OneMore, Recording
  <2> QED
    BY <1>2, <1>4, <2>6 DEF Intents
<1>5. CASE s.cmd = "req replace" /\ \E b \in doc \ Registered : ReplaceRequirement(s.delta, s.req, b)
  <2>1. PICK b \in Blocks : ReplaceRequirement(s.delta, s.req, b)
    BY <1>1, <1>5
  <2>2. s.delta \in DOMAIN deltas /\ s.req \in ActiveReqs
    BY <1>5, <2>1 DEF Named, OnDelta, ReplaceRequirement
  <2>3. reqs' = Append([reqs EXCEPT ![s.req] = Superseded(s.req)], Successor(s.req, b, s.delta))
    BY <2>1 DEF ReplaceRequirement, SaveRequirements, Save, Superseded, Successor
  <2>4. Successor(s.req, b, s.delta).introducedBy = s.delta
    BY DEF Successor, NewRequirement
  <2>5. OneMore(s)
    BY <1>1, <1>5, <2>2, <2>3, <2>4, ReplacedSeq DEF OneMore, Recording
  <2> QED
    BY <1>2, <1>5, <2>5 DEF Intents
<1>6. CASE /\ s.cmd \in {"req withdraw", "req stale", "req verify", "req refresh"}
           /\ \/ WithdrawRequirement(s.delta, s.req)
              \/ StaleRequirement(s.delta, s.req)
              \/ VerifyRequirement(s.req, TestFiles)
              \/ \E b \in doc \ Registered : RefreshRequirement(s.req, b)
  <2>1. \E e : reqs' = [reqs EXCEPT ![s.req] = e]
    BY <1>6 DEF WithdrawRequirement, StaleRequirement, VerifyRequirement, RefreshRequirement,
                SaveRequirements, Save
  <2>2. DOMAIN reqs' = DOMAIN reqs
    BY <2>1
  <2> QED
    BY <1>2, <1>6, <2>2 DEF Intents
<1>7. CASE /\ s.cmd \in {"delta close", "rev bump", "sync"}
           /\ CloseDelta(s.delta) \/ \E c \in Commits : BumpRevision(c) \/ Sync(c)
  <2>1. reqs' = reqs
    BY <1>7 DEF CloseDelta, Transition, SaveDeltas, BumpRevision, Sync, Save
  <2> QED
    BY <1>2, <1>7, <2>1 DEF Intents
<1> QED
  BY <1>3, <1>4, <1>5, <1>6, <1>7 DEF Accept

-----------------------------------------------------------------------------

OnceInv ==
  /\ AgentInv
  /\ WorkRecordedOnce
  /\ \A s \in next : Timely(s)

LEMMA NextTimely ==
  (Grounded => \A s : (Grown(s) /\ Untraced(s)) => \A p \in Response(s) : Timely(p))'
BY ResponseTimely, PTL

LEMMA WriteOnce ==
  ASSUME OnceInv, NEW s, Named(s), Timely(s), Write(s)
  PROVE  OnceInv'
<1>1. Grounded /\ Accept(s) /\ Consistent /\ TypeOK
  BY DEF OnceInv, AgentInv, Grounded, Write
<1>2. AgentInv' /\ Recorded(s)
  BY <1>1, WriteKeeps, AcceptedIsCommand DEF OnceInv
<1>3. /\ \A r \in DOMAIN reqs : /\ r \in DOMAIN reqs'
                                /\ reqs'[r].introducedBy = reqs[r].introducedBy
      /\ DOMAIN reqs' = DOMAIN reqs \/ OneMore(s)
      /\ s.cmd \in Intents => reqs' = reqs /\ Len(deltas') = Len(deltas) + 1
  BY <1>1, AcceptedTraces
<1>4. WorkRecordedOnce'
  <2>1. CASE DOMAIN reqs' = DOMAIN reqs
    BY <1>3, <2>1 DEF OnceInv, WorkRecordedOnce
  <2>2. CASE OneMore(s)
    <3>1. \A r \in DOMAIN reqs : reqs[r].introducedBy # s.delta
      BY <2>2 DEF OneMore, Timely, TracingRequirements
    <3> QED
      BY <1>3, <2>2, <3>1 DEF OneMore, OnceInv, WorkRecordedOnce
  <2> QED
    BY <1>3, <2>1, <2>2
<1>5. Untraced(s)'
  <2> SUFFICES ASSUME s.cmd \in Intents PROVE TracingRequirements(reqs, Len(deltas))' = {}
    BY DEF Untraced
  <2>1. Len(deltas) \in Nat /\ DOMAIN deltas = 1 .. Len(deltas)
    BY <1>1, Domains
  <2>2. \A r \in DOMAIN reqs : reqs[r].introducedBy \in 1 .. Len(deltas)
    BY <1>1, <2>1 DEF Consistent, ValidTracking, ValidRequirement
  <2>3. \A r \in DOMAIN reqs : reqs[r].introducedBy # Len(deltas) + 1
    BY <2>1, <2>2
  <2> QED
    BY <1>3, <2>3 DEF TracingRequirements
<1>6. \A p \in Response(s)' : Timely(p)'
  BY <1>2, <1>5, NextTimely DEF Recorded, AgentInv
<1> QED
  BY <1>2, <1>4, <1>6 DEF OnceInv, Write

(* Steps that leave the tracking file as it is. *)
LEMMA RestOnce ==
  ASSUME OnceInv, AgentInv', UNCHANGED tracking, \A s \in next' : Timely(s)
  PROVE  OnceInv'
<1>1. UNCHANGED reqs /\ UNCHANGED deltas
  BY DEF tracking
<1> QED
  BY <1>1 DEF OnceInv, WorkRecordedOnce, Timely

LEMMA StepOnce ==
  ASSUME OnceInv, [GNext]_gvars
  PROVE  OnceInv'
<1>1. AgentInv' /\ AgentInv /\ Grounded /\ TypeOK
  BY AgentStep DEF OnceInv, AgentInv, Grounded
<1>2. ASSUME NEW s, Named(s), Timely(s), Write(s) \/ WriteNothing(s) \/ ReadDiff(s)
      PROVE  OnceInv'
  <2>1. CASE Write(s)
    BY <1>2, <2>1, WriteOnce
  <2>2. CASE WriteNothing(s) \/ ReadDiff(s)
    <3>1. UNCHANGED tracking /\ next' \in {NoWriteResponse(s), DiffNext}
      BY <2>2 DEF WriteNothing, ReadDiff, vars
    <3>2. \A p \in next' : Timely(p)
      BY <1>1, <3>1, NoWriteTimely, ReadTimely
    <3> QED
      BY <1>1, <3>1, <3>2, RestOnce
  <2> QED
    BY <1>2, <2>1, <2>2
<1>3. ASSUME NEW s \in next, Write(s) \/ WriteNothing(s) \/ ReadDiff(s)
      PROVE  OnceInv'
  <2>1. Named(s) /\ Timely(s)
    BY DEF OnceInv, AgentInv, ProposalsNamed
  <2> QED
    BY <1>2, <1>3, <2>1
<1>4. CASE ReadContext
  <2>1. UNCHANGED tracking /\ next' = ContextNext
    BY <1>4 DEF ReadContext, vars
  <2> QED
    BY <1>1, <2>1, ReadTimely, RestOnce
<1>5. CASE UNCHANGED <<tracking, agent>>
  <2>1. UNCHANGED tracking /\ next' = next
    BY <1>5 DEF agent
  <2> QED
    BY <1>1, <2>1, RestOnce DEF OnceInv
<1>6. ASSUME NEW intent \in WorkIntents, NEW r \in ActiveReqs \cup {NoReq}, Start(intent, r)
      PROVE  OnceInv'
  <2>1. r \in {NoReq} \cup DOMAIN reqs /\ r \in Nat /\ intent \in Intents
    BY <1>1, IntentsAssumption, Domains DEF ActiveReqs, NoReq
  <2>2. Named(ProposeReq(intent, r)) /\ Timely(ProposeReq(intent, r))
    BY <2>1 DEF Named, Proposal, ProposeReq, Intents, OnDelta, OnRequirement, Timely, Recording
  <2> QED
    BY <1>2, <1>6, <2>2 DEF Start
<1>7. ASSUME NEW d \in InFlight, TryClose(d)
      PROVE  OnceInv'
  <2>1. Named(ProposeDelta("delta close", d))
    BY <1>1, Proposing DEF InFlight, WithStatus
  <2>2. Timely(ProposeDelta("delta close", d))
    BY DEF ProposeDelta, Timely, Recording
  <2> QED
    BY <1>2, <1>7, <2>1, <2>2 DEF TryClose
<1>8. ASSUME \/ WriteSection \/ CommitCode \/ CommitTracking
             \/ (\E r \in ActiveReqs : Reword(r))
             \/ UNCHANGED gvars
      PROVE  UNCHANGED <<tracking, agent>>
  BY <1>8 DEF WriteSection, CommitCode, CommitTracking, Reword, gvars, vars
<1> QED
  BY <1>3, <1>4, <1>5, <1>6, <1>7, <1>8 DEF GNext, Follow, RunProposed, NewSession

LEMMA OnceInvariant == GSpec => []OnceInv
<1>1. GInit => OnceInv
  BY InitAgent DEF GInit, Init, OnceInv, WorkRecordedOnce
<1>2. OnceInv /\ [GNext]_gvars => OnceInv'
  BY StepOnce
<1> QED
  BY <1>1, <1>2, PTL DEF GSpec

(* The work of a delta is recorded once, whatever the agent forgets and     *)
(* however many responses propose it: "req add" and "req replace" are only   *)
(* proposed while nothing was introduced, and a proposal does not outlive the *)
(* write that makes it true.                                                  *)
THEOREM NoWorkIsRepeated == GSpec => []WorkRecordedOnce
<1>1. OnceInv => WorkRecordedOnce
  BY DEF OnceInv
<1> QED
  BY <1>1, OnceInvariant, PTL

-----------------------------------------------------------------------------
(* What an agent leaves true of the file: every file is there, no delta is  *)
(* deferred or withdrawn, and a requirement is stale only while a repair of   *)
(* it is in flight.                                                           *)
Tended ==
  /\ repoFiles = TestFiles \cup SecondaryDocs
  /\ \A d \in DOMAIN deltas : /\ deltas[d].intent \in WorkIntents
                             /\ deltas[d].status \in {"open", "in-progress", "closed"}
  /\ \A r \in DOMAIN reqs : reqs[r].verification = "stale" =>
       \E d \in InFlight : deltas[d].intent = "repair" /\ r \in deltas[d].affects

TendedInv == OnceInv /\ Tended

(* Without a repair in flight no evidence is stale. *)
Steady ==
  /\ repoFiles = TestFiles \cup SecondaryDocs
  /\ \A r \in DOMAIN reqs : reqs[r].verification # "stale"

SteadyInv == OnceInv /\ Steady

LEMMA NoRepairIsSteady ==
  ASSUME TendedInv, \A d \in InFlight : deltas[d].intent # "repair"
  PROVE  SteadyInv
BY DEF TendedInv, Tended, SteadyInv, Steady

(* A candidate that only adds to what is settled: what is no longer active  *)
(* stays, and what stays active loses no evidence.                           *)
Keeps(rs, new) ==
  \A r \in DOMAIN rs :
    /\ r \in DOMAIN new
    /\ new[r].introducedBy = rs[r].introducedBy
    /\ ~IsActive(rs[r]) => new[r].lifecycle = rs[r].lifecycle
    /\ rs[r].verification # "unverified" => new[r].verification # "unverified"
    /\ rs[r].verification = "verified" => new[r].verification = "verified"

(* Such a candidate reopens no closed delta, as long as nothing new is of it. *)
LEMMA ClosureKept ==
  ASSUME NEW ds, NEW rs, NEW cand, NEW new, NEW d,
         DeltaClosureValid(ds, rs, d), ds[d].affects \subseteq DOMAIN rs,
         cand[d].intent = ds[d].intent, cand[d].affects = ds[d].affects,
         Keeps(rs, new),
         \A r \in DOMAIN new \ DOMAIN rs : new[r].introducedBy # d
  PROVE  DeltaClosureValid(cand, new, d)
<1>1. UpdatesResolved(ds, rs, d) /\ BlockingForClosure(ds, rs, d) = {}
  BY DEF DeltaClosureValid
<1>2. TracingRequirements(rs, d) \subseteq TracingRequirements(new, d)
  BY DEF TracingRequirements, Keeps
<1>3. /\ InLifecycle(rs, "superseded") \subseteq InLifecycle(new, "superseded")
      /\ InLifecycle(rs, "withdrawn") \subseteq InLifecycle(new, "withdrawn")
      /\ Assessed(rs) \subseteq Assessed(new)
  BY DEF InLifecycle, Assessed, Keeps, IsActive
<1>4. UpdatesResolved(cand, new, d)
  BY <1>1, <1>2, <1>3 DEF UpdatesResolved
<1>5. BlockingForClosure(cand, new, d) = {}
  <2> SUFFICES ASSUME NEW r \in BlockingForClosure(cand, new, d) PROVE FALSE
    OBVIOUS
  <2>1. /\ r \in DOMAIN new
        /\ r \in ds[d].affects \/ new[r].introducedBy = d
        /\ IsActive(new[r]) /\ new[r].verification # "verified"
    BY DEF BlockingForClosure, TouchedBy
  <2>2. r \in DOMAIN rs
    BY <2>1
  <2>3. IsActive(rs[r]) /\ rs[r].verification # "verified" /\ new[r].introducedBy = rs[r].introducedBy
    BY <2>1, <2>2 DEF Keeps, IsActive
  <2>4. r \in BlockingForClosure(ds, rs, d)
    BY <2>1, <2>2, <2>3 DEF BlockingForClosure, TouchedBy
  <2> QED
    BY <1>1, <2>4
<1> QED
  BY <1>4, <1>5 DEF DeltaClosureValid

LEMMA SteadyFacts ==
  ASSUME SteadyInv
  PROVE  /\ TypeOK /\ ValidTracking(deltas, reqs) /\ StoredStatusCurrent
         /\ secondary \subseteq repoFiles /\ TestFiles \subseteq repoFiles
         /\ Loadable
<1>1. TypeOK /\ ValidTracking(deltas, reqs) /\ StoredStatusCurrent
  BY DEF SteadyInv, OnceInv, AgentInv, Grounded, Consistent
<1>2. secondary \subseteq repoFiles /\ TestFiles \subseteq repoFiles
  BY <1>1 DEF TypeOK, SteadyInv, Steady
<1>3. \A r \in DOMAIN reqs : reqs[r].files \subseteq TestFiles
  BY <1>1, Domains DEF Requirement
<1> QED
  BY <1>1, <1>2, <1>3 DEF Loadable, FilesExist

LEMMA RangeCardinality ==
  ASSUME NEW n \in Nat
  PROVE  IsFiniteSet(1 .. n) /\ Cardinality(1 .. n) = n
<1>1. 1 \in Int /\ n \in Int
  OBVIOUS
<1>2. /\ IsFiniteSet(1 .. n)
      /\ Cardinality(1 .. n) = IF 1 > n THEN 0 ELSE n - 1 + 1
  BY <1>1, FS_Interval
<1> QED
  BY <1>2

(* A delta with nothing recorded has room for its requirement: each of the   *)
(* others introduced at most one.                                             *)
LEMMA RoomForOne ==
  ASSUME SteadyInv, MaxDeltas <= MaxRequirements,
         NEW d \in DOMAIN deltas, TracingRequirements(reqs, d) = {}
  PROVE  Len(reqs) + 1 <= MaxRequirements
<1>1. /\ Len(deltas) \in Nat /\ DOMAIN deltas = 1 .. Len(deltas) /\ Len(deltas) <= MaxDeltas
      /\ Len(reqs) \in Nat /\ DOMAIN reqs = 1 .. Len(reqs)
  BY SteadyFacts, Domains DEF ValidTracking
<1>2. PICK f : f = [r \in DOMAIN reqs |-> reqs[r].introducedBy]
  OBVIOUS
<1>3. PICK others : others = DOMAIN deltas \ {d}
  OBVIOUS
<1>4. \A r \in DOMAIN reqs : reqs[r].introducedBy \in others
  BY <1>3, SteadyFacts DEF ValidTracking, ValidRequirement, TracingRequirements
<1>5. f \in Injection(DOMAIN reqs, others)
  <2>1. f \in [DOMAIN reqs -> others]
    BY <1>2, <1>4
  <2>2. \A r1, r2 \in DOMAIN reqs : f[r1] = f[r2] => r1 = r2
    BY <1>2 DEF SteadyInv, OnceInv, WorkRecordedOnce
  <2> QED
    BY <2>1, <2>2 DEF Injection, IsInjective
<1>6. IsFiniteSet(DOMAIN deltas) /\ Cardinality(DOMAIN deltas) = Len(deltas)
  BY <1>1, RangeCardinality
<1>7. IsFiniteSet(others) /\ Cardinality(others) = Len(deltas) - 1
  BY <1>3, <1>6, FS_RemoveElement
<1>8. Cardinality(DOMAIN reqs) <= Cardinality(others)
  BY <1>5, <1>7, FS_Injection
<1>9. Cardinality(DOMAIN reqs) = Len(reqs)
  BY <1>1, RangeCardinality
<1> QED
  BY <1>1, <1>7, <1>8, <1>9, LimitsAssumption

LEMMA CandidateSavable ==
  ASSUME SteadyInv, NEW cand, NEW new,
         DOMAIN cand = DOMAIN deltas, Len(cand) <= MaxDeltas, Len(new) <= MaxRequirements,
         \A d \in DOMAIN cand : cand[d].affects \subseteq DOMAIN new,
         \A d \in DOMAIN cand : cand[d].status = "closed" =>
           /\ DeltaClosureValid(deltas, reqs, d)
           /\ cand[d].intent = deltas[d].intent /\ cand[d].affects = deltas[d].affects
           /\ \A r \in DOMAIN new \ DOMAIN reqs : new[r].introducedBy # d,
         Keeps(reqs, new),
         \A r \in DOMAIN new : ValidRequirement(deltas, new[r]) /\ new[r].files \subseteq TestFiles
  PROVE  Savable(cand, new)
<1>1. \A d \in DOMAIN deltas : deltas[d].affects \subseteq DOMAIN reqs
  BY SteadyFacts DEF ValidTracking
<1>2. \A d \in DOMAIN cand : cand[d].status = "closed" => DeltaClosureValid(cand, new, d)
  BY <1>1, ClosureKept
<1>3. \A r \in DOMAIN new : ValidRequirement(cand, new[r])
  BY DEF ValidRequirement
<1>4. ValidTracking(cand, new)
  BY <1>2, <1>3 DEF ValidTracking
<1>5. FilesExist(new, secondary)
  BY SteadyFacts DEF FilesExist
<1> QED
  BY <1>4, <1>5, SteadyFacts DEF Savable

(* The facts about the file itself that the lemma asks for. *)
LEMMA FileFacts ==
  ASSUME SteadyInv
  PROVE  /\ reqs \in Seq(Requirement) /\ Len(deltas) <= MaxDeltas /\ Len(reqs) <= MaxRequirements
         /\ \A d \in DOMAIN deltas :
              /\ deltas[d].affects \subseteq DOMAIN reqs
              /\ deltas[d].status = "closed" => DeltaClosureValid(deltas, reqs, d)
         /\ \A r \in DOMAIN reqs : /\ reqs[r] \in Requirement
                                   /\ ValidRequirement(deltas, reqs[r])
                                   /\ reqs[r].files \subseteq TestFiles
                                   /\ reqs[r].verification \in {"verified", "unverified"}
<1>1. TypeOK /\ ValidTracking(deltas, reqs)
  BY SteadyFacts
<1>2. \A r \in DOMAIN reqs : reqs[r] \in Requirement
  BY <1>1, Domains
<1>3. \A r \in DOMAIN reqs : reqs[r].verification # "stale"
  BY DEF SteadyInv, Steady
<1> QED
  BY <1>1, <1>2, <1>3 DEF TypeOK, ValidTracking, Requirement, Verifications

(* One requirement rewritten. *)
LEMMA ChangeSavable ==
  ASSUME SteadyInv, NEW r \in ActiveReqs, NEW e \in Requirement,
         ValidRequirement(deltas, e), e.introducedBy = reqs[r].introducedBy,
         e.verification = reqs[r].verification \/ e.verification = "verified"
  PROVE  Savable(deltas, [reqs EXCEPT ![r] = e])
<1>1. r \in DOMAIN reqs /\ IsActive(reqs[r])
  BY DEF ActiveReqs
<1>2. PICK new : new = [reqs EXCEPT ![r] = e]
  OBVIOUS
<1>3. /\ new \in Seq(Requirement) /\ DOMAIN new = DOMAIN reqs /\ new[r] = e
      /\ \A i \in DOMAIN reqs : i # r => new[i] = reqs[i]
  BY <1>1, <1>2, FileFacts, UpdatedSeq
<1>4. Len(new) = Len(reqs)
  BY <1>1, <1>2, FileFacts, ExceptSeq
<1>5. Keeps(reqs, new)
  BY <1>1, <1>3 DEF Keeps
<1>6. \A i \in DOMAIN new : ValidRequirement(deltas, new[i]) /\ new[i].files \subseteq TestFiles
  BY <1>1, <1>3, FileFacts DEF Requirement
<1>7. Savable(deltas, new)
  BY <1>3, <1>4, <1>5, <1>6, FileFacts, CandidateSavable
<1> QED
  BY <1>2, <1>7

LEMMA SameRange ==
  ASSUME NEW n \in Nat, NEW m \in Nat, 1 .. n = 1 .. m
  PROVE  n = m
<1>1. Cardinality(1 .. n) = n /\ Cardinality(1 .. m) = m
  BY RangeCardinality
<1> QED
  BY <1>1

(* One requirement added for a delta that has none. *)
LEMMA Appended ==
  ASSUME SteadyInv, MaxDeltas <= MaxRequirements, NEW mid \in Seq(Requirement),
         DOMAIN mid = DOMAIN reqs, Keeps(reqs, mid), NEW e \in Requirement,
         NEW d \in DOMAIN deltas, TracingRequirements(reqs, d) = {}, e.introducedBy = d
  PROVE  /\ Len(Append(mid, e)) <= MaxRequirements
         /\ DOMAIN Append(mid, e) = DOMAIN reqs \cup {Len(reqs) + 1}
         /\ Len(reqs) + 1 \notin DOMAIN reqs
         /\ Append(mid, e)[Len(reqs) + 1] = e
         /\ \A r \in DOMAIN reqs : Append(mid, e)[r] = mid[r]
         /\ Keeps(reqs, Append(mid, e))
<1>1. /\ Len(mid) \in Nat /\ DOMAIN mid = 1 .. Len(mid)
      /\ Len(reqs) \in Nat /\ DOMAIN reqs = 1 .. Len(reqs)
  BY FileFacts, DomainOfSeq
<1>2. Len(mid) = Len(reqs)
  BY <1>1, SameRange
<1>3. PICK new : new = Append(mid, e)
  OBVIOUS
<1>4. /\ Len(new) = Len(reqs) + 1
      /\ DOMAIN new = DOMAIN reqs \cup {Len(reqs) + 1}
      /\ Len(reqs) + 1 \notin DOMAIN reqs
      /\ new[Len(reqs) + 1] = e
      /\ \A r \in DOMAIN reqs : new[r] = mid[r]
  BY <1>2, <1>3, ExtendedSeq, AppendProperties
<1>5. Keeps(reqs, new)
  BY <1>4 DEF Keeps
<1>6. Len(new) <= MaxRequirements
  BY <1>4, RoomForOne
<1> QED
  BY <1>3, <1>4, <1>5, <1>6

(* The commands. *)

UnrecordedWork(intent, d) ==
  d \in DOMAIN deltas /\ deltas[d].intent = intent /\ TracingRequirements(reqs, d) = {}

LEMMA OpenWhileUnrecorded ==
  ASSUME SteadyInv, NEW intent \in {"add", "change"}, NEW d, UnrecordedWork(intent, d)
  PROVE  ~UpdatesResolved(deltas, reqs, d) /\ deltas[d].status # "closed"
<1>1. ~UpdatesResolved(deltas, reqs, d)
  BY DEF UnrecordedWork, UpdatesResolved
<1> QED
  BY <1>1, FileFacts DEF UnrecordedWork, DeltaClosureValid

LEMMA AddAccepted ==
  ASSUME SteadyInv, MaxDeltas <= MaxRequirements, NEW d, UnrecordedWork("add", d), NEW b \in Blocks
  PROVE  MayAdd(d, b)
<1>1. d \in DOMAIN deltas /\ d \in Nat /\ TracingRequirements(reqs, d) = {}
  BY SteadyFacts, Domains DEF UnrecordedWork
<1>2. PICK e : e = NewRequirement(b, d)
  OBVIOUS
<1>3. /\ e \in Requirement /\ e.introducedBy = d /\ e.files = {}
      /\ e.lifecycle = "active" /\ e.verification = "unverified"
  BY <1>1, <1>2 DEF NewRequirement, Requirement, Lifecycles, Verifications, NoReq
<1>4. Keeps(reqs, reqs)
  BY DEF Keeps
<1>5. PICK new : new = Append(reqs, e)
  OBVIOUS
<1>6. /\ Len(new) <= MaxRequirements
      /\ DOMAIN new = DOMAIN reqs \cup {Len(reqs) + 1}
      /\ new[Len(reqs) + 1] = e
      /\ \A r \in DOMAIN reqs : new[r] = reqs[r]
      /\ Keeps(reqs, new)
  BY <1>1, <1>3, <1>4, <1>5, FileFacts, Appended
<1>7. \A r \in DOMAIN new : ValidRequirement(deltas, new[r]) /\ new[r].files \subseteq TestFiles
  <2>1. ValidRequirement(deltas, e) /\ e.files \subseteq TestFiles
    BY <1>1, <1>3 DEF ValidRequirement
  <2> QED
    BY <1>6, <2>1, FileFacts
<1>8. \A i \in DOMAIN deltas : /\ deltas[i].affects \subseteq DOMAIN new
                               /\ deltas[i].status = "closed" => i # d
  BY <1>6, FileFacts, OpenWhileUnrecorded
<1>9. Savable(deltas, new)
  BY <1>3, <1>6, <1>7, <1>8, FileFacts, CandidateSavable
<1> QED
  BY <1>2, <1>5, <1>9 DEF MayAdd, DeltaAllows, AllowedUpdate, UnrecordedWork
LEMMA ReplaceAccepted ==
  ASSUME SteadyInv, MaxDeltas <= MaxRequirements, NEW d, UnrecordedWork("change", d),
         NEW r \in ActiveReqs \cap deltas[d].affects, NEW b \in Blocks
  PROVE  MayReplace(d, r, b)
<1>1. /\ d \in DOMAIN deltas /\ TracingRequirements(reqs, d) = {}
      /\ r \in DOMAIN reqs /\ IsActive(reqs[r]) /\ TypeOK
  BY SteadyFacts DEF UnrecordedWork, ActiveReqs
<1>2. PICK e, old : e = Successor(r, b, d) /\ old = Superseded(r)
  OBVIOUS
<1>3. PICK mid : mid = [reqs EXCEPT ![r] = old]
  OBVIOUS
<1>4. e \in Requirement /\ old \in Requirement /\ mid \in Seq(Requirement) /\ Len(reqs) + 1 \in Nat
  BY <1>1, <1>2, <1>3, ReplacementTyped
<1>5. /\ e.introducedBy = d /\ e.files = {}
      /\ e.lifecycle = "active" /\ e.verification = "unverified"
  BY <1>2 DEF Successor, NewRequirement
<1>6. /\ old.introducedBy = reqs[r].introducedBy /\ old.lifecycle = "superseded"
      /\ old.verification = reqs[r].verification /\ old.files = reqs[r].files
  BY <1>1, <1>2, FileFacts DEF Superseded, Requirement
<1>7. /\ DOMAIN mid = DOMAIN reqs /\ mid[r] = old
      /\ \A i \in DOMAIN reqs : i # r => mid[i] = reqs[i]
  BY <1>1, <1>3, <1>4, FileFacts, UpdatedSeq
<1>8. Keeps(reqs, mid)
  BY <1>1, <1>6, <1>7 DEF Keeps
<1>9. PICK new : new = Append(mid, e)
  OBVIOUS
<1>10. /\ Len(new) <= MaxRequirements
       /\ DOMAIN new = DOMAIN reqs \cup {Len(reqs) + 1}
       /\ new[Len(reqs) + 1] = e
       /\ \A i \in DOMAIN reqs : new[i] = mid[i]
       /\ Keeps(reqs, new)
  BY <1>1, <1>4, <1>5, <1>7, <1>8, <1>9, Appended
<1>11. \A i \in DOMAIN new : ValidRequirement(deltas, new[i]) /\ new[i].files \subseteq TestFiles
  <2>1. ValidRequirement(deltas, e) /\ e.files \subseteq TestFiles
    BY <1>1, <1>5 DEF ValidRequirement
  <2>2. ValidRequirement(deltas, old) /\ old.files \subseteq TestFiles
    BY <1>1, <1>6, FileFacts DEF ValidRequirement
  <2> QED
    BY <1>7, <1>10, <2>1, <2>2, FileFacts
<1>12. PICK cand : cand = AutoRebind(d, r, Len(reqs) + 1)
  OBVIOUS
<1>13. cand \in Seq(Delta) /\ DOMAIN cand = DOMAIN deltas
  BY <1>1, <1>4, <1>12, AutoRebindTyped
<1>14. Len(cand) <= MaxDeltas
  <2>1. /\ Len(cand) \in Nat /\ DOMAIN cand = 1 .. Len(cand)
        /\ Len(deltas) \in Nat /\ DOMAIN deltas = 1 .. Len(deltas)
    BY <1>1, <1>13, DomainOfSeq, Domains
  <2>2. Len(cand) = Len(deltas)
    BY <1>13, <2>1, SameRange
  <2> QED
    BY <2>2, FileFacts
<1>15. \A i \in DOMAIN deltas :
         /\ cand[i].affects \subseteq deltas[i].affects \cup {Len(reqs) + 1}
         /\ cand[i].status = deltas[i].status
         /\ deltas[i].status = "closed" => cand[i] = deltas[i] /\ i # d
  <2> SUFFICES ASSUME NEW i \in DOMAIN deltas
               PROVE  /\ cand[i].affects \subseteq deltas[i].affects \cup {Len(reqs) + 1}
                      /\ cand[i].status = deltas[i].status
                      /\ deltas[i].status = "closed" => cand[i] = deltas[i] /\ i # d
    OBVIOUS
  <2>1. i # d \/ deltas[i].status # "closed"
    BY OpenWhileUnrecorded
  <2>2. deltas[i] \in Delta
    BY <1>1, Domains
  <2>3. CASE cand[i] = deltas[i]
    BY <2>1, <2>3
  <2>4. CASE /\ deltas[i].status \in Unsettled
             /\ cand[i] = [deltas[i] EXCEPT !.affects = (@ \ {r}) \cup {Len(reqs) + 1}]
    BY <2>2, <2>4 DEF Delta, Unsettled
  <2> QED
    BY <1>12, <2>3, <2>4 DEF AutoRebind
<1>16. Savable(cand, new)
  <2>1. \A i \in DOMAIN cand : cand[i].affects \subseteq DOMAIN new
    BY <1>10, <1>13, <1>15, FileFacts
  <2>2. \A i \in DOMAIN cand : cand[i].status = "closed" =>
          /\ DeltaClosureValid(deltas, reqs, i)
          /\ cand[i].intent = deltas[i].intent /\ cand[i].affects = deltas[i].affects
          /\ \A n \in DOMAIN new \ DOMAIN reqs : new[n].introducedBy # i
    BY <1>5, <1>10, <1>13, <1>15, FileFacts
  <2> QED
    BY <1>10, <1>11, <1>13, <1>14, <2>1, <2>2, CandidateSavable
<1> QED
  BY <1>2, <1>3, <1>9, <1>12, <1>16
     DEF MayReplace, DeltaAllows, AllowedUpdate, UnrecordedWork, Successor, Superseded

LEMMA WithdrawAccepted ==
  ASSUME SteadyInv, NEW d \in DOMAIN deltas, deltas[d].intent = "remove", NEW r \in ActiveReqs
  PROVE  MayWithdraw(d, r)
<1>1. r \in DOMAIN reqs /\ IsActive(reqs[r])
  BY DEF ActiveReqs
<1>2. PICK e : e = [reqs[r] EXCEPT !.lifecycle = "withdrawn"]
  OBVIOUS
<1>3. /\ e \in Requirement /\ e.introducedBy = reqs[r].introducedBy
      /\ e.verification = reqs[r].verification /\ e.files = reqs[r].files
      /\ e.lifecycle = "withdrawn" /\ e.block = reqs[r].block
  BY <1>1, <1>2, FileFacts DEF Requirement, Lifecycles
<1>4. ValidRequirement(deltas, e)
  BY <1>1, <1>3, FileFacts DEF ValidRequirement, IsActive, IsManual
<1>5. Savable(deltas, [reqs EXCEPT ![r] = e])
  BY <1>3, <1>4, ChangeSavable
<1>6. [reqs EXCEPT ![r] = e] = [reqs EXCEPT ![r].lifecycle = "withdrawn"]
  BY <1>2
<1> QED
  BY <1>5, <1>6 DEF MayWithdraw, DeltaAllows, AllowedUpdate

LEMMA VerifyAccepted ==
  ASSUME SteadyInv, TestFiles # {}, MatchBlocking = {},
         NEW r \in ActiveReqs, reqs[r].verification = "unverified"
  PROVE  MayVerify(r, TestFiles)
<1>1. r \in DOMAIN reqs
  BY DEF ActiveReqs
<1>2. PICK e : e = [reqs[r] EXCEPT !.verification = "verified", !.files = @ \cup TestFiles]
  OBVIOUS
<1>3. /\ e \in Requirement /\ e.introducedBy = reqs[r].introducedBy
      /\ e.verification = "verified" /\ e.files = reqs[r].files \cup TestFiles
  BY <1>1, <1>2, FileFacts DEF Requirement, Verifications
<1>4. ValidRequirement(deltas, e)
  BY <1>1, <1>3, FileFacts DEF ValidRequirement
<1>5. Savable(deltas, [reqs EXCEPT ![r] = e])
  BY <1>3, <1>4, ChangeSavable
<1>6. e # reqs[r] /\ TestFiles \subseteq repoFiles
  BY <1>3, SteadyFacts
<1> QED
  BY <1>2, <1>5, <1>6 DEF MayVerify

LEMMA CloseAccepted ==
  ASSUME SteadyInv, MatchBlocking = {}, NEW d \in InFlight, DeltaClosureValid(deltas, reqs, d)
  PROVE  MayClose(d)
<1>1. d \in DOMAIN deltas /\ TypeOK
  BY SteadyFacts DEF InFlight, WithStatus
<1>2. PICK e : e = [deltas[d] EXCEPT !.status = "closed"]
  OBVIOUS
<1>3. e \in Delta /\ e.intent = deltas[d].intent /\ e.affects = deltas[d].affects
  BY <1>1, <1>2, Domains DEF Delta, DeltaStatuses
<1>4. PICK cand : cand = [deltas EXCEPT ![d] = e]
  OBVIOUS
<1>5. /\ DOMAIN cand = DOMAIN deltas /\ cand[d] = e
      /\ \A i \in DOMAIN deltas : i # d => cand[i] = deltas[i]
  BY <1>1, <1>4
<1>6. Len(cand) = Len(deltas)
  BY <1>1, <1>3, <1>4, ExceptSeq DEF TypeOK
<1>7. Keeps(reqs, reqs)
  BY DEF Keeps
<1>8. Savable(cand, reqs)
  BY <1>3, <1>5, <1>6, <1>7, FileFacts, CandidateSavable
<1>9. cand = [deltas EXCEPT ![d].status = "closed"]
  BY <1>2, <1>4
<1> QED
  BY <1>8, <1>9 DEF MayClose

LEMMA BumpAccepted ==
  ASSUME SteadyInv, MatchBlocking = {}, status = "verified", UnbumpedClosed
  PROVE  MayBump
<1>1. Savable(deltas, reqs)
  BY SteadyFacts DEF Savable, Loadable
<1>2. NextEntry.closed # {}
  BY DEF NextEntry, UnbumpedClosed
<1> QED
  BY <1>1, <1>2 DEF MayBump

(* Deltas that stay as they are, or more of them, and requirements that are *)
(* stale only if they were or if a repair in flight marks them.               *)
LEMMA GrowthTended ==
  ASSUME TendedInv, UNCHANGED repoFiles,
         \A d \in DOMAIN deltas : d \in DOMAIN deltas' /\ deltas'[d] = deltas[d],
         \A d \in DOMAIN deltas' \ DOMAIN deltas :
           deltas'[d].intent \in WorkIntents /\ deltas'[d].status = "open",
         \A r \in DOMAIN reqs' : reqs'[r].verification = "stale" =>
           \/ r \in DOMAIN reqs /\ reqs[r].verification = "stale"
           \/ \E d \in InFlight : deltas[d].intent = "repair" /\ r \in deltas[d].affects
  PROVE  Tended'
<1>1. InFlight \subseteq DOMAIN deltas /\ InFlight \subseteq InFlight'
  BY DEF InFlight, WithStatus
<1>2. \A r \in DOMAIN reqs' : reqs'[r].verification = "stale" =>
        \E d \in InFlight : deltas[d].intent = "repair" /\ r \in deltas[d].affects
  BY DEF TendedInv, Tended
<1>3. \A r \in DOMAIN reqs' : reqs'[r].verification = "stale" =>
        \E d \in InFlight' : deltas'[d].intent = "repair" /\ r \in deltas'[d].affects
  BY <1>1, <1>2
<1> QED
  BY <1>3 DEF TendedInv, Tended

(* One requirement rewritten, and not made stale. *)
LEMMA RewriteTended ==
  ASSUME TendedInv, UNCHANGED repoFiles, UNCHANGED deltas, NEW r \in DOMAIN reqs, NEW e,
         e.verification = reqs[r].verification \/ e.verification = "verified",
         reqs' = [reqs EXCEPT ![r] = e]
  PROVE  Tended'
<1>1. DOMAIN reqs' = DOMAIN reqs /\ reqs'[r] = e /\ \A i \in DOMAIN reqs : i # r => reqs'[i] = reqs[i]
  OBVIOUS
<1>2. \A i \in DOMAIN reqs' : reqs'[i].verification = "stale" =>
        i \in DOMAIN reqs /\ reqs[i].verification = "stale"
  BY <1>1
<1> QED
  BY <1>2, GrowthTended

(* "req stale" names a delta that is not closed: the validation of the      *)
(* candidate would find it reopened.                                          *)
LEMMA StaleTended ==
  ASSUME TendedInv, OnceInv', UNCHANGED repoFiles, NEW d \in DOMAIN deltas, NEW r,
         r \in deltas[d].affects, StaleRequirement(d, r)
  PROVE  Tended'
<1>1. /\ r \in DOMAIN reqs /\ IsActive(reqs[r]) /\ deltas' = deltas
      /\ reqs' = [reqs EXCEPT ![r].verification = "stale"]
      /\ AllowedUpdate(deltas[d].intent) = "stale_requirement"
  BY DEF StaleRequirement, DeltaAllows, SaveRequirements, Save, ActiveReqs
<1>2. deltas[d].intent = "repair"
  BY <1>1 DEF AllowedUpdate
<1>3. PICK e : e = [reqs[r] EXCEPT !.verification = "stale"]
  OBVIOUS
<1>4. reqs[r] \in Requirement
  BY <1>1, Domains DEF TendedInv, OnceInv, AgentInv, Grounded
<1>5. e.verification = "stale" /\ IsActive(e)
  BY <1>1, <1>3, <1>4 DEF Requirement, IsActive
<1>6. DOMAIN reqs' = DOMAIN reqs /\ reqs'[r] = e /\ \A i \in DOMAIN reqs : i # r => reqs'[i] = reqs[i]
  BY <1>1, <1>3
<1>7. d \in InFlight
  <2>1. r \in BlockingForClosure(deltas', reqs', d)
    BY <1>1, <1>5, <1>6 DEF BlockingForClosure, TouchedBy
  <2>2. ValidTracking(deltas', reqs')
    BY DEF OnceInv, AgentInv, Grounded, Consistent
  <2>3. deltas[d].status # "closed"
    BY <1>1, <2>1, <2>2 DEF ValidTracking, DeltaClosureValid
  <2> QED
    BY <2>3 DEF TendedInv, Tended, InFlight, WithStatus
<1>8. \A i \in DOMAIN reqs' : reqs'[i].verification = "stale" =>
        \/ i \in DOMAIN reqs /\ reqs[i].verification = "stale"
        \/ \E c \in InFlight : deltas[c].intent = "repair" /\ i \in deltas[c].affects
  BY <1>2, <1>6, <1>7
<1> QED
  BY <1>1, <1>8, GrowthTended

(* A repair is closed when its requirements are proven again. *)
LEMMA CloseTended ==
  ASSUME TendedInv, UNCHANGED repoFiles, NEW d \in DOMAIN deltas, CloseDelta(d)
  PROVE  Tended'
<1>1. TypeOK /\ ValidTracking(deltas, reqs)
  BY DEF TendedInv, OnceInv, AgentInv, Grounded, Consistent
<1>2. PICK e : e = [deltas[d] EXCEPT !.status = "closed"]
  OBVIOUS
<1>3. /\ BlockingForClosure(deltas, reqs, d) = {} /\ reqs' = reqs
      /\ deltas' = [deltas EXCEPT ![d] = e]
  BY <1>2 DEF CloseDelta, Transition, SaveDeltas, Save
<1>4. deltas[d] \in Delta
  BY <1>1, Domains
<1>5. e.status = "closed" /\ e.intent = deltas[d].intent /\ e.affects = deltas[d].affects
  BY <1>2, <1>4 DEF Delta
<1>6. DOMAIN deltas' = DOMAIN deltas /\ deltas'[d] = e /\ \A i \in DOMAIN deltas : i # d => deltas'[i] = deltas[i]
  BY <1>3
<1>7. InFlight \ {d} \subseteq InFlight'
  BY <1>6 DEF InFlight, WithStatus
<1>8. ASSUME NEW r \in DOMAIN reqs, reqs[r].verification = "stale"
      PROVE  \E c \in InFlight' : deltas'[c].intent = "repair" /\ r \in deltas'[c].affects
  <2>1. PICK c \in InFlight : deltas[c].intent = "repair" /\ r \in deltas[c].affects
    BY <1>8 DEF TendedInv, Tended
  <2>2. IsActive(reqs[r])
    BY <1>1, <1>8 DEF ValidTracking, ValidRequirement
  <2>3. c # d
    BY <1>3, <1>8, <2>1, <2>2 DEF BlockingForClosure, TouchedBy
  <2>4. c \in InFlight' /\ c \in DOMAIN deltas
    BY <1>7, <2>3 DEF InFlight, WithStatus
  <2> QED
    BY <1>6, <2>1, <2>3, <2>4
<1>9. \A i \in DOMAIN deltas' : /\ deltas'[i].intent \in WorkIntents
                                /\ deltas'[i].status \in {"open", "in-progress", "closed"}
  BY <1>5, <1>6 DEF TendedInv, Tended
<1> QED
  BY <1>3, <1>8, <1>9 DEF TendedInv, Tended

(* A requirement is not replaced while it is stale, and the repairs of the  *)
(* others are not rebound.                                                    *)
LEMMA ReplaceTended ==
  ASSUME TendedInv, OnceInv', UNCHANGED repoFiles, NEW d \in DOMAIN deltas, NEW r, NEW b \in Blocks,
         ReplaceRequirement(d, r, b)
  PROVE  Tended'
<1>1. TypeOK /\ ValidTracking(deltas', reqs')
  BY DEF TendedInv, OnceInv, AgentInv, Grounded, Consistent
<1>2. r \in ActiveReqs /\ r \in DOMAIN reqs
  BY DEF ReplaceRequirement, ActiveReqs
<1>3. /\ reqs' = Append([reqs EXCEPT ![r] = Superseded(r)], Successor(r, b, d))
      /\ deltas' = AutoRebind(d, r, Len(reqs) + 1)
  BY DEF ReplaceRequirement, SaveRequirements, Save, Superseded, Successor
<1>4. /\ DOMAIN reqs' = DOMAIN reqs \cup {Len(reqs) + 1}
      /\ reqs'[r] = Superseded(r) /\ reqs'[Len(reqs) + 1] = Successor(r, b, d)
      /\ \A i \in DOMAIN reqs : i # r => reqs'[i] = reqs[i]
  BY <1>1, <1>2, <1>3, ReplacedSeq
<1>5. reqs'[Len(reqs) + 1].verification = "unverified"
  BY <1>4 DEF Successor, NewRequirement
<1>6. reqs'[r].verification # "stale"
  <2>1. reqs[r] \in Requirement
    BY <1>1, <1>2, Domains
  <2>2. ~IsActive(reqs'[r])
    BY <1>4, <2>1 DEF Superseded, Requirement, IsActive
  <2> QED
    BY <1>1, <1>2, <1>4, <2>2 DEF ValidTracking, ValidRequirement
<1>7. DOMAIN deltas' = DOMAIN deltas
  BY <1>3 DEF AutoRebind
<1>8. \A i \in DOMAIN deltas :
        /\ deltas'[i].intent = deltas[i].intent /\ deltas'[i].status = deltas[i].status
        /\ deltas[i].affects \ {r} \subseteq deltas'[i].affects
  <2> SUFFICES ASSUME NEW i \in DOMAIN deltas
               PROVE  /\ deltas'[i].intent = deltas[i].intent
                      /\ deltas'[i].status = deltas[i].status
                      /\ deltas[i].affects \ {r} \subseteq deltas'[i].affects
    OBVIOUS
  <2>1. deltas[i] \in Delta
    BY <1>1, Domains
  <2>2. \/ deltas'[i] = deltas[i]
        \/ deltas'[i] = [deltas[i] EXCEPT !.affects = (@ \ {r}) \cup {Len(reqs) + 1}]
    BY <1>3 DEF AutoRebind
  <2> QED
    BY <2>1, <2>2 DEF Delta
<1>9. InFlight \subseteq DOMAIN deltas /\ InFlight \subseteq InFlight'
  BY <1>7, <1>8 DEF InFlight, WithStatus
<1>10. ASSUME NEW i \in DOMAIN reqs', reqs'[i].verification = "stale"
       PROVE  \E c \in InFlight' : deltas'[c].intent = "repair" /\ i \in deltas'[c].affects
  <2>1. i \in DOMAIN reqs /\ i # r /\ reqs[i].verification = "stale"
    BY <1>4, <1>5, <1>6, <1>10
  <2>2. PICK c \in InFlight : deltas[c].intent = "repair" /\ i \in deltas[c].affects
    BY <2>1 DEF TendedInv, Tended
  <2> QED
    BY <1>8, <1>9, <2>1, <2>2
<1>11. \A i \in DOMAIN deltas' : /\ deltas'[i].intent \in WorkIntents
                                 /\ deltas'[i].status \in {"open", "in-progress", "closed"}
  BY <1>7, <1>8 DEF TendedInv, Tended
<1> QED
  BY <1>10, <1>11 DEF TendedInv, Tended

LEMMA AcceptedTended ==
  ASSUME TendedInv, OnceInv', NEW s, Named(s), Timely(s), Accept(s)
  PROVE  Tended'
<1>1. TypeOK /\ Grounded /\ doc \subseteq Blocks
  BY DEF TendedInv, OnceInv, AgentInv, Grounded, TypeOK
<1>2. UNCHANGED repoFiles
  BY <1>1, AcceptedIsCommand DEF Recorded, world
<1>3. \A r \in DOMAIN reqs : reqs[r] \in Requirement
  BY <1>1, Domains
<1>4. CASE s.cmd \in WorkIntents /\ AddDelta(s.cmd, IF s.req = NoReq THEN {} ELSE {s.req})
  <2>1. PICK affected : AddDelta(s.cmd, affected) /\ affected \subseteq DOMAIN reqs
    BY <1>4 DEF AddDelta, ActiveReqs
  <2>2. PICK e : e = NewDelta(s.cmd, affected)
    OBVIOUS
  <2>3. e \in Delta /\ e.intent = s.cmd /\ e.status = "open"
    BY <1>1, <1>4, <2>1, <2>2, Domains, IntentsAssumption DEF NewDelta, Delta, DeltaStatuses
  <2>4. reqs' = reqs /\ deltas' = Append(deltas, e)
    BY <2>1, <2>2 DEF AddDelta, SaveDeltas, Save
  <2>5. deltas \in Seq(Delta)
    BY <1>1 DEF TypeOK
  <2>6. /\ DOMAIN deltas' = DOMAIN deltas \cup {Len(deltas) + 1} /\ deltas'[Len(deltas) + 1] = e
        /\ \A d \in DOMAIN deltas : deltas'[d] = deltas[d]
    BY <2>3, <2>4, <2>5, ExtendedSeq
  <2> QED
    BY <1>2, <1>4, <2>3, <2>4, <2>6, GrowthTended
<1>5. CASE s.cmd = "req add" /\ \E b \in doc \ Registered : AddRequirement(s.delta, b)
  <2>1. PICK b \in Blocks : AddRequirement(s.delta, b)
    BY <1>1, <1>5
  <2>2. PICK e : e = NewRequirement(b, s.delta)
    OBVIOUS
  <2>3. s.delta \in Nat /\ deltas' = deltas /\ reqs' = Append(reqs, e)
    BY <1>1, <1>5, <2>1, <2>2, Domains DEF Named, OnDelta, AddRequirement, SaveRequirements, Save
  <2>4. e.verification = "unverified"
    BY <2>2 DEF NewRequirement
  <2>5. reqs \in Seq(Requirement) /\ e \in Requirement
    BY <1>1, <2>2, <2>3 DEF TypeOK, NewRequirement, Requirement, Lifecycles, Verifications, NoReq
  <2>6. /\ DOMAIN reqs' = DOMAIN reqs \cup {Len(reqs) + 1} /\ reqs'[Len(reqs) + 1] = e
        /\ \A r \in DOMAIN reqs : reqs'[r] = reqs[r]
    BY <2>3, <2>5, ExtendedSeq
  <2>7. \A r \in DOMAIN reqs' : reqs'[r].verification = "stale" =>
          r \in DOMAIN reqs /\ reqs[r].verification = "stale"
    BY <2>4, <2>6
  <2> QED
    BY <1>2, <2>3, <2>7, GrowthTended
<1>6. CASE s.cmd = "req replace" /\ \E b \in doc \ Registered : ReplaceRequirement(s.delta, s.req, b)
  <2>1. PICK b \in Blocks : ReplaceRequirement(s.delta, s.req, b)
    BY <1>1, <1>6
  <2>2. s.delta \in DOMAIN deltas
    BY <1>6 DEF Named, OnDelta
  <2> QED
    BY <1>2, <2>1, <2>2, ReplaceTended
<1>7. CASE s.cmd = "req withdraw" /\ WithdrawRequirement(s.delta, s.req)
  <2>1. PICK e : e = [reqs[s.req] EXCEPT !.lifecycle = "withdrawn"]
    OBVIOUS
  <2>2. s.req \in DOMAIN reqs /\ deltas' = deltas /\ reqs' = [reqs EXCEPT ![s.req] = e]
    BY <1>7, <2>1 DEF WithdrawRequirement, SaveRequirements, Save, ActiveReqs
  <2>3. e.verification = reqs[s.req].verification
    BY <1>3, <2>1, <2>2 DEF Requirement
  <2> QED
    BY <1>2, <2>2, <2>3, RewriteTended
<1>8. CASE s.cmd = "req stale" /\ StaleRequirement(s.delta, s.req)
  <2>1. s.delta \in DOMAIN deltas /\ s.req \in deltas[s.delta].affects
    BY <1>8 DEF Named, OnDelta, Timely
  <2> QED
    BY <1>2, <1>8, <2>1, StaleTended
<1>9. CASE s.cmd = "req verify" /\ VerifyRequirement(s.req, TestFiles)
  <2>1. PICK e : e = [reqs[s.req] EXCEPT !.verification = "verified",
                                         !.files = reqs[s.req].files \cup TestFiles]
    OBVIOUS
  <2>2. s.req \in DOMAIN reqs /\ deltas' = deltas /\ reqs' = [reqs EXCEPT ![s.req] = e]
    BY <1>9, <2>1 DEF VerifyRequirement, SaveRequirements, Save, ActiveReqs
  <2>3. e.verification = "verified"
    BY <1>3, <2>1, <2>2 DEF Requirement
  <2> QED
    BY <1>2, <2>2, <2>3, RewriteTended
<1>10. CASE s.cmd = "req refresh" /\ \E b \in doc \ Registered : RefreshRequirement(s.req, b)
  <2>1. PICK b \in doc \ Registered : RefreshRequirement(s.req, b)
    BY <1>10
  <2>2. PICK e : e = [reqs[s.req] EXCEPT !.block = b]
    OBVIOUS
  <2>3. s.req \in DOMAIN reqs /\ deltas' = deltas /\ reqs' = [reqs EXCEPT ![s.req] = e]
    BY <2>1, <2>2 DEF RefreshRequirement, SaveRequirements, Save, ActiveReqs
  <2>4. e.verification = reqs[s.req].verification
    BY <1>3, <2>2, <2>3 DEF Requirement
  <2> QED
    BY <1>2, <2>3, <2>4, RewriteTended
<1>11. CASE s.cmd = "delta close" /\ CloseDelta(s.delta)
  <2>1. s.delta \in DOMAIN deltas
    BY <1>11 DEF Named, OnDelta
  <2> QED
    BY <1>2, <1>11, <2>1, CloseTended
<1>12. CASE \E c \in Commits : BumpRevision(c) \/ Sync(c)
  <2>1. reqs' = reqs /\ deltas' = deltas
    BY <1>12 DEF BumpRevision, Sync, Save
  <2> QED
    BY <1>2, <2>1, GrowthTended
<1> QED
  BY <1>4, <1>5, <1>6, <1>7, <1>8, <1>9, <1>10, <1>11, <1>12 DEF Accept

-----------------------------------------------------------------------------
(* What a proposal rests on, less what SPEC.md holds meanwhile: the part of *)
(* the command's tests that the agent's own edits cannot undo.               *)
Sound(s) ==
  \/ s.cmd = "req add" /\ UnrecordedWork("add", s.delta)
  \/ /\ s.cmd = "req replace" /\ UnrecordedWork("change", s.delta)
     /\ s.req \in ActiveReqs \cap deltas[s.delta].affects
  \/ /\ s.cmd = "req withdraw" /\ s.req \in ActiveReqs
     /\ s.delta \in DOMAIN deltas /\ deltas[s.delta].intent = "remove"
  \/ s.cmd = "req verify" /\ s.req \in ActiveReqs /\ reqs[s.req].verification = "unverified"
  \/ s.cmd = "delta close" /\ s.delta \in InFlight /\ DeltaClosureValid(deltas, reqs, s.delta)
  \/ s.cmd = "rev bump" /\ status = "verified" /\ UnbumpedClosed

LEMMA SoundIsAcceptable ==
  ASSUME SteadyInv, MaxDeltas <= MaxRequirements, TestFiles # {}, SpecDocReady,
         NEW s, Sound(s)
  PROVE  Acceptable(s)
<1>1. MatchBlocking = {} /\ doc \subseteq Blocks
  BY SteadyFacts DEF SpecDocReady, TypeOK
<1>2. PICK b \in doc \ Registered : b \in Blocks
  BY <1>1 DEF SpecDocReady
<1>3. CASE s.cmd = "req add" /\ UnrecordedWork("add", s.delta)
  BY <1>2, <1>3, AddAccepted DEF Acceptable
<1>4. CASE /\ s.cmd = "req replace" /\ UnrecordedWork("change", s.delta)
           /\ s.req \in ActiveReqs \cap deltas[s.delta].affects
  BY <1>2, <1>4, ReplaceAccepted DEF Acceptable
<1>5. CASE /\ s.cmd = "req withdraw" /\ s.req \in ActiveReqs
           /\ s.delta \in DOMAIN deltas /\ deltas[s.delta].intent = "remove"
  BY <1>5, WithdrawAccepted DEF Acceptable
<1>6. CASE s.cmd = "req verify" /\ s.req \in ActiveReqs /\ reqs[s.req].verification = "unverified"
  BY <1>1, <1>6, VerifyAccepted DEF Acceptable
<1>7. CASE s.cmd = "delta close" /\ s.delta \in InFlight /\ DeltaClosureValid(deltas, reqs, s.delta)
  BY <1>1, <1>7, CloseAccepted DEF Acceptable
<1>8. CASE s.cmd = "rev bump" /\ status = "verified" /\ UnbumpedClosed
  BY <1>1, <1>8, BumpAccepted DEF Acceptable
<1> QED
  BY <1>3, <1>4, <1>5, <1>6, <1>7, <1>8 DEF Sound

LEMMA FormalizeSound ==
  ASSUME Grounded, NEW d \in DOMAIN deltas, TracingRequirements(reqs, d) = {},
         deltas[d].intent # "repair", deltas[d].affects \subseteq ActiveReqs,
         NEW s \in Formalize(d)
  PROVE  Sound(s)
<1>1. /\ deltas[d].intent \in Intents
      /\ deltas[d].intent # "add" => deltas[d].affects # {}
      /\ deltas[d].affects \in SUBSET Nat
  BY Domains DEF Grounded, Aimed, Delta
<1>2. PICK r : r = Min(deltas[d].affects)
  OBVIOUS
<1>3. deltas[d].intent # "add" => r \in deltas[d].affects /\ r \in ActiveReqs
  BY <1>1, <1>2, MinMember
<1>4. CASE deltas[d].intent = "add"
  <2>1. s = ProposeDelta("req add", d)
    BY <1>4 DEF Formalize
  <2> QED
    BY <1>4, <2>1 DEF ProposeDelta, Sound, UnrecordedWork
<1>5. CASE deltas[d].intent = "change"
  <2>1. s = ProposeBoth("req replace", d, r)
    BY <1>2, <1>5 DEF Formalize
  <2> QED
    BY <1>3, <1>5, <2>1 DEF ProposeBoth, Sound, UnrecordedWork
<1>6. CASE deltas[d].intent = "remove"
  <2>1. s = ProposeBoth("req withdraw", d, r)
    BY <1>2, <1>6 DEF Formalize
  <2> QED
    BY <1>3, <1>6, <2>1 DEF ProposeBoth, Sound
<1> QED
  BY <1>1, <1>4, <1>5, <1>6 DEF Intents

LEMMA CloseSound ==
  ASSUME NEW ds, NEW s \in CloseSuggestions(ds)
  PROVE  Sound(s)
<1>1. PICK d \in InFlight : s = ProposeDelta("delta close", d) /\ DeltaClosureValid(deltas, reqs, d)
  BY CloseForm
<1> QED
  BY <1>1 DEF ProposeDelta, Sound

LEMMA VerifySound ==
  ASSUME NEW r \in ActiveReqs, reqs[r].verification = "unverified"
  PROVE  Sound(ProposeReq("req verify", r))
BY DEF ProposeReq, Sound

(* What an accepted write leaves for its response to build on. *)
Done(s) ==
  /\ s.cmd \in Intents =>
       /\ Len(deltas) \in DOMAIN deltas /\ TracingRequirements(reqs, Len(deltas)) = {}
       /\ deltas[Len(deltas)].intent # "repair" /\ deltas[Len(deltas)].affects \subseteq ActiveReqs
  /\ s.cmd \in Recording =>
       Len(reqs) \in ActiveReqs /\ reqs[Len(reqs)].verification = "unverified"
  /\ s.cmd = "delta close" =>
       /\ deltas[s.delta].intent # "repair"
       /\ s.delta \in WithStatus("closed") \ RecordedClosed
  /\ s.cmd \notin {"req stale", "req refresh"}

LEMMA ResponseSound == Grounded => \A s : Done(s) => \A p \in Response(s) : Sound(p)
<1> SUFFICES ASSUME Grounded, NEW s, Done(s), NEW p \in Response(s)
             PROVE  Sound(p)
  OBVIOUS
<1>1. CASE s.cmd \in Intents
  <2>1. p \in Formalize(Len(deltas))
    BY <1>1 DEF Response, Intents
  <2> QED
    BY <1>1, <2>1, FormalizeSound DEF Done
<1>2. CASE s.cmd \in Recording
  <2>1. p = ProposeReq("req verify", Len(reqs))
    BY <1>2 DEF Response, Recording, Intents
  <2> QED
    BY <1>2, <2>1, VerifySound DEF Done
<1>3. CASE \E ds : p \in CloseSuggestions(ds)
  BY <1>3, CloseSound
<1>4. CASE s.cmd = "delta close" /\ p \in BumpIfVerified
  <2>1. status = "verified" /\ p = Propose("rev bump")
    BY <1>4 DEF BumpIfVerified
  <2>2. UnbumpedClosed
    BY <1>4 DEF Done, UnbumpedClosed
  <2> QED
    BY <2>1, <2>2 DEF Propose, Sound
<1>5. s.cmd \notin Intents /\ s.cmd \notin Recording =>
        \/ \E ds : p \in CloseSuggestions(ds)
        \/ s.cmd = "delta close" /\ p \in BumpIfVerified
  BY DEF Response, CloseNext, Done, Recording
<1> QED
  BY <1>1, <1>2, <1>3, <1>4, <1>5

(* The file has no repair after a write only if it had none before. *)
LEMMA RepairsStay ==
  ASSUME OnceInv, NEW s, Named(s), Accept(s), NoRepairs'
  PROVE  NoRepairs
<1>1. Grounded /\ TypeOK
  BY DEF OnceInv, AgentInv, Grounded
<1>2. Next
  BY <1>1, AcceptedIsCommand DEF Recorded
<1>3. FormOfStep
  BY <1>1, <1>2, StepForm
<1> QED
  BY <1>1, <1>3, SettledStepFrozen DEF NoRepairs

LEMMA AcceptedDone ==
  ASSUME TendedInv, SteadyInv, NoRepairs, NoRepairs', NEW s, Named(s), Timely(s), Accept(s),
         s.cmd # "req refresh"
  PROVE  Done(s)'
<1>1. TypeOK /\ Grounded /\ doc \subseteq Blocks /\ Consistent
  BY DEF SteadyInv, OnceInv, AgentInv, Grounded, TypeOK
<1>2. \A d \in DOMAIN deltas : deltas[d].intent # "repair"
  BY DEF NoRepairs
<1>3. CASE s.cmd \in WorkIntents /\ AddDelta(s.cmd, IF s.req = NoReq THEN {} ELSE {s.req})
  <2>1. PICK affected : AddDelta(s.cmd, affected) /\ affected \subseteq ActiveReqs /\ affected \subseteq DOMAIN reqs
    BY <1>3 DEF AddDelta, ActiveReqs
  <2>2. PICK e : e = NewDelta(s.cmd, affected)
    OBVIOUS
  <2>3. e \in Delta /\ e.intent = s.cmd /\ e.affects = affected
    BY <1>1, <1>3, <2>1, <2>2, Domains, IntentsAssumption DEF NewDelta, Delta, DeltaStatuses
  <2>4. reqs' = reqs /\ deltas' = Append(deltas, e)
    BY <2>1, <2>2 DEF AddDelta, SaveDeltas, Save
  <2>5. /\ Len(deltas') = Len(deltas) + 1 /\ Len(deltas) + 1 \in DOMAIN deltas'
        /\ Len(deltas) + 1 \notin DOMAIN deltas /\ deltas'[Len(deltas) + 1] = e
    <3>1. deltas \in Seq(Delta) /\ e \in Delta /\ deltas' = Append(deltas, e)
      BY <1>1, <2>3, <2>4 DEF TypeOK
    <3>2. /\ Len(Append(deltas, e)) = Len(deltas) + 1
          /\ Len(deltas) + 1 \in DOMAIN Append(deltas, e)
          /\ Len(deltas) + 1 \notin DOMAIN deltas
          /\ Append(deltas, e)[Len(deltas) + 1] = e
      BY <3>1, LongerSeq
    <3> QED
      BY <3>1, <3>2
  <2>6. \A r \in DOMAIN reqs : reqs[r].introducedBy \in DOMAIN deltas
    BY <1>1 DEF Consistent, ValidTracking, ValidRequirement
  <2>7. TracingRequirements(reqs, Len(deltas))' = {}
    BY <2>4, <2>5, <2>6 DEF TracingRequirements
  <2>8. ActiveReqs' = ActiveReqs
    BY <2>4 DEF ActiveReqs
  <2>9. s.cmd \in Intents /\ s.cmd # "repair"
    BY <1>3, <2>3, <2>5, IntentsAssumption DEF NoRepairs
  <2> QED
    BY <2>1, <2>3, <2>5, <2>7, <2>8, <2>9 DEF Done, Intents, Recording
<1>4. ASSUME s.cmd \in Recording, NEW e, e.lifecycle = "active", e.verification = "unverified",
             Len(reqs') = Len(reqs) + 1, Len(reqs) + 1 \in DOMAIN reqs', reqs'[Len(reqs) + 1] = e
      PROVE  Done(s)'
  BY <1>4 DEF Done, Recording, Intents, ActiveReqs, IsActive
<1>5. CASE s.cmd = "req add" /\ \E b \in doc \ Registered : AddRequirement(s.delta, b)
  <2>1. PICK b \in Blocks : AddRequirement(s.delta, b)
    BY <1>1, <1>5
  <2>2. PICK e : e = NewRequirement(b, s.delta)
    OBVIOUS
  <2>3. s.delta \in Nat /\ reqs' = Append(reqs, e)
    BY <1>1, <1>5, <2>1, <2>2, Domains DEF Named, OnDelta, AddRequirement, SaveRequirements, Save
  <2>4. e.verification = "unverified" /\ e.lifecycle = "active"
    BY <2>2 DEF NewRequirement
  <2>5. reqs \in Seq(Requirement) /\ e \in Requirement
    BY <2>2, <2>3, FileFacts DEF NewRequirement, Requirement, Lifecycles, Verifications, NoReq
  <2>6. /\ Len(reqs') = Len(reqs) + 1 /\ Len(reqs) + 1 \in DOMAIN reqs'
        /\ reqs'[Len(reqs) + 1] = e
    <3>1. reqs' = Append(reqs, e)
      BY <2>3
    <3> QED
      BY <2>5, <3>1, LongerSeq
  <2> QED
    BY <1>4, <1>5, <2>4, <2>6 DEF Recording
<1>6. CASE s.cmd = "req replace" /\ \E b \in doc \ Registered : ReplaceRequirement(s.delta, s.req, b)
  <2>1. PICK b \in Blocks : ReplaceRequirement(s.delta, s.req, b)
    BY <1>1, <1>6
  <2>2. s.delta \in DOMAIN deltas /\ s.req \in ActiveReqs /\ s.req \in DOMAIN reqs
    BY <1>6, <2>1 DEF Named, OnDelta, ReplaceRequirement, ActiveReqs
  <2>3. PICK e, mid : /\ e = Successor(s.req, b, s.delta)
                      /\ mid = [reqs EXCEPT ![s.req] = Superseded(s.req)]
    OBVIOUS
  <2>4. reqs' = Append(mid, e)
    BY <2>1, <2>3 DEF ReplaceRequirement, SaveRequirements, Save, Superseded, Successor
  <2>5. e \in Requirement /\ mid \in Seq(Requirement) /\ Superseded(s.req) \in Requirement
    BY <1>1, <2>2, <2>3, ReplacementTyped
  <2>6. e.verification = "unverified" /\ e.lifecycle = "active"
    BY <2>3 DEF Successor, NewRequirement
  <2>7. Len(mid) = Len(reqs)
    <3>1. DOMAIN mid = DOMAIN reqs /\ reqs \in Seq(Requirement)
      BY <2>3, FileFacts
    <3>2. 1 .. Len(mid) = 1 .. Len(reqs) /\ Len(mid) \in Nat /\ Len(reqs) \in Nat
      BY <2>5, <3>1, DomainOfSeq
    <3> QED
      BY <3>2, SameRange
  <2>8. /\ Len(reqs') = Len(reqs) + 1 /\ Len(reqs) + 1 \in DOMAIN reqs'
        /\ reqs'[Len(reqs) + 1] = e
    <3>1. /\ Len(Append(mid, e)) = Len(mid) + 1
          /\ Len(mid) + 1 \in DOMAIN Append(mid, e)
          /\ Append(mid, e)[Len(mid) + 1] = e
      BY <2>5, LongerSeq
    <3> QED
      BY <2>4, <2>7, <3>1
  <2> QED
    BY <1>4, <1>6, <2>6, <2>8 DEF Recording
<1>7. CASE s.cmd = "req stale" /\ StaleRequirement(s.delta, s.req)
  <2>1. s.delta \in DOMAIN deltas /\ AllowedUpdate(deltas[s.delta].intent) = "stale_requirement"
    BY <1>7 DEF Named, OnDelta, StaleRequirement, DeltaAllows
  <2>2. deltas[s.delta].intent = "repair"
    BY <2>1 DEF AllowedUpdate
  <2> QED
    BY <1>2, <2>1, <2>2
<1>8. CASE s.cmd = "delta close" /\ CloseDelta(s.delta)
  <2>1. s.delta \in DOMAIN deltas
    BY <1>8 DEF Named, OnDelta
  <2>2. PICK e : e = [deltas[s.delta] EXCEPT !.status = "closed"]
    OBVIOUS
  <2>3. /\ deltas' = [deltas EXCEPT ![s.delta] = e] /\ changelog' = changelog
        /\ deltas[s.delta].status \in {"open", "in-progress"}
    BY <1>8, <2>2 DEF CloseDelta, Transition, SaveDeltas, Save
  <2>4. e.status = "closed" /\ e.intent = deltas[s.delta].intent
    BY <1>1, <2>1, <2>2, Domains DEF Delta
  <2>5. s.delta \in DOMAIN deltas' /\ deltas'[s.delta] = e
    BY <2>1, <2>3
  <2>6. s.delta \notin RecordedClosed
    BY <2>3 DEF SteadyInv, OnceInv, AgentInv, ChangelogInductive, ChangelogExact, WithStatus
  <2>7. RecordedClosed' = RecordedClosed
    BY <2>3 DEF RecordedClosed
  <2> QED
    BY <1>2, <1>8, <2>1, <2>4, <2>5, <2>6, <2>7 DEF Done, Recording, Intents, WithStatus
<1>9. CASE s.cmd \in {"req withdraw", "req verify", "rev bump", "sync"}
  BY <1>9 DEF Done, Recording, Intents
<1> QED
  BY <1>3, <1>5, <1>6, <1>7, <1>8, <1>9 DEF Accept

-----------------------------------------------------------------------------

(* No repair is needed for this: the validation of the candidate rules out  *)
(* what would break it.                                                       *)
LEMMA StepTended ==
  ASSUME TendedInv, [GNext]_gvars
  PROVE  TendedInv'
<1>1. OnceInv /\ OnceInv' /\ Grounded /\ TypeOK
  BY StepOnce DEF TendedInv, OnceInv, AgentInv, Grounded
<1>2. ASSUME UNCHANGED <<tracking, repoFiles>> PROVE TendedInv'
  <2>1. UNCHANGED <<deltas, reqs, repoFiles>>
    BY <1>2 DEF tracking
  <2>2. Tended'
    BY <2>1 DEF TendedInv, Tended, InFlight, WithStatus
  <2> QED
    BY <1>1, <2>2 DEF TendedInv
<1>3. ASSUME NEW s, Named(s), Timely(s), Write(s) \/ WriteNothing(s) \/ ReadDiff(s)
      PROVE  TendedInv'
  <2>1. CASE Write(s)
    <3>1. Accept(s)
      BY <2>1 DEF Write
    <3>2. Tended'
      BY <1>1, <1>3, <3>1, AcceptedTended
    <3> QED
      BY <1>1, <3>2 DEF TendedInv
  <2>2. CASE WriteNothing(s) \/ ReadDiff(s)
    <3>1. UNCHANGED <<tracking, repoFiles>>
      BY <2>2 DEF WriteNothing, ReadDiff, vars, world
    <3> QED
      BY <1>2, <3>1
  <2> QED
    BY <1>3, <2>1, <2>2
<1>4. ASSUME NEW s \in next, Write(s) \/ WriteNothing(s) \/ ReadDiff(s)
      PROVE  TendedInv'
  <2>1. Named(s) /\ Timely(s)
    BY <1>1 DEF OnceInv, AgentInv, ProposalsNamed
  <2> QED
    BY <1>3, <1>4, <2>1
<1>5. ASSUME NEW intent \in WorkIntents, NEW r \in ActiveReqs \cup {NoReq}, Start(intent, r)
      PROVE  TendedInv'
  <2>1. r \in {NoReq} \cup DOMAIN reqs /\ r \in Nat /\ intent \in Intents
    BY <1>1, IntentsAssumption, Domains DEF ActiveReqs, NoReq
  <2>2. Named(ProposeReq(intent, r)) /\ Timely(ProposeReq(intent, r))
    BY <2>1 DEF Named, Proposal, ProposeReq, Intents, OnDelta, OnRequirement, Timely, Recording
  <2> QED
    BY <1>3, <1>5, <2>2 DEF Start
<1>6. ASSUME NEW d \in InFlight, TryClose(d)
      PROVE  TendedInv'
  <2>1. Named(ProposeDelta("delta close", d))
    BY <1>1, Proposing DEF InFlight, WithStatus
  <2>2. Timely(ProposeDelta("delta close", d))
    BY DEF ProposeDelta, Timely, Recording
  <2> QED
    BY <1>3, <1>6, <2>1, <2>2 DEF TryClose
<1>7. ASSUME \/ ReadContext \/ WriteSection \/ CommitCode \/ CommitTracking
             \/ (\E r \in ActiveReqs : Reword(r))
             \/ UNCHANGED <<tracking, repoFiles>>
             \/ UNCHANGED gvars
      PROVE  TendedInv'
  <2>1. UNCHANGED <<tracking, repoFiles>>
    BY <1>7 DEF ReadContext, WriteSection, CommitCode, CommitTracking, Reword, gvars, vars, world
  <2> QED
    BY <1>2, <2>1
<1> QED
  BY <1>4, <1>5, <1>6, <1>7 DEF GNext, Follow, RunProposed, NewSession

LEMMA TendedInvariant == GSpec => []TendedInv
<1>1. GInit => TendedInv
  <2> SUFFICES ASSUME GInit PROVE TendedInv
    OBVIOUS
  <2>1. AgentInv /\ next = {} /\ source = "read" /\ deltas = << >> /\ reqs = << >>
        /\ repoFiles = TestFiles \cup SecondaryDocs
    BY InitAgent DEF GInit, Init
  <2>2. OnceInv
    BY <2>1 DEF OnceInv, WorkRecordedOnce
  <2> QED
    BY <2>1, <2>2 DEF TendedInv, Tended
<1>2. TendedInv /\ [GNext]_gvars => TendedInv'
  BY StepTended
<1> QED
  BY <1>1, <1>2, PTL DEF GSpec

-----------------------------------------------------------------------------
(* What a write proposed stays sound until the agent runs it.               *)
WriteIsSound == (source = "write" /\ NoRepairs) => \A s \in next : Sound(s)

DutyInv == TendedInv /\ WriteIsSound

LEMMA DutyIsSteady ==
  ASSUME TendedInv, NoRepairs
  PROVE  SteadyInv
<1>1. \A d \in InFlight : deltas[d].intent # "repair"
  BY DEF NoRepairs, InFlight, WithStatus
<1> QED
  BY <1>1, NoRepairIsSteady

LEMMA NextSound ==
  (Grounded => \A s : Done(s) => \A p \in Response(s) : Sound(p))'
BY ResponseSound, PTL

LEMMA WriteSound ==
  ASSUME DutyInv, TendedInv', NEW s, Named(s), Timely(s), Write(s)
  PROVE  DutyInv'
<1>1. TendedInv /\ Accept(s)
  BY DEF DutyInv, Write
<1>2. CASE s.cmd = "req refresh" \/ ~NoRepairs'
  <2>1. source' = "refresh" \/ ~NoRepairs'
    BY <1>2 DEF Write
  <2> QED
    BY <2>1 DEF DutyInv, WriteIsSound
<1>3. CASE s.cmd # "req refresh" /\ NoRepairs'
  <2>1. NoRepairs /\ SteadyInv /\ Grounded'
    BY <1>1, <1>3, RepairsStay, DutyIsSteady DEF TendedInv, OnceInv, AgentInv
  <2>2. Done(s)'
    BY <1>1, <1>3, <2>1, AcceptedDone
  <2>3. \A p \in Response(s)' : Sound(p)'
    BY <2>1, <2>2, NextSound
  <2>4. WriteIsSound'
    BY <2>3 DEF Write, WriteIsSound
  <2> QED
    BY <2>4 DEF DutyInv
<1> QED
  BY <1>2, <1>3

(* Every other step leaves the tracking file alone, and the proposals too   *)
(* unless it answers a read or a refusal.                                    *)
LEMMA RestSound ==
  ASSUME DutyInv, TendedInv', UNCHANGED <<tracking, repoFiles>>,
         UNCHANGED agent \/ source' # "write"
  PROVE  DutyInv'
<1>1. UNCHANGED <<deltas, reqs, status, changelog, repoFiles>>
  BY DEF tracking
<1>2. DutyInv' \/ ~WriteIsSound'
  BY DEF DutyInv
<1>3. CASE source' # "write"
  BY <1>2, <1>3 DEF DutyInv, WriteIsSound
<1>4. CASE UNCHANGED agent
  <2>1. next' = next /\ source' = source
    BY <1>4 DEF agent
  <2>2. ASSUME NEW s, Sound(s)
        PROVE  Sound(s)'
    <3>1. /\ ActiveReqs' = ActiveReqs /\ InFlight' = InFlight
          /\ WithStatus("closed")' = WithStatus("closed") /\ RecordedClosed' = RecordedClosed
      BY <1>1 DEF ActiveReqs, InFlight, WithStatus, RecordedClosed
    <3>2. UnbumpedClosed => UnbumpedClosed'
      BY <3>1 DEF UnbumpedClosed
    <3> QED
      BY <1>1, <2>2, <3>1, <3>2 DEF Sound, UnrecordedWork
  <2>3. NoRepairs' = NoRepairs
    BY <1>1 DEF NoRepairs
  <2> QED
    BY <1>2, <2>1, <2>2, <2>3 DEF DutyInv, WriteIsSound
<1> QED
  BY <1>3, <1>4

LEMMA StepSound ==
  ASSUME DutyInv, [GNext]_gvars
  PROVE  DutyInv'
<1>1. OnceInv /\ TendedInv' /\ Grounded /\ TypeOK
  BY StepTended DEF DutyInv, TendedInv, OnceInv, AgentInv, Grounded
<1>2. ASSUME NEW s, Named(s), Timely(s), Write(s) \/ WriteNothing(s) \/ ReadDiff(s)
      PROVE  DutyInv'
  <2>1. CASE Write(s)
    BY <1>1, <1>2, <2>1, WriteSound
  <2>2. CASE WriteNothing(s) \/ ReadDiff(s)
    <3>1. UNCHANGED <<tracking, repoFiles>> /\ source' # "write"
      BY <2>2 DEF WriteNothing, ReadDiff, vars, world
    <3> QED
      BY <1>1, <3>1, RestSound
  <2> QED
    BY <1>2, <2>1, <2>2
<1>3. ASSUME NEW s \in next, Write(s) \/ WriteNothing(s) \/ ReadDiff(s)
      PROVE  DutyInv'
  <2>1. Named(s) /\ Timely(s)
    BY <1>1 DEF OnceInv, AgentInv, ProposalsNamed
  <2> QED
    BY <1>2, <1>3, <2>1
<1>4. CASE ReadContext
  <2>1. UNCHANGED <<tracking, repoFiles>> /\ source' # "write"
    BY <1>4 DEF ReadContext, vars, world
  <2> QED
    BY <1>1, <2>1, RestSound
<1>5. CASE UNCHANGED <<tracking, repoFiles, agent>>
  BY <1>1, <1>5, RestSound
<1>6. ASSUME NEW intent \in WorkIntents, NEW r \in ActiveReqs \cup {NoReq}, Start(intent, r)
      PROVE  DutyInv'
  <2>1. r \in {NoReq} \cup DOMAIN reqs /\ r \in Nat /\ intent \in Intents
    BY <1>1, IntentsAssumption, Domains DEF ActiveReqs, NoReq
  <2>2. Named(ProposeReq(intent, r)) /\ Timely(ProposeReq(intent, r))
    BY <2>1 DEF Named, Proposal, ProposeReq, Intents, OnDelta, OnRequirement, Timely, Recording
  <2> QED
    BY <1>2, <1>6, <2>2 DEF Start
<1>7. ASSUME NEW d \in InFlight, TryClose(d)
      PROVE  DutyInv'
  <2>1. Named(ProposeDelta("delta close", d))
    BY <1>1, Proposing DEF InFlight, WithStatus
  <2>2. Timely(ProposeDelta("delta close", d))
    BY DEF ProposeDelta, Timely, Recording
  <2> QED
    BY <1>2, <1>7, <2>1, <2>2 DEF TryClose
<1>8. ASSUME \/ WriteSection \/ CommitCode \/ CommitTracking
             \/ (\E r \in ActiveReqs : Reword(r))
             \/ UNCHANGED gvars
      PROVE  UNCHANGED <<tracking, repoFiles, agent>>
  BY <1>8 DEF WriteSection, CommitCode, CommitTracking, Reword, gvars, vars, world
<1> QED
  BY <1>3, <1>4, <1>5, <1>6, <1>7, <1>8 DEF GNext, Follow, RunProposed, NewSession

LEMMA DutyInvariant == GSpec => []DutyInv
<1>1. GInit => DutyInv
  <2> SUFFICES ASSUME GInit PROVE DutyInv
    OBVIOUS
  <2>1. AgentInv /\ next = {} /\ source = "read" /\ deltas = << >> /\ reqs = << >>
        /\ repoFiles = TestFiles \cup SecondaryDocs
    BY InitAgent DEF GInit, Init
  <2>2. OnceInv
    BY <2>1 DEF OnceInv, WorkRecordedOnce
  <2> QED
    BY <2>1, <2>2 DEF DutyInv, TendedInv, Tended, WriteIsSound
<1>2. DutyInv /\ [GNext]_gvars => DutyInv'
  BY StepSound
<1> QED
  BY <1>1, <1>2, PTL DEF GSpec

(* Every step a write proposes is accepted by the command it names, as long  *)
(* as SPEC.md agrees with the file and no repair was opened: the builders'    *)
(* own tests imply those of the commands and of the validation behind them.   *)
(* The agent has a test to cite, and the file holds as many requirements as   *)
(* deltas (999 of each), so that none is open that cannot be answered.        *)
THEOREM WritesProposeLegalSteps ==
  ASSUME TestFiles # {}, MaxDeltas <= MaxRequirements
  PROVE  GSpec => []WriteResponsesLegal
<1>1. DutyInv => WriteResponsesLegal
  BY DutyIsSteady, SoundIsAcceptable DEF DutyInv, WriteIsSound, WriteResponsesLegal
<1> QED
  BY <1>1, DutyInvariant, PTL

LEMMA TrackedContextSound ==
  ASSUME SteadyInv, DriftStatus = "tracked", Anchored, SpecDocReady,
         \A d \in InFlight : deltas[d].intent \in {"add", "change"},
         NEW s \in ContextNext
  PROVE  Sound(s)
<1>1. Grounded /\ TypeOK /\ StoredStatusCurrent
  BY SteadyFacts DEF SteadyInv, OnceInv, AgentInv
<1>2. moved /\ TrackedBy # {} /\ TrackedBy \subseteq InFlight
  BY DEF DriftStatus, TrackedBy
<1>3. RefreshNext = {} /\ RepairNext = {}
  <2>1. StaleActive = {}
    BY FileFacts DEF StaleActive, ActiveReqs
  <2> QED
    BY <2>1 DEF SpecDocReady, RefreshNext, RepairNext
<1>4. BumpIfVerified = {}
  <2>1. PICK d \in InFlight : d \in DOMAIN deltas
    BY <1>2 DEF InFlight, WithStatus
  <2>2. deltas[d].status \in {"open", "in-progress"}
    BY <2>1 DEF InFlight, WithStatus
  <2>3. status # "verified"
    BY <1>1, <2>1, <2>2, VerifiedHasNoLiveWork
  <2> QED
    BY <2>3 DEF BumpIfVerified
<1>5. s \in Continuation
  BY <1>2, <1>3, <1>4 DEF ContextNext, TrackedNext
<1>6. PICK d \in DOMAIN deltas : d \in TrackedBy /\ s \in Continue(d)
  BY <1>1, <1>2, <1>5, ContinuationForm
<1>7. deltas[d].intent \in {"add", "change"}
  BY <1>2, <1>6
<1>8. CASE TracingRequirements(reqs, d) = {} /\ s \in Formalize(d)
  <2>1. ~UpdatesResolved(deltas, reqs, d)
    BY <1>7, <1>8 DEF UpdatesResolved
  <2>2. deltas[d].affects \subseteq ActiveReqs
    BY <1>2, <1>6, <2>1 DEF Anchored, Unresolved
  <2> QED
    BY <1>1, <1>7, <1>8, <2>2, FormalizeSound
<1>9. CASE /\ BlockingForClosure(deltas, reqs, d) # {}
           /\ s = ProposeReq("req verify", Min(BlockingForClosure(deltas, reqs, d)))
  <2>1. PICK blocking : blocking = BlockingForClosure(deltas, reqs, d)
    OBVIOUS
  <2>2. blocking \in SUBSET DOMAIN reqs /\ blocking \in SUBSET Nat
    BY <1>1, <2>1, Domains DEF BlockingForClosure, TouchedBy
  <2>3. Min(blocking) \in blocking
    BY <1>9, <2>1, <2>2, MinMember
  <2>4. Min(blocking) \in ActiveReqs /\ reqs[Min(blocking)].verification = "unverified"
    BY <2>1, <2>2, <2>3, FileFacts DEF BlockingForClosure, ActiveReqs
  <2> QED
    BY <1>9, <2>1, <2>4, VerifySound
<1>10. CASE s \in CloseSuggestions({d})
  BY <1>10, CloseSound
<1> QED
  BY <1>6, <1>8, <1>9, <1>10, ContinueForm

(* Whatever a session forgot, "context" takes up tracked additions and       *)
(* changes with a command that is accepted, in the state the work was left.   *)
(* Any agent is meant, one that repairs too: nothing is stale once no repair  *)
(* is in flight.  The other two assumptions are those of                      *)
(* WritesProposeLegalSteps.                                                   *)
THEOREM ContextResumesTrackedWork ==
  ASSUME TestFiles # {}, MaxDeltas <= MaxRequirements
  PROVE  GSpec => []ContextResumesWork
<1>1. TendedInv => ContextResumesWork
  <2> SUFFICES ASSUME TendedInv, DriftStatus = "tracked", SpecDocReady, Anchored,
                      \A d \in InFlight : deltas[d].intent \in {"add", "change"},
                      NEW s \in ContextNext
               PROVE  Acceptable(s)
    BY DEF ContextResumesWork
  <2>1. SteadyInv
    BY NoRepairIsSteady
  <2> QED
    BY <2>1, TrackedContextSound, SoundIsAcceptable
<1> QED
  BY <1>1, TendedInvariant, PTL
=============================================================================
