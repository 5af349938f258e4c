----------------------------- MODULE DriftProofs -----------------------------
(***************************************************************************)
(* Machine-checked proofs about Drift, for any governed files, contents    *)
(* and histories.                                                           *)
(***************************************************************************)
EXTENDS Drift, SequenceTheorems, WellFoundedInduction, TLAPS

-----------------------------------------------------------------------------
(* Histories. *)

LEMMA LogInside ==
  ASSUME NEW commit
  PROVE  Log(commit) \subseteq DOMAIN objects
BY DEF Log

LEMMA LogHasItself ==
  ASSUME NEW commit \in DOMAIN objects
  PROVE  commit \in Log(commit)
BY DEF Log

(* With no parent missing, the log of a commit is a history itself. *)
Complete == DOMAIN objects \in Histories

LEMMA LogIsHistory ==
  ASSUME Complete, NEW commit \in DOMAIN objects
  PROVE  Log(commit) \in Histories
<1> SUFFICES ASSUME NEW c \in Log(commit)
             PROVE  objects[c].parent \in Log(commit) \cup {0}
  BY LogInside DEF Histories
<1>1. c \in DOMAIN objects /\ objects[c].parent \in DOMAIN objects \cup {0}
  BY LogInside DEF Complete, Histories
<1>2. ASSUME NEW H \in Histories, commit \in H, objects[c].parent # 0
      PROVE  objects[c].parent \in H
  BY <1>2 DEF Histories, Log
<1> QED
  BY <1>1, <1>2 DEF Log

-----------------------------------------------------------------------------
(* Type correctness.  It rests on git keeping whole histories and on no       *)
(* tracking file, on disk or committed, naming a commit that was never made.   *)

Anchored(t) == t.checkpoint \in 1 .. made

HistoryInv ==
  /\ TypeOK
  /\ Complete
  /\ Anchored(tracking)
  /\ \A c \in DOMAIN objects : objects[c].tracking # NoTracking => Anchored(objects[c].tracking)

LEMMA InitHistory == Init => HistoryInv
<1> SUFFICES ASSUME Init PROVE HistoryInv
  OBVIOUS
<1>1. PICK files \in [GovernedFiles -> Contents] :
        objects = [c \in {1} |-> [parent |-> 0, files |-> files, tracking |-> NoTracking]]
  BY DEF Init
<1>2. DOMAIN objects = {1} /\ objects[1] = [parent |-> 0, files |-> files, tracking |-> NoTracking]
  BY <1>1
<1>3. objects[1] \in Commit /\ objects[1].parent = 0 /\ objects[1].tracking = NoTracking
  BY <1>2 DEF Commit
<1>4. 1 \in CommitIds /\ 1 .. 1 = {1}
  BY CommitsAssumption DEF CommitIds
<1>5. tracking \in Tracking /\ Anchored(tracking)
  <2>1. tracking = [deltas |-> << >>, checkpoint |-> 1]
    BY DEF Init
  <2>2. << >> \in Seq(Delta)
    BY EmptySeq
  <2> QED
    BY <1>4, <2>1, <2>2 DEF Init, Tracking, Anchored
<1>6. TypeOK
  BY <1>2, <1>3, <1>4, <1>5 DEF Init, TypeOK
<1>7. Complete
  BY <1>2, <1>3 DEF Complete, Histories
<1> QED
  BY <1>2, <1>3, <1>5, <1>6, <1>7 DEF HistoryInv

(* A command that touches nothing but the tracking file on disk. *)
LEMMA TrackingMoves ==
  ASSUME HistoryInv, tracking' \in Tracking, Anchored(tracking'), UNCHANGED <<objects, head, made>>
  PROVE  HistoryInv'
BY DEF HistoryInv, TypeOK, Complete, Histories, Anchored

LEMMA DeltaStatusSet ==
  ASSUME NEW t \in Tracking, NEW d \in DOMAIN t.deltas, NEW to \in DeltaStatuses
  PROVE  LET u == [t EXCEPT !.deltas[d].status = to]
         IN  /\ u \in Tracking
             /\ u.checkpoint = t.checkpoint
             /\ u.deltas = [t.deltas EXCEPT ![d] = [@ EXCEPT !.status = to]]
<1> DEFINE u == [t EXCEPT !.deltas[d].status = to]
           changed == [t.deltas[d] EXCEPT !.status = to]
<1>1. t.deltas \in Seq(Delta) /\ t.checkpoint \in CommitIds /\ t.deltas[d] \in Delta
  BY ElementOfSeq DEF Tracking
<1>2. changed \in Delta
  BY <1>1 DEF Delta
<1>3. [t.deltas EXCEPT ![d] = changed] \in Seq(Delta)
  BY <1>1, <1>2, ExceptSeq
<1>4. u = [deltas |-> [t.deltas EXCEPT ![d] = changed], checkpoint |-> t.checkpoint]
  <2>1. t = [deltas |-> t.deltas, checkpoint |-> t.checkpoint]
    BY DEF Tracking
  <2>2. u = [t EXCEPT !.deltas = [t.deltas EXCEPT ![d] = changed]]
    OBVIOUS
  <2> HIDE DEF changed, u
  <2> QED
    BY <2>1, <2>2
<1> QED
  BY <1>1, <1>3, <1>4 DEF Tracking

LEMMA DeltaAppended ==
  ASSUME NEW t \in Tracking, NEW delta \in Delta
  PROVE  LET u == [t EXCEPT !.deltas = Append(@, delta)]
         IN  /\ u \in Tracking
             /\ u.checkpoint = t.checkpoint
             /\ u.deltas = Append(t.deltas, delta)
<1>1. t.deltas \in Seq(Delta) /\ t.checkpoint \in CommitIds
  BY DEF Tracking
<1>2. Append(t.deltas, delta) \in Seq(Delta)
  BY <1>1, AppendProperties
<1>3. [t EXCEPT !.deltas = Append(@, delta)]
        = [deltas |-> Append(t.deltas, delta), checkpoint |-> t.checkpoint]
  BY SMTT(30) DEF Tracking
<1> QED
  BY <1>1, <1>2, <1>3 DEF Tracking

LEMMA DeltaCommandMoves ==
  ASSUME HistoryInv, DeltaCommand
  PROVE  /\ tracking' \in Tracking /\ tracking'.checkpoint = tracking.checkpoint
         /\ UNCHANGED <<objects, head, made>>
<1>0. tracking \in Tracking
  BY DEF HistoryInv, TypeOK
<1>1. CASE AddDelta
  <2> DEFINE delta == [status |-> "live", origin |-> tracking.checkpoint]
  <2>1. delta \in Delta
    BY <1>0 DEF Delta, DeltaStatuses, Tracking
  <2> QED
    BY <1>0, <1>1, <2>1, DeltaAppended DEF AddDelta
<1>2. ASSUME NEW d \in DOMAIN tracking.deltas, DeferDelta(d) \/ ResumeDelta(d) \/ SettleDelta(d)
      PROVE  /\ tracking' \in Tracking /\ tracking'.checkpoint = tracking.checkpoint
             /\ UNCHANGED <<objects, head, made>>
  <2>1. PICK to \in DeltaStatuses : /\ tracking' = [tracking EXCEPT !.deltas[d].status = to]
                                    /\ UNCHANGED <<objects, head, made>>
    BY <1>2 DEF DeferDelta, ResumeDelta, SettleDelta, SetStatus, DeltaStatuses
  <2> QED
    BY <1>0, <2>1, DeltaStatusSet
<1> QED
  BY <1>1, <1>2 DEF DeltaCommand

LEMMA CheckpointMoves ==
  ASSUME NEW t \in Tracking, NEW commit \in CommitIds
  PROVE  LET u == [t EXCEPT !.checkpoint = commit]
         IN  u \in Tracking /\ u.checkpoint = commit /\ u.deltas = t.deltas
BY DEF Tracking

LEMMA MadeIds ==
  ASSUME HistoryInv
  PROVE  /\ made \in Nat /\ 1 .. made \subseteq CommitIds
         /\ DOMAIN objects \subseteq 1 .. made /\ made + 1 \notin DOMAIN objects
         /\ 0 \notin DOMAIN objects
         /\ made < MaxCommits => made + 1 \in CommitIds /\ 1 .. made \subseteq 1 .. made + 1
BY CommitsAssumption DEF HistoryInv, TypeOK, CommitIds

LEMMA CommitKeepsHistory ==
  ASSUME HistoryInv, NEW files \in [GovernedFiles -> Contents],
         NEW committed \in Tracking \cup {NoTracking},
         committed # NoTracking => Anchored(committed),
         MakeCommit(files, committed)
  PROVE  HistoryInv'
<1> DEFINE commit == [parent |-> head, files |-> files, tracking |-> committed]
<1>1. /\ made < MaxCommits /\ made' = made + 1 /\ head' = made + 1 /\ tracking' = tracking
      /\ DOMAIN objects' = DOMAIN objects \cup {made + 1}
      /\ objects'[made + 1] = commit
      /\ \A c \in DOMAIN objects : objects'[c] = objects[c]
  BY MadeIds DEF MakeCommit
<1>2. commit \in Commit /\ commit.parent = head /\ commit.tracking = committed
  BY MadeIds DEF Commit, HistoryInv, TypeOK
<1> HIDE DEF commit
<1>3. TypeOK'
  <2>1. DOMAIN objects' \subseteq 1 .. made'
    BY <1>1, MadeIds
  <2>2. \A c \in DOMAIN objects' : objects'[c] \in Commit
    BY <1>1, <1>2 DEF HistoryInv, TypeOK
  <2> QED
    BY <1>1, <2>1, <2>2, MadeIds DEF HistoryInv, TypeOK
<1>4. Complete'
  <2>1. ASSUME NEW c \in DOMAIN objects'
        PROVE  objects'[c].parent \in DOMAIN objects' \cup {0}
    BY <1>1, <1>2, <2>1 DEF HistoryInv, TypeOK, Complete, Histories
  <2> QED
    BY <2>1 DEF Complete, Histories
<1>5. \A t : Anchored(t) => Anchored(t)'
  BY <1>1, MadeIds DEF Anchored
<1> QED
  BY <1>1, <1>2, <1>3, <1>4, MadeIds DEF HistoryInv, Anchored

LEMMA CollectKeepsHistory ==
  ASSUME HistoryInv, Collect
  PROVE  HistoryInv'
<1>1. head \in DOMAIN objects /\ Log(head) \in Histories /\ head \in Log(head)
  BY LogIsHistory, LogHasItself DEF HistoryInv, TypeOK
<1>2. /\ DOMAIN objects' = Log(head)
      /\ \A c \in Log(head) : objects'[c] = objects[c]
      /\ UNCHANGED <<head, made, tracking>>
  BY DEF Collect
<1>3. Log(head) \subseteq DOMAIN objects
  BY LogInside
<1>4. TypeOK'
  BY <1>1, <1>2, <1>3 DEF HistoryInv, TypeOK
<1>5. Complete'
  BY <1>1, <1>2 DEF Complete, Histories
<1> QED
  BY <1>2, <1>3, <1>4, <1>5 DEF HistoryInv, Anchored

LEMMA StepKeepsHistory ==
  ASSUME HistoryInv, [Next]_vars
  PROVE  HistoryInv'
<1>0. tracking \in Tracking /\ Anchored(tracking)
  BY DEF HistoryInv, TypeOK
<1>1. CASE DeltaCommand
  BY <1>0, <1>1, DeltaCommandMoves, TrackingMoves DEF Anchored
<1>2. ASSUME NEW c \in DOMAIN objects, MoveCheckpoint(c)
      PROVE  HistoryInv'
  <2>1. c \in CommitIds /\ c \in 1 .. made
    BY MadeIds
  <2> QED
    BY <1>0, <1>2, <2>1, CheckpointMoves, TrackingMoves DEF MoveCheckpoint, Anchored
<1>3. ASSUME NEW files \in [GovernedFiles -> Contents],
             MakeCommit(files, objects[head].tracking) \/ MakeCommit(files, tracking)
      PROVE  HistoryInv'
  <2>1. head \in DOMAIN objects /\ objects[head].tracking \in Tracking \cup {NoTracking}
    BY DEF HistoryInv, TypeOK, Commit
  <2> QED
    BY <1>0, <1>3, <2>1, CommitKeepsHistory DEF HistoryInv
<1>4. ASSUME NEW c \in DOMAIN objects, Reset(c)
      PROVE  HistoryInv'
  <2>1. objects[c].tracking # NoTracking =>
          objects[c].tracking \in Tracking /\ Anchored(objects[c].tracking)
    BY DEF HistoryInv, TypeOK, Commit
  <2>2. /\ tracking' \in Tracking /\ Anchored(tracking')
        /\ head' \in DOMAIN objects /\ UNCHANGED <<objects, made>>
    BY <1>0, <1>4, <2>1 DEF Reset
  <2> QED
    BY <2>2 DEF HistoryInv, TypeOK, Complete, Histories, Anchored
<1>5. ASSUME NEW c \in DOMAIN objects, RestoreTracking(c)
      PROVE  HistoryInv'
  <2>1. objects[c].tracking \in Tracking /\ Anchored(objects[c].tracking)
    BY <1>5 DEF RestoreTracking, HistoryInv, TypeOK, Commit
  <2> QED
    BY <1>5, <2>1, TrackingMoves DEF RestoreTracking
<1>6. CASE Collect
  BY <1>6, CollectKeepsHistory
<1>7. CASE UNCHANGED vars
  BY <1>7 DEF vars, HistoryInv, TypeOK, Complete, Histories, Anchored
<1> QED
  BY <1>1, <1>2, <1>3, <1>4, <1>5, <1>6, <1>7 DEF Next, Review, Git

(* Resets, clean-ups and restored tracking files keep the history whole. *)
THEOREM HistoryKept == Spec => []HistoryInv
BY InitHistory, StepKeepsHistory, PTL DEF Spec

(* TypeOK: whatever is reset, restored or collected, HEAD is a commit git has, *)
(* and the tracking file on disk is a well-formed one.                         *)
THEOREM TypeCorrect == Spec => []TypeOK
<1>1. HistoryInv => TypeOK
  BY DEF HistoryInv
<1> QED
  BY <1>1, HistoryKept, PTL

-----------------------------------------------------------------------------
(* Where a delta was introduced. *)

LEMMA LeastExists ==
  ASSUME NEW S \in SUBSET Nat, S # {}
  PROVE  Min(S) \in S /\ \A x \in S : Min(S) <= x
<1>1. \E x \in S : \A y \in S : ~ (<<y, x>> \in OpToRel(<, Nat))
  BY NatLessThanWellFounded, WFMin
<1>2. PICK x \in S : \A y \in S : ~ (y < x)
  BY <1>1 DEF OpToRel
<1>3. \A y \in S : x <= y
  BY <1>2
<1> QED
  BY <1>3 DEF Min

LEMMA FirstRecord ==
  ASSUME HistoryInv, NEW d
  PROVE  /\ Introduction(d) \in Log(head)
         /\ Introduction(d) \in DOMAIN objects
         /\ \A b \in Log(head) : b < Introduction(d) => b \notin Recording(d)
<1>1. head \in DOMAIN objects /\ head \in Log(head)
  BY LogHasItself DEF HistoryInv, TypeOK
<1>2. Log(head) \subseteq DOMAIN objects /\ DOMAIN objects \subseteq Nat
  BY LogInside, MadeIds
<1>3. Recording(d) \subseteq Log(head)
  BY DEF Recording
<1>4. CASE Recording(d) = {}
  BY <1>1, <1>2, <1>4 DEF Introduction
<1>5. CASE Recording(d) # {}
  <2>1. /\ Introduction(d) = Min(Recording(d)) /\ Introduction(d) \in Recording(d)
        /\ \A x \in Recording(d) : Introduction(d) <= x
    BY <1>2, <1>3, <1>5, LeastExists DEF Introduction
  <2>2. \A b \in Log(head) : b < Introduction(d) => b \notin Recording(d)
    BY <1>2, <1>3, <2>1
  <2> QED
    BY <1>2, <1>3, <2>1, <2>2
<1> QED
  BY <1>4, <1>5

(* TrackedHidesNothingLate: drift is called tracked only for files that        *)
(* already differed when an open delta of this review cycle was recorded.      *)
THEOREM TrackedHidesNothing == Spec => []TrackedHidesNothingLate
<1>1. HistoryInv => TrackedHidesNothingLate
  <2> SUFFICES ASSUME HistoryInv, DriftStatus = "tracked", NEW f \in Changed
               PROVE  \E d \in Live, c \in Log(head) :
                        /\ tracking.deltas[d].origin = tracking.checkpoint
                        /\ f \in DiffNames(tracking.checkpoint, c)
                        /\ \A b \in Log(head) : b < c => d \notin DOMAIN objects[b].tracking.deltas
    BY DEF TrackedHidesNothingLate
  <2>1. Changed \subseteq UNION {Coverage(d) : d \in TrackedBy}
    BY DEF DriftStatus
  <2>2. PICK d \in TrackedBy : f \in Coverage(d)
    BY <2>1
  <2>3. /\ d \in DOMAIN tracking.deltas
        /\ tracking.deltas[d].status = "live" /\ tracking.deltas[d].origin = tracking.checkpoint
        /\ f \in DiffNames(tracking.checkpoint, Introduction(d))
    BY <2>2 DEF TrackedBy, Coverage
  <2>4. d \in Live /\ Introduction(d) \in Log(head)
    BY <2>3, FirstRecord DEF Live
  <2>5. \A b \in Log(head) : b < Introduction(d) => d \notin DOMAIN objects[b].tracking.deltas
    BY FirstRecord DEF Recording
  <2> QED
    BY <2>3, <2>4, <2>5
<1> QED
  BY <1>1, HistoryKept, PTL

-----------------------------------------------------------------------------
(* What a commit adds to a log. *)

LEMMA CommitExtendsLog ==
  ASSUME HistoryInv, NEW files, NEW committed, MakeCommit(files, committed)
  PROVE  /\ head' = made + 1
         /\ DOMAIN objects' = DOMAIN objects \cup {made + 1}
         /\ \A c \in DOMAIN objects : objects'[c] = objects[c]
         /\ objects'[made + 1].files = files /\ objects'[made + 1].tracking = committed
         /\ Log(head)' = Log(head) \cup {made + 1}
<1> DEFINE n == made + 1
<1>1. /\ head' = n /\ tracking' = tracking
      /\ DOMAIN objects' = DOMAIN objects \cup {n}
      /\ objects'[n] = [parent |-> head, files |-> files, tracking |-> committed]
      /\ \A c \in DOMAIN objects : objects'[c] = objects[c]
  BY MadeIds DEF MakeCommit
<1>2. n \notin DOMAIN objects /\ n # 0 /\ head \in DOMAIN objects /\ head # 0
  BY MadeIds DEF HistoryInv, TypeOK
<1> HIDE DEF n
<1>3. ASSUME NEW H \in Histories, head \in H
      PROVE  H \cup {n} \in Histories'
  <2>1. H \subseteq DOMAIN objects /\ \A c \in H : objects[c].parent \in H \cup {0}
    BY DEF Histories
  <2>2. \A c \in H \cup {n} : objects'[c].parent \in H \cup {n} \cup {0}
    BY <1>1, <1>3, <2>1
  <2> QED
    BY <1>1, <2>1, <2>2 DEF Histories
<1>4. ASSUME NEW H \in Histories', n \in H
      PROVE  H \ {n} \in Histories /\ head \in H \ {n}
  <2>1. H \subseteq DOMAIN objects' /\ \A c \in H : objects'[c].parent \in H \cup {0}
    BY DEF Histories
  <2>2. head \in H
    BY <1>1, <1>2, <1>4, <2>1
  <2>3. \A c \in H \ {n} : objects[c].parent \in H \cup {0} /\ objects[c].parent # n
    BY <1>1, <1>2, <2>1 DEF HistoryInv, Complete, Histories
  <2>4. H \ {n} \subseteq DOMAIN objects
    BY <1>1, <2>1
  <2> QED
    BY <1>2, <2>2, <2>3, <2>4 DEF Histories
<1>5. ASSUME NEW c \in Log(head)
      PROVE  c \in Log(head)'
  <2>1. c \in DOMAIN objects'
    BY <1>1, LogInside
  <2>2. ASSUME NEW H \in Histories', n \in H
        PROVE  c \in H
    BY <1>4, <2>2 DEF Log
  <2> QED
    BY <1>1, <2>1, <2>2 DEF Log
<1>6. n \in Log(head)'
  BY <1>1 DEF Log
<1>7. ASSUME NEW c \in Log(head)', c # n
      PROVE  c \in Log(head)
  <2>1. c \in DOMAIN objects
    BY <1>1, <1>7 DEF Log
  <2>2. ASSUME NEW H \in Histories, head \in H
        PROVE  c \in H
    BY <1>1, <1>3, <1>7, <2>2 DEF Log
  <2> QED
    BY <2>1, <2>2 DEF Log
<1> QED
  BY <1>1, <1>5, <1>6, <1>7 DEF n

(* A new commit that records a delta is its introduction only if no commit    *)
(* recorded it before.                                                        *)
LEMMA CommitIntroduces ==
  ASSUME HistoryInv, NEW files, MakeCommit(files, tracking), NEW d \in DOMAIN tracking.deltas
  PROVE  Introduction(d)' = IF Recording(d) = {} THEN made + 1 ELSE Introduction(d)
<1> DEFINE n == made + 1
<1>1. /\ Log(head)' = Log(head) \cup {n}
      /\ \A c \in Log(head) : objects'[c] = objects[c]
      /\ objects'[n].tracking = tracking
  BY CommitExtendsLog, LogInside
<1>2. Recording(d) \subseteq Nat /\ n \in Nat /\ \A c \in Recording(d) : c < n
  BY LogInside, MadeIds DEF Recording
<1> HIDE DEF n
<1>3. Recording(d)' = Recording(d) \cup {n}
  BY <1>1 DEF Recording
<1>4. Introduction(d)' = Min(Recording(d) \cup {n})
  BY <1>3 DEF Introduction
<1>5. CASE Recording(d) = {}
  <2>1. Min({n}) = n
    BY <1>2, LeastExists
  <2> QED
    BY <1>4, <1>5, <2>1 DEF n
<1>6. CASE Recording(d) # {}
  <2> DEFINE m == Min(Recording(d))
             k == Min(Recording(d) \cup {n})
  <2>1. m \in Recording(d) /\ \A x \in Recording(d) : m <= x
    BY <1>2, <1>6, LeastExists
  <2>2. k \in Recording(d) \cup {n} /\ \A x \in Recording(d) \cup {n} : k <= x
    BY <1>2, LeastExists
  <2> HIDE DEF m, k
  <2>3. k <= m /\ m < n
    BY <1>2, <2>1, <2>2
  <2>4. k \in Recording(d)
    BY <1>2, <2>1, <2>2, <2>3
  <2>5. k = m
    BY <1>2, <2>1, <2>3, <2>4
  <2> QED
    BY <1>4, <1>6, <2>5 DEF Introduction, m, k
<1> QED
  BY <1>5, <1>6

(* CommittingTrackingIsNeutral: a commit of the tracking file alone changes no *)
(* verdict.                                                                     *)
THEOREM CommitIsNeutral == Spec => CommittingTrackingIsNeutral
<1>1. HistoryInv /\ MakeCommit(objects[head].files, tracking) => DriftStatus' = DriftStatus
  <2> SUFFICES ASSUME HistoryInv, MakeCommit(objects[head].files, tracking)
               PROVE  DriftStatus' = DriftStatus
    OBVIOUS
  <2>0. PICK n, cp : n = made + 1 /\ cp = tracking.checkpoint
    OBVIOUS
  <2>1. /\ head' = n /\ tracking' = tracking
        /\ DOMAIN objects' = DOMAIN objects \cup {n}
        /\ \A c \in DOMAIN objects : objects'[c] = objects[c]
        /\ objects'[n].files = objects[head].files
    BY <2>0, CommitExtendsLog DEF MakeCommit
  <2>2. head \in DOMAIN objects /\ cp # n
    BY <2>0, MadeIds DEF HistoryInv, TypeOK, Anchored
  <2>3. Resolves(cp)' <=> Resolves(cp)
    BY <2>1, <2>2 DEF Resolves
  <2>4. CASE Resolves(cp)
    <3>1. cp \in DOMAIN objects
      BY <2>4 DEF Resolves
    <3>2. /\ DiffNames(cp, n)' = DiffNames(cp, head)
          /\ \A c \in DOMAIN objects : DiffNames(cp, c)' = DiffNames(cp, c)
      BY <2>1, <2>2, <3>1 DEF DiffNames
    <3>3. Changed' = Changed
      BY <2>0, <2>1, <3>2 DEF Changed
    <3>4. ASSUME NEW d \in DOMAIN tracking.deltas
          PROVE  Coverage(d)' = Coverage(d)
      <4>1. DiffNames(cp, Introduction(d))' = DiffNames(cp, Introduction(d))
        <5>1. CASE Recording(d) = {}
          <6>1. Introduction(d) = head /\ Introduction(d)' = n
            BY <2>0, <5>1, CommitIntroduces DEF Introduction
          <6> QED
            BY <3>2, <6>1 DEF DiffNames
        <5>2. CASE Recording(d) # {}
          <6>1. Introduction(d) \in DOMAIN objects /\ Introduction(d)' = Introduction(d)
            BY <5>2, CommitIntroduces, FirstRecord
          <6> QED
            BY <2>1, <3>1, <6>1 DEF DiffNames
        <5> QED
          BY <5>1, <5>2
      <4> QED
        BY <2>0, <2>1, <4>1 DEF Coverage
    <3>5. TrackedBy' = TrackedBy
      BY <2>1, <3>3, <3>4 DEF TrackedBy
    <3>6. UNION {Coverage(d) : d \in TrackedBy}' = UNION {Coverage(d) : d \in TrackedBy}
      <4>1. \A d \in TrackedBy : Coverage(d)' = Coverage(d)
        BY <3>4 DEF TrackedBy
      <4> QED
        BY <3>5, <4>1
    <3> QED
      BY <2>0, <2>1, <2>3, <3>3, <3>6 DEF DriftStatus
  <2>5. CASE ~Resolves(cp)
    BY <2>0, <2>1, <2>3, <2>5 DEF DriftStatus
  <2> QED
    BY <2>4, <2>5
<1> QED
  BY <1>1, HistoryKept, PTL DEF Spec, CommittingTrackingIsNeutral

-----------------------------------------------------------------------------
(* CommandsMoveDrift. *)

LEMMA DeltasMoveDrift ==
  ASSUME HistoryInv, DeltaCommand, DriftStatus' # DriftStatus
  PROVE  {DriftStatus, DriftStatus'} = {"drifted", "tracked"}
<1>1. tracking'.checkpoint = tracking.checkpoint /\ UNCHANGED <<objects, head, made>>
  BY DeltaCommandMoves
<1>2. Resolves(tracking.checkpoint)' = Resolves(tracking.checkpoint) /\ Changed' = Changed
  BY <1>1 DEF Resolves, Changed, DiffNames
<1>3. Resolves(tracking.checkpoint) /\ Changed # {}
  BY <1>1, <1>2 DEF DriftStatus
<1>4. DriftStatus \in {"drifted", "tracked"}
  BY <1>3 DEF DriftStatus
<1>5. DriftStatus' \in {"drifted", "tracked"}
  BY <1>1, <1>2, <1>3 DEF DriftStatus
<1> QED
  BY <1>4, <1>5

(* A delta the branch never recorded counts as introduced at HEAD. *)
LEMMA NewDeltaTracks ==
  ASSUME HistoryInv, AddDelta, DriftStatus = "drifted", Recording(Len(tracking.deltas) + 1) = {}
  PROVE  DriftStatus' = "tracked"
<1>0. PICK d, delta : /\ d = Len(tracking.deltas) + 1
                      /\ delta = [status |-> "live", origin |-> tracking.checkpoint]
  OBVIOUS
<1>1. tracking \in Tracking /\ tracking.deltas \in Seq(Delta) /\ delta \in Delta
  BY <1>0 DEF HistoryInv, TypeOK, Tracking, Delta, DeltaStatuses
<1>2. /\ tracking'.deltas = Append(tracking.deltas, delta)
      /\ tracking'.checkpoint = tracking.checkpoint
      /\ UNCHANGED <<objects, head, made>>
  BY <1>0, <1>1, DeltaAppended DEF AddDelta
<1>3. d \in DOMAIN tracking'.deltas /\ tracking'.deltas[d] = delta
  BY <1>0, <1>1, <1>2, AppendProperties, LenProperties
<1>4. Recording(d)' = Recording(d) /\ Changed' = Changed
  <2>1. Log(head)' = Log(head)
    BY <1>2 DEF Log, Histories
  <2> QED
    BY <1>2, <2>1 DEF Recording, Changed, DiffNames
<1>5. Coverage(d)' = Changed
  <2>1. Introduction(d)' = head
    BY <1>0, <1>2, <1>4 DEF Introduction
  <2>2. DiffNames(tracking.checkpoint, Introduction(d))' = Changed
    BY <1>2, <2>1 DEF Changed, DiffNames
  <2> QED
    BY <1>0, <1>2, <1>3, <2>2 DEF Coverage
<1>6. Resolves(tracking.checkpoint) /\ Changed # {}
  BY DEF DriftStatus
<1>7. d \in TrackedBy'
  BY <1>3, <1>4, <1>5, <1>6 DEF TrackedBy
<1>8. Changed' \subseteq (UNION {Coverage(x) : x \in TrackedBy})'
  BY <1>4, <1>5, <1>7
<1>9. Resolves(tracking.checkpoint)'
  BY <1>2, <1>6 DEF Resolves
<1> QED
  BY <1>4, <1>6, <1>8, <1>9 DEF DriftStatus

LEMMA ReviewEndsCycle ==
  ASSUME HistoryInv, NEW c \in DOMAIN objects, MoveCheckpoint(c)
  PROVE  /\ DriftStatus' # "tracked"
         /\ tracking'.checkpoint = head => DriftStatus' = "clean"
<1>1. /\ tracking \in Tracking /\ c \in CommitIds
  BY MadeIds DEF HistoryInv, TypeOK
<1>2. /\ tracking'.deltas = tracking.deltas /\ tracking'.checkpoint = c
      /\ UNCHANGED <<objects, head, made>> /\ Live = {}
  BY <1>1, CheckpointMoves DEF MoveCheckpoint
<1>3. \A d \in DOMAIN tracking'.deltas : Coverage(d)' = {}
  BY <1>2 DEF Coverage, Live
<1>4. TrackedBy' = {}
  BY <1>3 DEF TrackedBy
<1>5. DriftStatus' # "tracked"
  BY <1>4 DEF DriftStatus
<1>6. tracking'.checkpoint = head => DriftStatus' = "clean"
  BY <1>2 DEF DriftStatus, Resolves, Changed, DiffNames
<1> QED
  BY <1>5, <1>6

(* CommandsMoveDrift: delta commands move between drifted and tracked drift    *)
(* only, a delta with a fresh ID tracks all of the drift, and a review ends    *)
(* the cycle.                                                                  *)
THEOREM CommandsMoveDriftAsPromised == Spec => CommandsMoveDrift
<1>1. HistoryInv /\ DeltaCommand /\ DriftStatus' # DriftStatus
        => {DriftStatus, DriftStatus'} = {"drifted", "tracked"}
  BY DeltasMoveDrift
<1>2. HistoryInv /\ AddDelta /\ DriftStatus = "drifted" /\ Recording(Len(tracking.deltas) + 1) = {}
        => DriftStatus' = "tracked"
  BY NewDeltaTracks
<1>3. HistoryInv /\ Review => /\ DriftStatus' # "tracked"
                              /\ tracking'.checkpoint = head => DriftStatus' = "clean"
  BY ReviewEndsCycle DEF Review
<1> QED
  BY <1>1, <1>2, <1>3, HistoryKept, PTL DEF Spec, CommandsMoveDrift
=============================================================================
