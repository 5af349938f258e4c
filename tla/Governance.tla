----------------------------- MODULE Governance -----------------------------
(***************************************************************************)
(* What one specification promises its readers, without commands, intents   *)
(* or files: requirements are promised, proven, doubted and retired; work   *)
(* (the deltas) is finished only when all it touches is proven or retired,  *)
(* and from then on nobody may doubt what it touched or add to it; what is  *)
(* settled is published once, when no work is going on.                      *)
(***************************************************************************)
EXTENDS Naturals, Sequences

VARIABLES
  stage,     \* the stage of every requirement
  owner,     \* the work that introduced it
  work,      \* the stage of every piece of work
  aims,      \* the requirements it is about, besides those it introduced
  published  \* the work that a revision has recorded

gov == <<stage, owner, work, aims, published>>

Init ==
  /\ stage = << >> /\ owner = << >>
  /\ work = << >> /\ aims = << >>
  /\ published = {}

Current == {r \in DOMAIN stage : stage[r] # "retired"}

Settled == {d \in DOMAIN work : work[d] \in {"done", "dropped"}}

Touches(d) == aims[d] \cup {r \in DOMAIN owner : owner[r] = d}

Met(d) == Touches(d) # {} /\ \A r \in Touches(d) : stage[r] \in {"proven", "retired"}

-----------------------------------------------------------------------------
(* Work. *)

Open(about) ==
  /\ about \subseteq Current
  /\ work' = Append(work, "ongoing")
  /\ aims' = Append(aims, about)
  /\ UNCHANGED <<stage, owner, published>>

Turn(d, from, to) ==
  /\ work[d] \in from
  /\ work' = [work EXCEPT ![d] = to]
  /\ UNCHANGED <<stage, owner, aims, published>>

Finish(d) == Met(d) /\ Turn(d, {"ongoing"}, "done")

Drop(d) ==
  /\ \A r \in Current : owner[r] # d
  /\ Turn(d, {"ongoing", "parked"}, "dropped")

Redirect(d, about) ==
  /\ d \notin Settled
  /\ about \subseteq DOMAIN stage
  /\ aims' = [aims EXCEPT ![d] = about]
  /\ UNCHANGED <<stage, owner, work, published>>

-----------------------------------------------------------------------------
(* Requirements. *)

Promise(d) ==
  /\ work[d] # "done"
  /\ stage' = Append(stage, "promised")
  /\ owner' = Append(owner, d)
  /\ UNCHANGED <<work, aims, published>>

(* The successor takes the place of the requirement in all unsettled work   *)
(* but the work that replaced it.                                            *)
Supersede(d, r) ==
  LET new == Len(stage) + 1
  IN /\ work[d] # "done"
     /\ stage[r] \in {"promised", "proven"}
     /\ stage' = Append([stage EXCEPT ![r] = "retired"], "promised")
     /\ owner' = Append(owner, d)
     /\ aims' = [e \in DOMAIN aims |->
                   IF e # d /\ e \notin Settled /\ r \in aims[e]
                   THEN (aims[e] \ {r}) \cup {new} ELSE aims[e]]
     /\ UNCHANGED <<work, published>>

Become(r, from, to) ==
  /\ stage[r] \in from
  /\ stage' = [stage EXCEPT ![r] = to]
  /\ UNCHANGED <<owner, work, aims, published>>

Prove(r)  == Become(r, {"promised", "doubted"}, "proven")
Retire(r) == Become(r, {"promised", "proven"}, "retired")

Doubt(r) ==
  /\ \A d \in DOMAIN work : work[d] = "done" => r \notin Touches(d)
  /\ Become(r, {"promised", "proven"}, "doubted")

-----------------------------------------------------------------------------

Publish ==
  /\ \A d \in DOMAIN work : work[d] # "ongoing"
  /\ \E d \in DOMAIN work : work[d] = "done"
  /\ \A d \in DOMAIN work : work[d] = "done" => Met(d)
  /\ Settled # published
  /\ published' = Settled
  /\ UNCHANGED <<stage, owner, work, aims>>

Next ==
  \/ \E about \in SUBSET DOMAIN stage : Open(about)
  \/ \E d \in DOMAIN work :
       \/ Turn(d, {"ongoing"}, "parked")
       \/ Turn(d, {"parked"}, "ongoing")
       \/ Finish(d)
       \/ Drop(d)
       \/ Promise(d)
       \/ \E about \in SUBSET DOMAIN stage : Redirect(d, about)
       \/ \E r \in DOMAIN stage : Supersede(d, r)
  \/ \E r \in DOMAIN stage : Prove(r) \/ Retire(r) \/ Doubt(r)
  \/ Publish

Spec == Init /\ [][Next]_gov
=============================================================================
