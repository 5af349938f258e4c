------------------------------- MODULE Charter -------------------------------
(***************************************************************************)
(* One charter of the registry: the groups and the entries CHARTER.yaml     *)
(* holds, the tracking files beside it, and the commands that change them   *)
(* ("charter create", "spec create", "charter add-spec", "charter           *)
(* remove-spec").  The order in which every projection lists the entries    *)
(* and the cycle a refused command reports are the algorithms of            *)
(* domain/charter.go.                                                        *)
(*                                                                         *)
(* A slug is a number, and the alphabetical order of slugs is the order of  *)
(* numbers.  Dependencies are a set: Validate refuses a repeated one.  A    *)
(* refused command writes nothing and is a stuttering step.                  *)
(***************************************************************************)
EXTENDS Naturals, FiniteSets, SequencesExt

CONSTANTS
  Slugs,        \* specification slugs, numbered in alphabetical order
  Groups,       \* group keys
  GroupOrders,  \* values of --group-order
  EntryOrders   \* values of --order

ASSUME SlugsAssumption == Slugs \subseteq Nat /\ IsFiniteSet(Slugs)
ASSUME OrdersAssumption == GroupOrders \subseteq Nat /\ EntryOrders \subseteq Nat

VARIABLES
  groups,    \* the order of every group of the charter, by key
  entries,   \* the entries of the charter, by slug
  trackings  \* the slugs whose tracking file exists

vars == <<groups, entries, trackings>>

Entry == [group: Groups, order: EntryOrders, deps: SUBSET Slugs]

PartialFunctions(S, T) == UNION {[D -> T] : D \in SUBSET S}

TypeOK ==
  /\ groups \in PartialFunctions(Groups, GroupOrders)
  /\ DOMAIN entries \subseteq Slugs
  /\ \A s \in DOMAIN entries : entries[s] \in Entry
  /\ trackings \subseteq Slugs

(* "charter create" may be given groups, never entries. *)
Init ==
  /\ groups \in PartialFunctions(Groups, GroupOrders)
  /\ entries = << >>
  /\ trackings = {}

-----------------------------------------------------------------------------
(* The order of the entries.  gs and es are the groups and the entries of a *)
(* charter, stored or about to be.                                           *)

(* Group order, then entry order, then slug. *)
RanksBefore(gs, es, s, t) ==
  LET group(x) == gs[es[x].group]
      order(x) == es[x].order
  IN \/ group(s) < group(t)
     \/ group(s) = group(t) /\ order(s) < order(t)
     \/ group(s) = group(t) /\ order(s) = order(t) /\ s < t

(* The entries of S from the first to the last of this order. *)
Ranked(gs, es, S) ==
  CHOOSE q \in [1 .. Cardinality(S) -> S] :
    \A i, j \in 1 .. Cardinality(S) : i < j => RanksBefore(gs, es, q[i], q[j])

KnownDeps(es, s) == es[s].deps \cap DOMAIN es

KahnStart(gs, es) ==
  [queue   |-> Ranked(gs, es, {s \in DOMAIN es : KnownDeps(es, s) = {}}),
   degree  |-> [s \in DOMAIN es |-> Cardinality(KnownDeps(es, s))],
   ordered |-> << >>]

(* Mutant: what becomes ready joins the end of the queue, which is not      *)
(* sorted again.                                                             *)
KahnStep_Unsorted(gs, es, k) ==
  LET current    == Head(k.queue)
      dependents == {s \in DOMAIN es : current \in es[s].deps}
      degree     == [s \in DOMAIN es |-> IF s \in dependents THEN k.degree[s] - 1 ELSE k.degree[s]]
      ready      == {s \in dependents : degree[s] = 0}
  IN [queue   |-> Tail(k.queue) \o Ranked(gs, es, ready),
      degree  |-> degree,
      ordered |-> Append(k.ordered, current)]

KahnStep(gs, es, k) ==
  LET current    == Head(k.queue)
      dependents == {s \in DOMAIN es : current \in es[s].deps}
      degree     == [s \in DOMAIN es |-> IF s \in dependents THEN k.degree[s] - 1 ELSE k.degree[s]]
      ready      == {s \in dependents : degree[s] = 0}
  IN [queue   |-> Ranked(gs, es, ToSet(Tail(k.queue)) \cup ready),
      degree  |-> degree,
      ordered |-> Append(k.ordered, current)]

KahnNext(gs, es, k) == IF k.queue = << >> THEN k ELSE KahnStep(gs, es, k)

(* At most one entry leaves the queue per round. *)
Kahn(gs, es) ==
  LET round[n \in 0 .. Cardinality(DOMAIN es)] ==
        IF n = 0 THEN KahnStart(gs, es) ELSE KahnNext(gs, es, round[n - 1])
  IN round[Cardinality(DOMAIN es)]

Blocked(gs, es) ==
  LET degree == Kahn(gs, es).degree IN {s \in DOMAIN es : degree[s] > 0}

(* What every projection lists: the dependency order or, when there is none *)
(* because of a cycle, the rank alone.                                       *)
OrderedSpecs(gs, es) ==
  IF Blocked(gs, es) = {} THEN Kahn(gs, es).ordered ELSE Ranked(gs, es, DOMAIN es)

FirstBlockedDep(gs, es, s) == Head(Ranked(gs, es, KnownDeps(es, s) \cap Blocked(gs, es)))

(* The depth-first search for a cycle never backtracks: a blocked entry has *)
(* a blocked dependency, so it walks from the first blocked entry until it   *)
(* meets an entry of its own path.                                           *)
WalkNext(gs, es, p) ==
  LET next == FirstBlockedDep(gs, es, Last(p))
  IN IF Contains(p, next) THEN p ELSE Append(p, next)

Walk(gs, es) ==
  LET path[n \in 0 .. Cardinality(DOMAIN es)] ==
        IF n = 0 THEN <<Head(Ranked(gs, es, Blocked(gs, es)))>> ELSE WalkNext(gs, es, path[n - 1])
  IN path[Cardinality(DOMAIN es)]

(* Mutant: the path is reported from its start. *)
CycleSlugs_WholePath(gs, es) == Walk(gs, es)

(* The cycle is the path from the entry that was met again. *)
CycleSlugs(gs, es) ==
  LET walk == Walk(gs, es)
      back == FirstBlockedDep(gs, es, Last(walk))
  IN SubSeq(walk, SelectInSeq(walk, LAMBDA s : s = back), Len(walk))

-----------------------------------------------------------------------------
(* Commands. *)

(* Mutant: cycles are not looked for. *)
Accepted_NoCycle(gs, es) ==
  \A s \in DOMAIN es :
    /\ es[s].group \in DOMAIN gs
    /\ s \notin es[s].deps
    /\ es[s].deps \subseteq DOMAIN es

(* Charter.Validate. *)
Accepted(gs, es) ==
  /\ \A s \in DOMAIN es :
       /\ es[s].group \in DOMAIN gs
       /\ s \notin es[s].deps
       /\ es[s].deps \subseteq DOMAIN es
  /\ Blocked(gs, es) = {}

(* The write itself: the audit of the previewed repository wants a tracking *)
(* file for every entry of the charter.                                      *)
Apply(gs, es, files) ==
  /\ DOMAIN es \subseteq files
  /\ Accepted(gs, es)
  /\ groups' = gs
  /\ entries' = es
  /\ trackings' = files

(* Mutant: a new group comes one place after the order it was given. *)
EnsuredGroups_After(g, order) ==
  [k \in DOMAIN groups \cup {g} |-> IF k \in DOMAIN groups THEN groups[k] ELSE order + 1]

(* A group that exists keeps its order, whatever the command was given; one *)
(* that does not needs an order.                                             *)
EnsuredGroups(g, order) ==
  [k \in DOMAIN groups \cup {g} |-> IF k \in DOMAIN groups THEN groups[k] ELSE order]

WithEntry(slug, entry) == [s \in DOMAIN entries \cup {slug} |-> IF s = slug THEN entry ELSE entries[s]]

CreateSpec(slug, entry, order) ==
  /\ slug \notin trackings
  /\ Apply(EnsuredGroups(entry.group, order), WithEntry(slug, entry), trackings \cup {slug})

(* An entry that is registered already is replaced. *)
AddSpec(slug, entry, order) ==
  /\ slug \in trackings
  /\ Apply(EnsuredGroups(entry.group, order), WithEntry(slug, entry), trackings)

Without(slug) == [s \in DOMAIN entries \ {slug} |-> entries[s]]

(* Mutant: removing an entry drops it from the dependencies of the others. *)
RemoveSpec_Cascade(slug) ==
  /\ slug \in DOMAIN entries
  /\ Apply(groups,
           [s \in DOMAIN entries \ {slug} |-> [entries[s] EXCEPT !.deps = @ \ {slug}]],
           trackings)

(* The tracking file stays. *)
RemoveSpec(slug) ==
  /\ slug \in DOMAIN entries
  /\ \A s \in DOMAIN entries \ {slug} : slug \notin entries[s].deps
  /\ Apply(groups, Without(slug), trackings)

(* A tracking file lost outside specctl (a git checkout, an editor).  With  *)
(* one lost, its spec can be created again or its entry removed; with two,   *)
(* the audit refuses every command until a file is restored.                 *)
LoseTracking(slug) ==
  /\ slug \in trackings
  /\ trackings' = trackings \ {slug}
  /\ UNCHANGED <<groups, entries>>

Next ==
  \/ \E s \in Slugs, e \in Entry, o \in GroupOrders : CreateSpec(s, e, o)
  \/ \E s \in Slugs, e \in Entry, o \in GroupOrders : AddSpec(s, e, o)
  \/ \E s \in Slugs : RemoveSpec(s)
  \/ \E s \in Slugs : LoseTracking(s)

Spec == Init /\ [][Next]_vars

-----------------------------------------------------------------------------
(* Properties. *)

(* Whatever was added, replaced, recreated and removed, the dependencies of *)
(* the stored charter can be honoured: every set of entries has a member     *)
(* that depends on none of them.                                             *)
DependenciesAcyclic ==
  \A S \in (SUBSET DOMAIN entries) \ {{}} : \E s \in S : entries[s].deps \cap S = {}

HonoursDependencies(es, order) ==
  \A i, j \in DOMAIN order : order[i] \in es[order[j]].deps => i < j

(* The charter is listed in the best order its dependencies allow: of all   *)
(* the orders that put every entry after its dependencies, OrderedSpecs is   *)
(* the one whose first difference from any other ranks first.                *)
OrderedIsLeast ==
  LET listed == OrderedSpecs(groups, entries)
      orders == {o \in SetToSeqs(DOMAIN entries) : HonoursDependencies(entries, o)}
  IN /\ listed \in orders
     /\ \A o \in orders \ {listed} :
          LET i == CHOOSE k \in DOMAIN o : /\ o[k] # listed[k]
                                           /\ \A j \in 1 .. k - 1 : o[j] = listed[j]
          IN RanksBefore(groups, entries, listed[i], o[i])

(* A command refused for a cycle names the cycle it would close: each slug  *)
(* depends on the next, the last on the first, no slug is named twice, and   *)
(* the entry that was asked for is among them.                               *)
RefusedCycleIsReal ==
  \A slug \in Slugs, entry \in Entry :
    LET es == WithEntry(slug, entry)
        cycle == CycleSlugs(groups, es)
    IN ( /\ entry.group \in DOMAIN groups
         /\ entry.deps \subseteq DOMAIN es \ {slug}
         /\ Blocked(groups, es) # {} )
       => /\ slug \in ToSet(cycle)
          /\ IsInjective(cycle)
          /\ \A i \in DOMAIN cycle : cycle[(i % Len(cycle)) + 1] \in es[cycle[i]].deps

ListedBefore(order, s, t) == \E i, j \in DOMAIN order : i < j /\ order[i] = s /\ order[j] = t

(* Registering a new entry or removing one leaves the others in the order   *)
(* they had: a reader that walks the charter is never reshuffled by          *)
(* somebody else's specification.                                            *)
OthersKeepTheirOrder ==
  [][DOMAIN entries # DOMAIN entries' =>
       \A s, t \in DOMAIN entries \cap DOMAIN entries' :
         ListedBefore(OrderedSpecs(groups, entries), s, t)
           <=> ListedBefore(OrderedSpecs(groups', entries'), s, t)]_vars
=============================================================================
