------------------------------ MODULE Ownership ------------------------------
(***************************************************************************)
(* Which specification governs a file, and what the commit hook reports of  *)
(* the staged files (infrastructure/ownership_resolver.go, ReadHook), while *)
(* the charter of module Charter changes, tracking files come and go and    *)
(* the source prefixes of the project are edited.                           *)
(*                                                                         *)
(* A path is a sequence of names and a directory a prefix of the paths      *)
(* below it; of two directories that contain a file the longer string is    *)
(* the longer sequence.  Every spec has a document of its own: spec create   *)
(* refuses one whose frontmatter names another spec.                         *)
(***************************************************************************)
EXTENDS Charter

CONSTANTS
  Names,         \* names of files and directories
  SourceFiles,   \* the paths of the repository outside .specs/
  DocOf,         \* the primary document of each slug
  Directories,   \* the directories that may be source prefixes or in a scope
  ScopeChoices   \* what spec create may be given as scope: sets of directories

(* The root is no directory for NormalizeRepoDir. *)
ASSUME PathsAssumption ==
  /\ SourceFiles \cup Directories \subseteq Seq(Names) \ {<< >>}
  /\ ScopeChoices \subseteq SUBSET Directories
ASSUME DocsAssumption == DocOf \in [Slugs -> SourceFiles] /\ IsInjective(DocOf)

VARIABLES
  scopes,   \* the scope of every tracking file
  prefixes  \* source_prefixes of specctl.yaml

ovars == <<vars, scopes, prefixes>>

OTypeOK ==
  /\ TypeOK
  /\ scopes \in [trackings -> ScopeChoices]
  /\ prefixes \subseteq Directories

-----------------------------------------------------------------------------
(* Ownership. *)

(* sc maps every spec with a tracking file to its scope; order gives every  *)
(* spec its place in the charter.                                            *)

(* Mutant: the shortest directory of the scope that holds the file. *)
ScopePrefix_Shortest(scope, path) ==
  CHOOSE d \in scope :
    /\ IsStrictPrefix(d, path)
    /\ \A e \in scope : IsStrictPrefix(e, path) => Len(d) <= Len(e)

(* The longest directory of the scope that holds the file. *)
ScopePrefix(scope, path) ==
  CHOOSE d \in scope :
    /\ IsStrictPrefix(d, path)
    /\ \A e \in scope : IsStrictPrefix(e, path) => Len(e) <= Len(d)

Claims(sc, path) ==
  {[slug |-> s, source |-> "design_doc", score |-> 0] : s \in {t \in DOMAIN sc : DocOf[t] = path}}
    \cup
  {[slug |-> s, source |-> "scope", score |-> Len(ScopePrefix(sc[s], path))] :
     s \in {t \in DOMAIN sc : DocOf[t] # path /\ \E d \in sc[t] : IsStrictPrefix(d, path)}}

(* A spec that is not registered has the first place, as the first entry.   *)
CharterOrder(gs, es) ==
  LET listed == OrderedSpecs(gs, es)
  IN [s \in Slugs |-> IF s \in DOMAIN es THEN SelectInSeq(listed, LAMBDA t : t = s) - 1 ELSE 0]

ClaimBefore(order, a, b) ==
  \/ a.source = "design_doc" /\ b.source = "scope"
  \/ a.source = b.source /\ a.score > b.score
  \/ /\ a.source = b.source /\ a.score = b.score
     /\ \/ order[a.slug] < order[b.slug]
        \/ order[a.slug] = order[b.slug] /\ a.slug < b.slug

(* The claims from the best to the worst. *)
Matches(sc, order, path) ==
  LET n == Cardinality(Claims(sc, path))
  IN CHOOSE q \in [1 .. n -> Claims(sc, path)] :
       \A i, j \in 1 .. n : i < j => ClaimBefore(order, q[i], q[j])

(* The matches as good as the first. *)
Contenders(matches) ==
  {c \in ToSet(matches) : c.source = matches[1].source /\ c.score = matches[1].score}

(* The spec that governs the file: none when nothing matches, and none when *)
(* the best matches tie.                                                     *)
GoverningSpec(sc, order, path) ==
  LET matches == Matches(sc, order, path)
  IN IF matches # << >> /\ Cardinality(Contenders(matches)) = 1 THEN {matches[1].slug} ELSE {}

Governs(path) == GoverningSpec(scopes, CharterOrder(groups, entries), path)

-----------------------------------------------------------------------------
(* The hook.  A staged file is a tracking file, CHARTER.yaml, specctl.yaml,  *)
(* or a source file.                                                         *)

StagedFiles ==
  [kind: {"tracking"}, slug: Slugs] \cup [kind: {"charter", "config"}]
    \cup [kind: {"source"}, path: SourceFiles]

NotStaged == [tracking |-> FALSE, doc |-> FALSE, files |-> {}]

NoReport == [affected |-> << >>, unmatched |-> {}, ignored |-> {}]

Considered(file) ==
  \/ file.kind # "source"
  \/ \E s \in trackings : DocOf[s] = file.path
  \/ \E p \in prefixes : IsStrictPrefix(p, file.path)

AffectedTargets(file) ==
  CASE file.kind = "config"   -> trackings
    [] file.kind = "charter"  -> DOMAIN entries
    [] file.kind = "tracking" -> {file.slug}
    [] OTHER                  -> Governs(file.path)

(* Mutant: the entry of a spec is always started anew. *)
Affected_Anew(affected, targets) ==
  [s \in DOMAIN affected \cup targets |-> IF s \in targets THEN NotStaged ELSE affected[s]]

(* A spec gets its entry with the first file that affects it. *)
Affected(affected, targets) ==
  [s \in DOMAIN affected \cup targets |-> IF s \in DOMAIN affected THEN affected[s] ELSE NotStaged]

HookEntry(report, file) ==
  LET targets  == AffectedTargets(file)
      affected == Affected(report.affected, targets)
  IN IF ~Considered(file) THEN [report EXCEPT !.ignored = @ \cup {file}]
     ELSE CASE file.kind \in {"config", "charter"} -> [report EXCEPT !.affected = affected]
            [] file.kind = "tracking" ->
                 [report EXCEPT !.affected = [affected EXCEPT ![file.slug].tracking = TRUE]]
            [] file.kind = "source" /\ targets = {} ->
                 [report EXCEPT !.unmatched = @ \cup {file}]
            [] OTHER ->
                 LET s == CHOOSE t \in targets : TRUE
                 IN [report EXCEPT !.affected =
                       IF file.path = DocOf[s] THEN [affected EXCEPT ![s].doc = TRUE]
                       ELSE [affected EXCEPT ![s].files = @ \cup {file}]]

(* What "specctl hook" reports of the staged files, in the order of stdin. *)
Hook(staged) ==
  LET report[n \in 0 .. Len(staged)] ==
        IF n = 0 THEN NoReport ELSE HookEntry(report[n - 1], staged[n])
  IN report[Len(staged)]

-----------------------------------------------------------------------------
(* Commands and files. *)

OInit ==
  /\ Init
  /\ scopes = << >>
  /\ prefixes \in SUBSET Directories

(* Mutant: the tracking file is written without its scope. *)
ScopedCreate_Unscoped(slug, entry, order, scope) ==
  /\ CreateSpec(slug, entry, order)
  /\ scopes' = [s \in trackings \cup {slug} |-> IF s = slug THEN {} ELSE scopes[s]]
  /\ UNCHANGED prefixes

ScopedCreate(slug, entry, order, scope) ==
  /\ CreateSpec(slug, entry, order)
  /\ scopes' = [s \in trackings \cup {slug} |-> IF s = slug THEN scope ELSE scopes[s]]
  /\ UNCHANGED prefixes

CharterEdit ==
  /\ \/ \E s \in Slugs, e \in Entry, o \in GroupOrders : AddSpec(s, e, o)
     \/ \E s \in Slugs : RemoveSpec(s)
  /\ UNCHANGED <<scopes, prefixes>>

LoseScopedTracking(slug) ==
  /\ LoseTracking(slug)
  /\ scopes' = [s \in trackings \ {slug} |-> scopes[s]]
  /\ UNCHANGED prefixes

(* Mutant: a prefix that is removed leaves the scopes of the specs too. *)
ConfigEdit_Scopes(prefix) ==
  /\ DOMAIN entries \subseteq trackings
  /\ \/ prefix \notin prefixes /\ prefixes' = prefixes \cup {prefix} /\ UNCHANGED scopes
     \/ /\ prefix \in prefixes /\ prefixes' = prefixes \ {prefix}
        /\ scopes' = [s \in trackings |-> IF scopes[s] = {prefix} THEN scopes[s]
                                          ELSE scopes[s] \ {prefix}]
  /\ UNCHANGED vars

(* "config add-prefix" and "config remove-prefix": nothing asks what is     *)
(* governed below the prefix.                                                *)
ConfigEdit(prefix) ==
  /\ DOMAIN entries \subseteq trackings
  /\ \/ prefix \notin prefixes /\ prefixes' = prefixes \cup {prefix}
     \/ prefix \in prefixes /\ prefixes' = prefixes \ {prefix}
  /\ UNCHANGED <<vars, scopes>>

ONext ==
  \/ \E s \in Slugs, e \in Entry, o \in GroupOrders, scope \in ScopeChoices :
       ScopedCreate(s, e, o, scope)
  \/ CharterEdit
  \/ \E s \in Slugs : LoseScopedTracking(s)
  \/ \E p \in Directories : ConfigEdit(p)

OSpec == OInit /\ [][ONext]_ovars

-----------------------------------------------------------------------------
(* Properties. *)

(* What is reported does not depend on the order in which git lists the     *)
(* staged files, although specs get their entries one file at a time (the     *)
(* lists of files a report holds are sets here).                              *)
HookIgnoresOrder ==
  \A f, g \in StagedFiles : \A before \in {<< >>} \cup {<<h>> : h \in StagedFiles \ {f, g}} :
    Hook(before \o <<f, g>>) = Hook(before \o <<g, f>>)

(* A spec governs a file exactly when the file is its document or, the      *)
(* document of nobody, lies deeper in its scope than in the scope of any      *)
(* other spec.                                                                *)
GovernsMostSpecific ==
  \A path \in SourceFiles, s \in trackings :
    Governs(path) = {s} <=>
      \/ DocOf[s] = path
      \/ /\ \A t \in trackings : DocOf[t] # path
         /\ \E d \in scopes[s] :
              /\ IsStrictPrefix(d, path)
              /\ \A t \in trackings \ {s} : \A e \in scopes[t] :
                   IsStrictPrefix(e, path) => Len(e) < Len(d)

(* Who governs a file is decided by the tracking files alone: nothing done  *)
(* to the charter or to the config moves a file from one spec to another, and *)
(* a spec that appears or disappears concerns its own files only.             *)
OwnershipIsLocal ==
  [][\A path \in SourceFiles :
       GoverningSpec(scopes', CharterOrder(groups', entries'), path) # Governs(path) =>
         \E s \in (trackings \ trackings') \cup (trackings' \ trackings) :
           \/ DocOf[s] = path
           \/ \E d \in (IF s \in trackings THEN scopes[s] ELSE scopes'[s]) :
                IsStrictPrefix(d, path)]_ovars
=============================================================================
