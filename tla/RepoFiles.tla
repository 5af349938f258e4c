----------------------------- MODULE RepoFiles -----------------------------
(***************************************************************************)
(* The files specctl governs - .specs/specctl.yaml, the CHARTER.yaml of    *)
(* each charter, a tracking file and a primary design document per spec -  *)
(* what the audit of the repository calls clean, and what every command    *)
(* that writes to them requires and plans.  Pure definitions: "d" is the   *)
(* contents of all files at one moment.                                     *)
(*                                                                         *)
(* A file holds what the audit looks at: the config its tags, a charter    *)
(* the specs it lists, a tracking file the tags of its requirements (one   *)
(* requirement per tag), a document whether its frontmatter names the spec.*)
(* Charter entries have no dependencies here and their group exists.        *)
(***************************************************************************)
EXTENDS Naturals, Sequences

CONSTANTS
  Charters,   \* charter names
  Slugs,      \* spec names within a charter
  Tags,       \* Gherkin tags
  Absent,     \* what a file that does not exist holds
  Plain,      \* a design document without specctl frontmatter
  Governed,   \* a design document whose frontmatter names its spec
  InitialDocs \* what a design document may hold before specctl governs it

Specs == Charters \X Slugs

ConfigFile      == <<"config">>
CharterFile(c)  == <<"charter", c>>
CharterOf(s)    == CharterFile(s[1])
TrackingOf(s)   == <<"tracking", s>>
DesignDoc(s)    == <<"doc", s>>

CharterFiles == {CharterFile(c) : c \in Charters}
Files == {ConfigFile} \cup CharterFiles
           \cup {TrackingOf(s) : s \in Specs} \cup {DesignDoc(s) : s \in Specs}

ASSUME KindsAssumption ==
  /\ Plain # Governed /\ Absent # Governed
  /\ \A listed \in (SUBSET Tags) \cup (SUBSET Specs) : listed \notin {Absent, Plain, Governed}
ASSUME DocsAssumption == InitialDocs \subseteq {Absent, Plain, Governed}

(* After "init": every tag configured, no charter, no spec; the design      *)
(* documents that exist were written by hand.                                *)
InitialDisks ==
  {[f \in Files |-> IF f = ConfigFile THEN Tags
                    ELSE IF f[1] = "doc" THEN docs[f[2]]
                    ELSE Absent] : docs \in [Specs -> InitialDocs]}

Exists(d, f) == d[f] # Absent

Contents == (SUBSET Tags) \cup (SUBSET Specs) \cup {Absent, Plain, Governed}

-----------------------------------------------------------------------------
(* Reading. *)

(* The strict reader accepts a tracking file whose document is governed and *)
(* whose tags are all configured.                                            *)
Readable(d, s) == d[DesignDoc(s)] = Governed /\ d[TrackingOf(s)] \subseteq d[ConfigFile]

Listed(d, s) == Exists(d, CharterOf(s)) /\ s \in d[CharterOf(s)]

(* EvaluateRepoSnapshot: no finding of severity "error" in the repository. A *)
(* tracking file no charter lists is not one.                                *)
Audit(d) ==
  \A s \in Specs :
    /\ Listed(d, s) => Exists(d, TrackingOf(s))
    /\ Exists(d, TrackingOf(s)) => Exists(d, CharterOf(s)) /\ Readable(d, s)

-----------------------------------------------------------------------------
(* Commands. *)

Commands ==
  [op: {"charter create"}, charter: Charters]
    \cup [op: {"spec create", "charter add-spec", "charter remove-spec"}, spec: Specs]
    \cup [op: {"req add"}, spec: Specs, tag: Tags]
    \cup [op: {"config add-tag", "config remove-tag"}, tag: Tags]

Write(f, data) == [file |-> f, data |-> data]

CreateCharterLegal(c, d) == ~Exists(d, CharterFile(c))

(* Mutant: SPEC_EXISTS is not checked. *)
CreateSpecLegal_Overwrites(s, d) == Exists(d, CharterOf(s))

(* A spec the charter lists but that has no tracking file can be created. *)
CreateSpecLegal(s, d) == ~Exists(d, TrackingOf(s)) /\ Exists(d, CharterOf(s))

(* Mutant: the charter lists the slug where the spec belongs. *)
CreateSpecWrites_BareSlug(s, d) ==
  <<Write(CharterOf(s), d[CharterOf(s)] \cup {s[2]}), Write(TrackingOf(s), {})>>
    \o IF d[DesignDoc(s)] = Governed THEN << >> ELSE <<Write(DesignDoc(s), Governed)>>

(* PlanSpecCreateWrites: charter, tracking file, and the document unless its *)
(* frontmatter was right already.                                            *)
CreateSpecWrites(s, d) ==
  <<Write(CharterOf(s), d[CharterOf(s)] \cup {s}), Write(TrackingOf(s), {})>>
    \o IF d[DesignDoc(s)] = Governed THEN << >> ELSE <<Write(DesignDoc(s), Governed)>>

AddSpecLegal(s, d) ==
  Exists(d, CharterOf(s)) /\ Exists(d, TrackingOf(s)) /\ Readable(d, s)

AddRequirementLegal(s, t, d) ==
  Exists(d, TrackingOf(s)) /\ Readable(d, s) /\ Listed(d, s) /\ t \in d[ConfigFile]

TagInUse(t, d) == \E s \in Specs : Exists(d, TrackingOf(s)) /\ t \in d[TrackingOf(s)]

(* TagInUse reads every tracking file strictly and fails with the first bad. *)
RemoveTagLegal(t, d) ==
  /\ t \in d[ConfigFile]
  /\ \A s \in Specs : Exists(d, TrackingOf(s)) => Readable(d, s)
  /\ ~TagInUse(t, d)

Legal(cmd, d) ==
  CASE cmd.op = "charter create"      -> CreateCharterLegal(cmd.charter, d)
    [] cmd.op = "spec create"         -> CreateSpecLegal(cmd.spec, d)
    [] cmd.op = "charter add-spec"    -> AddSpecLegal(cmd.spec, d)
    [] cmd.op = "charter remove-spec" -> Listed(d, cmd.spec)
    [] cmd.op = "req add"             -> AddRequirementLegal(cmd.spec, cmd.tag, d)
    [] cmd.op = "config add-tag"      -> cmd.tag \notin d[ConfigFile]
    [] cmd.op = "config remove-tag"   -> RemoveTagLegal(cmd.tag, d)

(* The writes in the order in which they are committed. *)
Plan(cmd, d) ==
  CASE cmd.op = "charter create"      -> <<Write(CharterFile(cmd.charter), {})>>
    [] cmd.op = "spec create"         -> CreateSpecWrites(cmd.spec, d)
    [] cmd.op = "charter add-spec"    -> <<Write(CharterOf(cmd.spec), d[CharterOf(cmd.spec)] \cup {cmd.spec})>>
    [] cmd.op = "charter remove-spec" -> <<Write(CharterOf(cmd.spec), d[CharterOf(cmd.spec)] \ {cmd.spec})>>
    [] cmd.op = "req add"             -> <<Write(TrackingOf(cmd.spec), d[TrackingOf(cmd.spec)] \cup {cmd.tag})>>
    [] cmd.op = "config add-tag"      -> <<Write(ConfigFile, d[ConfigFile] \cup {cmd.tag})>>
    [] cmd.op = "config remove-tag"   -> <<Write(ConfigFile, d[ConfigFile] \ {cmd.tag})>>

Targets(writes) == {writes[i].file : i \in DOMAIN writes}

(* The repository as it would be with the writes in place. *)
Overlay(d, writes) ==
  [f \in Files |-> IF f \in Targets(writes)
                   THEN writes[CHOOSE i \in DOMAIN writes : writes[i].file = f].data
                   ELSE d[f]]

(* A command run by itself is accepted, and what it leaves behind. *)
After(cmd, d) == Overlay(d, Plan(cmd, d))
Accepted(cmd, d) == Legal(cmd, d) /\ Audit(After(cmd, d))
=============================================================================
