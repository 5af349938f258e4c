-------------------------- MODULE RepoWritesProofs --------------------------
(***************************************************************************)
(* Machine-checked proofs about RepoWrites, for any number of processes,   *)
(* charters, specs and tags.                                                *)
(***************************************************************************)
EXTENDS RepoWrites, SequenceTheorems, TLAPS

-----------------------------------------------------------------------------
(* Files and what each can hold. *)

ContentsOf(f) ==
  IF f = ConfigFile THEN SUBSET Tags
  ELSE IF f[1] = "charter" THEN (SUBSET Specs) \cup {Absent}
  ELSE IF f[1] = "tracking" THEN (SUBSET Tags) \cup {Absent}
  ELSE {Absent, Plain, Governed}

Disks == {d \in [Files -> Contents] : \A f \in Files : d[f] \in ContentsOf(f)}

TypedWrite == {w \in WriteRecord : w.data \in ContentsOf(w.file)}

LEMMA FileKinds ==
  /\ ConfigFile \in Files
  /\ ContentsOf(ConfigFile) = SUBSET Tags
  /\ \A c \in Charters :
       /\ CharterFile(c) \in Files /\ CharterFile(c) \in CharterFiles
       /\ CharterFile(c) # ConfigFile
       /\ ContentsOf(CharterFile(c)) = (SUBSET Specs) \cup {Absent}
  /\ \A s \in Specs :
       /\ CharterOf(s) \in CharterFiles /\ CharterOf(s) \in Files
       /\ TrackingOf(s) \in Files /\ DesignDoc(s) \in Files
       /\ CharterOf(s) # ConfigFile /\ TrackingOf(s) # ConfigFile /\ DesignDoc(s) # ConfigFile
       /\ TrackingOf(s) \notin CharterFiles /\ DesignDoc(s) \notin CharterFiles
       /\ TrackingOf(s) # DesignDoc(s)
       /\ ContentsOf(CharterOf(s)) = (SUBSET Specs) \cup {Absent}
       /\ ContentsOf(TrackingOf(s)) = (SUBSET Tags) \cup {Absent}
       /\ ContentsOf(DesignDoc(s)) = {Absent, Plain, Governed}
<1>1. \A s \in Specs : s[1] \in Charters
  BY DEF Specs
<1>2. ConfigFile[1] = "config" /\ \A c \in Charters : CharterFile(c)[1] = "charter"
  BY DEF ConfigFile, CharterFile
<1>3. \A s \in Specs : TrackingOf(s)[1] = "tracking" /\ DesignDoc(s)[1] = "doc"
  BY DEF TrackingOf, DesignDoc
<1>4. /\ ConfigFile \in Files
      /\ \A c \in Charters : CharterFile(c) \in Files /\ CharterFile(c) \in CharterFiles
      /\ \A s \in Specs : TrackingOf(s) \in Files /\ DesignDoc(s) \in Files
  BY DEF Files, CharterFiles
<1>5. \A f \in CharterFiles : f[1] = "charter"
  BY <1>2 DEF CharterFiles
<1>6. \A s \in Specs : CharterOf(s) \in CharterFiles /\ CharterOf(s) \in Files
  BY <1>1, <1>4 DEF CharterOf
<1>7. \A s \in Specs : TrackingOf(s) \notin CharterFiles /\ DesignDoc(s) \notin CharterFiles
  BY <1>3, <1>5
<1> QED
  BY <1>2, <1>3, <1>4, <1>5, <1>6, <1>7 DEF ContentsOf

LEMMA TrackingIsItsSpec == \A s, u \in Specs : TrackingOf(s) = TrackingOf(u) => s = u
BY DEF TrackingOf

LEMMA ContentsAreContents == \A f : ContentsOf(f) \subseteq Contents
BY DEF ContentsOf, Contents

LEMMA HeldContents ==
  ASSUME NEW d \in Disks
  PROVE  /\ d[ConfigFile] \in SUBSET Tags
         /\ \A s \in Specs :
              /\ d[CharterOf(s)] # Absent => d[CharterOf(s)] \in SUBSET Specs
              /\ d[TrackingOf(s)] # Absent => d[TrackingOf(s)] \in SUBSET Tags
              /\ d[DesignDoc(s)] \in {Absent, Plain, Governed}
<1>1. \A f \in Files : d[f] \in ContentsOf(f)
  BY DEF Disks
<1> QED
  BY <1>1, FileKinds

(* No list of tags or specs is mistaken for a missing file. *)
LEMMA ListsExist == \A listed \in (SUBSET Tags) \cup (SUBSET Specs) : listed # Absent
BY KindsAssumption

-----------------------------------------------------------------------------
(* Sequences of writes. *)

LEMMA OneWrite ==
  ASSUME NEW T, NEW w \in T
  PROVE  <<w>> \in Seq(T)
OBVIOUS

LEMMA CommandWrites ==
  ASSUME NEW d \in Disks, NEW c \in Commands, Legal(c, d)
  PROVE  Plan(c, d) \in Seq(TypedWrite)
<1>1. \A f \in Files : \A data \in ContentsOf(f) : Write(f, data) \in TypedWrite
  BY ContentsAreContents DEF TypedWrite, WriteRecord, Write
<1>2. \A f \in Files : d[f] \in ContentsOf(f)
  BY DEF Disks
<1>3. ASSUME NEW s \in Specs, Exists(d, CharterOf(s))
      PROVE  d[CharterOf(s)] \in SUBSET Specs
  BY <1>2, <1>3, FileKinds DEF Exists
<1>4. ASSUME NEW s \in Specs, Exists(d, TrackingOf(s))
      PROVE  d[TrackingOf(s)] \in SUBSET Tags
  BY <1>2, <1>4, FileKinds DEF Exists
<1>5. CASE c.op = "charter create"
  <2>1. c.charter \in Charters
    BY <1>5 DEF Commands
  <2>2. Write(CharterFile(c.charter), {}) \in TypedWrite
    BY <1>1, <2>1, FileKinds
  <2> QED
    BY <1>5, <2>2, OneWrite DEF Plan
<1>6. CASE c.op = "spec create"
  <2> DEFINE s == c.spec
  <2>1. s \in Specs /\ Exists(d, CharterOf(s))
    BY <1>6 DEF Commands, Legal, CreateSpecLegal
  <2>2. /\ Write(CharterOf(s), d[CharterOf(s)] \cup {s}) \in TypedWrite
        /\ Write(TrackingOf(s), {}) \in TypedWrite
        /\ Write(DesignDoc(s), Governed) \in TypedWrite
    BY <1>1, <1>3, <2>1, FileKinds
  <2>3. CreateSpecWrites(s, d) \in Seq(TypedWrite)
    BY <2>2 DEF CreateSpecWrites
  <2> QED
    BY <1>6, <2>3 DEF Plan
<1>7. CASE c.op = "charter add-spec"
  <2>1. c.spec \in Specs /\ Exists(d, CharterOf(c.spec))
    BY <1>7 DEF Commands, Legal, AddSpecLegal
  <2>2. Write(CharterOf(c.spec), d[CharterOf(c.spec)] \cup {c.spec}) \in TypedWrite
    BY <1>1, <1>3, <2>1, FileKinds
  <2> QED
    BY <1>7, <2>2, OneWrite DEF Plan
<1>8. CASE c.op = "charter remove-spec"
  <2>1. c.spec \in Specs /\ Exists(d, CharterOf(c.spec))
    BY <1>8 DEF Commands, Legal, Listed
  <2>2. Write(CharterOf(c.spec), d[CharterOf(c.spec)] \ {c.spec}) \in TypedWrite
    BY <1>1, <1>3, <2>1, FileKinds
  <2> QED
    BY <1>8, <2>2, OneWrite DEF Plan
<1>9. CASE c.op = "req add"
  <2>1. c.spec \in Specs /\ c.tag \in Tags /\ Exists(d, TrackingOf(c.spec))
    BY <1>9 DEF Commands, Legal, AddRequirementLegal
  <2>2. Write(TrackingOf(c.spec), d[TrackingOf(c.spec)] \cup {c.tag}) \in TypedWrite
    BY <1>1, <1>4, <2>1, FileKinds
  <2> QED
    BY <1>9, <2>2, OneWrite DEF Plan
<1>10. CASE c.op = "config add-tag"
  <2>1. c.tag \in Tags
    BY <1>10 DEF Commands
  <2>2. Write(ConfigFile, d[ConfigFile] \cup {c.tag}) \in TypedWrite
    BY <1>1, <1>2, <2>1, FileKinds
  <2> QED
    BY <1>10, <2>2, OneWrite DEF Plan
<1>11. CASE c.op = "config remove-tag"
  <2>1. Write(ConfigFile, d[ConfigFile] \ {c.tag}) \in TypedWrite
    BY <1>1, <1>2, FileKinds
  <2> QED
    BY <1>11, <2>1, OneWrite DEF Plan
<1>12. c.op \in {"charter create", "spec create", "charter add-spec", "charter remove-spec",
                 "req add", "config add-tag", "config remove-tag"}
  BY DEF Commands
<1> QED
  BY <1>5, <1>6, <1>7, <1>8, <1>9, <1>10, <1>11, <1>12

-----------------------------------------------------------------------------
(* Type correctness.  TypeOK alone is not inductive: that a charter holds     *)
(* specs, and not tags, is what lets "charter add-spec" write a list of specs. *)

TypeInv ==
  /\ disk \in Disks
  /\ phase \in [Procs -> Phases]
  /\ cmd \in [Procs -> Commands \cup {Read, Nothing}]
  /\ todo \in [Procs -> Seq(TypedWrite)]
  /\ undo \in [Procs -> Seq(TypedWrite)]
  /\ seen \in [Procs -> [Files -> Contents]]
  /\ acked \subseteq Specs \X Tags

LEMMA InitialDisksTyped == InitialDisks \subseteq Disks
<1> SUFFICES ASSUME NEW docs \in [Specs -> InitialDocs]
             PROVE  [f \in Files |-> IF f = ConfigFile THEN Tags
                                     ELSE IF f[1] = "doc" THEN docs[f[2]]
                                     ELSE Absent] \in Disks
  BY DEF InitialDisks
<1> DEFINE held(f) == IF f = ConfigFile THEN Tags
                      ELSE IF f[1] = "doc" THEN docs[f[2]] ELSE Absent
<1>1. ASSUME NEW f \in Files
      PROVE  held(f) \in ContentsOf(f)
  <2>1. CASE f = ConfigFile
    BY <2>1 DEF ContentsOf
  <2>2. CASE f \in CharterFiles
    BY <2>2 DEF CharterFiles, CharterFile, ConfigFile, ContentsOf
  <2>3. ASSUME NEW s \in Specs, f = TrackingOf(s)
        PROVE  held(f) \in ContentsOf(f)
    BY <2>3 DEF TrackingOf, ConfigFile, ContentsOf
  <2>4. ASSUME NEW s \in Specs, f = DesignDoc(s)
        PROVE  held(f) \in ContentsOf(f)
    <3>1. docs[s] \in {Absent, Plain, Governed}
      BY DocsAssumption
    <3>2. f[1] = "doc" /\ f[2] = s /\ f # ConfigFile
      BY <2>4 DEF DesignDoc, ConfigFile
    <3> QED
      BY <3>1, <3>2 DEF ContentsOf
  <2> QED
    BY <2>1, <2>2, <2>3, <2>4 DEF Files
<1> HIDE DEF held
<1>2. \A f \in Files : held(f) \in Contents
  BY <1>1, ContentsAreContents
<1>3. [f \in Files |-> held(f)] \in Disks
  BY <1>1, <1>2 DEF Disks
<1> QED
  BY <1>3 DEF held

LEMMA InitTyped == Init => TypeInv
<1>1. \A f \in Files : Unread[f] \in Contents
  BY DEF Unread, Contents
<1>2. Unread \in [Files -> Contents]
  BY <1>1 DEF Unread
<1> QED
  BY <1>2, InitialDisksTyped, EmptySeq DEF Init, TypeInv, Phases

LEMMA UnreadTyped == Unread \in [Files -> Contents]
BY DEF Unread, Contents

(* A process that ends, in whatever way. *)
LEMMA DoneTyped ==
  ASSUME TypeInv, NEW p \in Procs, Done(p), UNCHANGED disk, acked' \subseteq Specs \X Tags
  PROVE  TypeInv'
<1>1. << >> \in Seq(TypedWrite)
  BY EmptySeq
<1> QED
  BY <1>1, UnreadTyped DEF Done, TypeInv, Phases

LEMMA ReqAddNames ==
  ASSUME NEW c \in Commands \cup {Read, Nothing}, c.op = "req add"
  PROVE  c \in Commands /\ c.spec \in Specs /\ c.tag \in Tags
<1>0. Read.op = "context" /\ Nothing.op = "none"
  BY DEF Read, Nothing
<1>1. c # Read /\ c # Nothing
  BY <1>0
<1>2. c \in [op: {"req add"}, spec: Specs, tag: Tags]
  BY <1>1 DEF Commands
<1> QED
  BY <1>1, <1>2

LEMMA DiskTyped ==
  ASSUME NEW d \in Disks, NEW w \in TypedWrite
  PROVE  [d EXCEPT ![w.file] = w.data] \in Disks
BY DEF Disks, TypedWrite, WriteRecord

LEMMA WrittenTyped ==
  ASSUME NEW writes \in Seq(TypedWrite), writes # << >>
  PROVE  /\ Head(writes) \in TypedWrite
         /\ Tail(writes) \in Seq(TypedWrite)
BY HeadTailProperties

LEMMA StepTyped ==
  ASSUME TypeInv, [Next]_vars
  PROVE  TypeInv'
<1>1. ASSUME NEW p \in Procs, NEW c \in Commands, Start(p, c)
      PROVE  TypeInv'
  <2>1. Plan(c, disk) \in Seq(TypedWrite)
    BY <1>1, CommandWrites DEF Start, TypeInv
  <2> QED
    BY <1>1, <2>1 DEF Start, TypeInv, Phases
<1>2. ASSUME NEW p \in Procs, StartRead(p)
      PROVE  TypeInv'
  BY <1>2 DEF StartRead, TypeInv, Phases
<1>3. ASSUME NEW p \in Procs, ReadTrackings(p)
      PROVE  TypeInv'
  <2>1. disk \in [Files -> Contents] /\ Absent \in Contents
    BY DEF TypeInv, Disks, Contents
  <2>2. [f \in Files |-> IF f \in CharterFiles THEN Absent ELSE disk[f]] \in [Files -> Contents]
    BY <2>1
  <2> QED
    BY <1>3, <2>2 DEF ReadTrackings, TypeInv, Phases
<1>4. ASSUME NEW p \in Procs, AcceptPreview(p)
      PROVE  TypeInv'
  BY <1>4, UnreadTyped DEF AcceptPreview, TypeInv, Phases
<1>5. ASSUME NEW p \in Procs,
             \/ RefusePreview(p) \/ FinishRead(p) \/ ReportFailure(p)
             \/ BackupFails(p) \/ Crash(p)
      PROVE  TypeInv'
  <2>1. Done(p) /\ UNCHANGED <<disk, acked>>
    BY <1>5 DEF RefusePreview, FinishRead, ReportFailure, BackupFails, Crash
  <2> QED
    BY <2>1, DoneTyped DEF TypeInv
<1>6. ASSUME NEW p \in Procs, ReportSuccess(p)
      PROVE  TypeInv'
  <2>1. cmd[p].op = "req add" => <<cmd[p].spec, cmd[p].tag>> \in Specs \X Tags
    BY ReqAddNames DEF TypeInv
  <2>2. acked' \subseteq Specs \X Tags
    BY <1>6, <2>1 DEF ReportSuccess, TypeInv
  <2> QED
    BY <1>6, <2>2, DoneTyped DEF ReportSuccess
<1>7. ASSUME NEW p \in Procs, Rename(p)
      PROVE  TypeInv'
  <2> DEFINE write == Head(todo[p])
             backup == Write(write.file, disk[write.file])
  <2>1. todo[p] \in Seq(TypedWrite) /\ undo[p] \in Seq(TypedWrite) /\ todo[p] # << >>
    BY <1>7 DEF Rename, Committing, TypeInv
  <2>2. write \in TypedWrite /\ Tail(todo[p]) \in Seq(TypedWrite)
    BY <2>1, WrittenTyped
  <2>3. backup \in TypedWrite
    BY <2>2, ContentsAreContents DEF TypedWrite, WriteRecord, Write, TypeInv, Disks
  <2>4. [disk EXCEPT ![write.file] = write.data] \in Disks
    BY <2>2, DiskTyped DEF TypeInv
  <2> HIDE DEF write, backup
  <2>5. <<backup>> \o undo[p] \in Seq(TypedWrite)
    BY <2>1, <2>3, ConcatProperties
  <2>6. /\ disk' = [disk EXCEPT ![write.file] = write.data]
        /\ undo' = [undo EXCEPT ![p] = <<backup>> \o undo[p]]
        /\ todo' = [todo EXCEPT ![p] = Tail(todo[p])]
        /\ UNCHANGED <<phase, cmd, seen, acked>>
    BY <1>7 DEF Rename, write, backup
  <2> QED
    BY <2>2, <2>4, <2>5, <2>6 DEF TypeInv
<1>8. ASSUME NEW p \in Procs, RenameFails(p)
      PROVE  TypeInv'
  BY <1>8 DEF RenameFails, TypeInv, Phases
<1>9. ASSUME NEW p \in Procs, Restore(p) \/ RestoreFails(p)
      PROVE  TypeInv'
  <2>1. undo[p] \in Seq(TypedWrite) /\ undo[p] # << >>
    BY <1>9 DEF Restore, RestoreFails, TypeInv
  <2>2. Head(undo[p]) \in TypedWrite /\ Tail(undo[p]) \in Seq(TypedWrite)
    BY <2>1, WrittenTyped
  <2>3. [disk EXCEPT ![Head(undo[p]).file] = Head(undo[p]).data] \in Disks
    BY <2>2, DiskTyped DEF TypeInv
  <2>4. /\ disk' \in Disks
        /\ undo' = [undo EXCEPT ![p] = Tail(undo[p])]
        /\ UNCHANGED <<phase, cmd, todo, seen, acked>>
    BY <1>9, <2>3 DEF Restore, RestoreFails, TypeInv
  <2> QED
    BY <2>2, <2>4 DEF TypeInv
<1>10. CASE UNCHANGED vars
  BY <1>10 DEF vars, TypeInv
<1> QED
  BY <1>1, <1>2, <1>3, <1>4, <1>5, <1>6, <1>7, <1>8, <1>9, <1>10 DEF Next, Step, Fault

(* Memory and disk hold only what their files can hold, under every fault. *)
THEOREM AlwaysTyped == Spec => []TypeInv
BY InitTyped, StepTyped, PTL DEF Spec

(* TypeOK: every process holds and writes only what the kind of the file     *)
(* admits, whatever happens to the other processes.                           *)
THEOREM TypeCorrect == Spec => []TypeOK
<1>1. Seq(TypedWrite) \subseteq Seq(WriteRecord)
  BY SeqDef DEF TypedWrite
<1>2. TypeInv => TypeOK
  BY <1>1 DEF TypeInv, TypeOK, Disks
<1> QED
  BY <1>2, AlwaysTyped, PTL

-----------------------------------------------------------------------------
(* Taking a write off a plan, and putting a backup on the undo list. *)

Entries(writes) == {writes[i] : i \in DOMAIN writes}

LEMMA TargetsOfEntries ==
  \A writes : Targets(writes) = {w.file : w \in Entries(writes)}
BY DEF Targets, Entries

LEMMA NoEntries == Entries(<< >>) = {} /\ Targets(<< >>) = {}
BY DEF Entries, Targets

LEMMA SplitEntries ==
  ASSUME NEW T, NEW writes \in Seq(T), writes # << >>
  PROVE  /\ Entries(writes) = {Head(writes)} \cup Entries(Tail(writes))
         /\ Targets(writes) = {Head(writes).file} \cup Targets(Tail(writes))
<1>1. /\ Tail(writes) \in Seq(T)
      /\ Len(Tail(writes)) = Len(writes) - 1
      /\ \A i \in 1 .. Len(Tail(writes)) : Tail(writes)[i] = writes[i + 1]
  BY HeadTailProperties
<1>2. /\ Len(writes) \in Nat /\ DOMAIN writes = 1 .. Len(writes) /\ Len(writes) # 0
      /\ DOMAIN Tail(writes) = 1 .. Len(Tail(writes))
  BY <1>1, LenProperties, EmptySeq
<1>3. Head(writes) = writes[1]
  OBVIOUS
<1>4. Entries(Tail(writes)) = {writes[i] : i \in 2 .. Len(writes)}
  <2>1. \A i \in 2 .. Len(writes) : i - 1 \in 1 .. Len(Tail(writes)) /\ Tail(writes)[i - 1] = writes[i]
    BY <1>1, <1>2
  <2>2. \A i \in 1 .. Len(Tail(writes)) : i + 1 \in 2 .. Len(writes) /\ Tail(writes)[i] = writes[i + 1]
    BY <1>1, <1>2
  <2>3. Entries(Tail(writes)) = {Tail(writes)[i] : i \in 1 .. Len(Tail(writes))}
    BY <1>2 DEF Entries
  <2>4. ASSUME NEW w \in Entries(Tail(writes))
        PROVE  w \in {writes[i] : i \in 2 .. Len(writes)}
    <3>1. PICK i \in 1 .. Len(Tail(writes)) : w = Tail(writes)[i]
      BY <2>3
    <3> QED
      BY <2>2, <3>1
  <2>5. ASSUME NEW i \in 2 .. Len(writes)
        PROVE  writes[i] \in Entries(Tail(writes))
    BY <2>1, <2>3
  <2> QED
    BY <2>4, <2>5
<1>5. 1 .. Len(writes) = {1} \cup 2 .. Len(writes)
  BY <1>2
<1>6. Entries(writes) = {Head(writes)} \cup Entries(Tail(writes))
  BY <1>2, <1>3, <1>4, <1>5 DEF Entries
<1> QED
  BY <1>6, TargetsOfEntries

LEMMA PushEntries ==
  ASSUME NEW T, NEW w \in T, NEW writes \in Seq(T)
  PROVE  /\ <<w>> \o writes \in Seq(T) /\ <<w>> \o writes # << >>
         /\ Entries(<<w>> \o writes) = {w} \cup Entries(writes)
         /\ Targets(<<w>> \o writes) = {w.file} \cup Targets(writes)
<1> DEFINE pushed == <<w>> \o writes
<1>1. /\ <<w>> \in Seq(T) /\ Len(<<w>>) = 1 /\ <<w>>[1] = w
  OBVIOUS
<1>2. /\ pushed \in Seq(T)
      /\ Len(pushed) = 1 + Len(writes)
      /\ \A i \in 1 .. 1 + Len(writes) : pushed[i] = IF i <= 1 THEN <<w>>[i] ELSE writes[i - 1]
  BY <1>1, ConcatProperties
<1> HIDE DEF pushed
<1>3. Len(writes) \in Nat /\ DOMAIN writes = 1 .. Len(writes) /\ DOMAIN pushed = 1 .. Len(pushed)
  BY <1>2, LenProperties
<1>4. pushed[1] = w /\ \A i \in 2 .. Len(pushed) : pushed[i] = writes[i - 1] /\ i - 1 \in DOMAIN writes
  BY <1>1, <1>2, <1>3
<1>5. \A i \in DOMAIN writes : i + 1 \in 2 .. Len(pushed) /\ pushed[i + 1] = writes[i]
  BY <1>2, <1>3
<1>6. DOMAIN pushed = {1} \cup 2 .. Len(pushed)
  BY <1>2, <1>3
<1>7. Entries(pushed) = {w} \cup Entries(writes)
  BY <1>4, <1>5, <1>6 DEF Entries
<1>8. pushed # << >>
  BY <1>2, <1>3, EmptySeq
<1> QED
  BY <1>2, <1>7, <1>8, TargetsOfEntries DEF pushed

LEMMA OneEntry ==
  ASSUME NEW T, NEW w \in T
  PROVE  /\ <<w>> \in Seq(T) /\ <<w>> # << >>
         /\ Head(<<w>>) = w /\ Tail(<<w>>) = << >>
         /\ Entries(<<w>>) = {w} /\ Targets(<<w>>) = {w.file}
<1>1. /\ <<w>> \in Seq(T) /\ DOMAIN <<w>> = {1} /\ <<w>>[1] = w
      /\ <<w>> # << >> /\ Head(<<w>>) = w /\ Tail(<<w>>) = << >>
  OBVIOUS
<1> QED
  BY <1>1, TargetsOfEntries DEF Entries

-----------------------------------------------------------------------------
(* Acknowledged requirements are kept when the users run one command at a    *)
(* time per target file.  AcknowledgedKept is not inductive: what a process   *)
(* plans to write and what it would restore must hold the acknowledged tags   *)
(* too, and that rests on no two processes ever sharing a target.             *)

Holds(data, t) == data # Absent /\ t \in data

Keeps(writes) ==
  \A w \in Entries(writes), s \in Specs, t \in Tags :
    (<<s, t>> \in acked /\ w.file = TrackingOf(s)) => Holds(w.data, t)

IdleHoldsNothing ==
  \A p \in Procs : (phase[p] = "idle" \/ cmd[p] = Read) => todo[p] = << >> /\ undo[p] = << >>

TargetsApart == \A p, q \in Procs : p # q => TargetsOf(p) \cap TargetsOf(q) = {}

NothingStale == \A p \in Procs : Keeps(todo[p]) /\ Keeps(undo[p])

(* A "req add" that has not failed is about to write its tag or has done so. *)
Adding(p) == phase[p] \in {"planned", "reading", "writing"} /\ cmd[p].op = "req add"

AddsItsTag ==
  \A p \in Procs : Adding(p) =>
    /\ TrackingOf(cmd[p].spec) \in TargetsOf(p)
    /\ todo[p] = << >> => Holds(disk[TrackingOf(cmd[p].spec)], cmd[p].tag)
    /\ todo[p] # << >> => /\ Tail(todo[p]) = << >>
                          /\ Head(todo[p]).file = TrackingOf(cmd[p].spec)
                          /\ Holds(Head(todo[p]).data, cmd[p].tag)

AckInv ==
  /\ IdleHoldsNothing
  /\ TargetsApart
  /\ NothingStale
  /\ AddsItsTag
  /\ AcknowledgedKept

(* One process moves; the others keep what they have in memory. *)
OthersWait(p) ==
  \A q \in Procs \ {p} : /\ phase'[q] = phase[q] /\ cmd'[q] = cmd[q]
                         /\ todo'[q] = todo[q] /\ undo'[q] = undo[q]

LEMMA DoneKeepsMemory ==
  ASSUME TypeInv, NEW p \in Procs, Done(p)
  PROVE  /\ OthersWait(p)
         /\ phase'[p] = "idle" /\ cmd'[p] = Nothing
         /\ todo'[p] = << >> /\ undo'[p] = << >>
BY DEF Done, TypeInv, OthersWait

LEMMA KeepsNothing == Keeps(<< >>) /\ Keeps(<< >>)'
BY NoEntries DEF Keeps

(* A process that ends, having acknowledged at most what the disk holds. *)
LEMMA EndKeepsAck ==
  ASSUME TypeInv, AckInv, NEW p \in Procs, Done(p), UNCHANGED <<disk, acked>>
  PROVE  AckInv'
<1>1. /\ OthersWait(p)
      /\ phase'[p] = "idle" /\ todo'[p] = << >> /\ undo'[p] = << >>
  BY DoneKeepsMemory
<1>2. IdleHoldsNothing'
  BY <1>1 DEF AckInv, IdleHoldsNothing, OthersWait
<1>3. TargetsApart'
  BY <1>1, NoEntries DEF AckInv, TargetsApart, TargetsOf, OthersWait
<1>4. NothingStale'
  BY <1>1, KeepsNothing DEF AckInv, NothingStale, Keeps, OthersWait
<1>5. AddsItsTag'
  BY <1>1 DEF AckInv, AddsItsTag, Adding, TargetsOf, OthersWait
<1>6. AcknowledgedKept'
  BY DEF AckInv, AcknowledgedKept, Exists
<1> QED
  BY <1>2, <1>3, <1>4, <1>5, <1>6 DEF AckInv

(* A process that reaches its next phase with nothing written. *)
LEMMA PhaseKeepsAck ==
  ASSUME TypeInv, AckInv, NEW p \in Procs, NEW next \in {"reading", "writing", "rollback"},
         phase[p] # "idle", phase[p] # "rollback",
         phase' = [phase EXCEPT ![p] = next],
         UNCHANGED <<disk, cmd, todo, undo, acked>>
  PROVE  AckInv'
<1>1. phase[p] \in {"planned", "reading", "writing"}
  BY DEF TypeInv, Phases
<1>2. phase'[p] = next /\ \A q \in Procs \ {p} : phase'[q] = phase[q]
  BY DEF TypeInv
<1>3. IdleHoldsNothing'
  BY <1>2 DEF AckInv, IdleHoldsNothing
<1>4. AddsItsTag'
  BY <1>1, <1>2 DEF AckInv, AddsItsTag, Adding, TargetsOf
<1> QED
  BY <1>3, <1>4
     DEF AckInv, TargetsApart, TargetsOf, NothingStale, Keeps, AcknowledgedKept, Exists

LEMMA CreateSpecEntries ==
  ASSUME NEW s, NEW d
  PROVE  /\ d[DesignDoc(s)] = Governed =>
              CreateSpecWrites(s, d) = <<Write(CharterOf(s), d[CharterOf(s)] \cup {s}),
                                         Write(TrackingOf(s), {})>>
         /\ d[DesignDoc(s)] # Governed =>
              CreateSpecWrites(s, d) = <<Write(CharterOf(s), d[CharterOf(s)] \cup {s}),
                                         Write(TrackingOf(s), {}),
                                         Write(DesignDoc(s), Governed)>>
<1> DEFINE a == Write(CharterOf(s), d[CharterOf(s)] \cup {s})
           b == Write(TrackingOf(s), {})
           e == Write(DesignDoc(s), Governed)
<1>1. CreateSpecWrites(s, d) = <<a, b>> \o IF d[DesignDoc(s)] = Governed THEN << >> ELSE <<e>>
  BY DEF CreateSpecWrites
<1> HIDE DEF a, b, e
<1>2. <<a, b>> \o << >> = <<a, b>> /\ <<a, b>> \o <<e>> = <<a, b, e>>
  <2> DEFINE T == {a, b, e}
             all == <<a, b>> \o <<e>>
  <2>1. <<a, b>> \in Seq(T) /\ <<e>> \in Seq(T) /\ <<a, b, e>> \in Seq(T)
    OBVIOUS
  <2>2. /\ Len(<<a, b>>) = 2 /\ Len(<<e>>) = 1 /\ Len(<<a, b, e>>) = 3
        /\ <<a, b>>[1] = a /\ <<a, b>>[2] = b /\ <<e>>[1] = e
        /\ <<a, b, e>>[1] = a /\ <<a, b, e>>[2] = b /\ <<a, b, e>>[3] = e
    OBVIOUS
  <2>3. /\ all \in Seq(T)
        /\ Len(all) = 3
        /\ \A i \in 1 .. 3 : all[i] = IF i <= 2 THEN <<a, b>>[i] ELSE <<e>>[i - 2]
    BY <2>1, <2>2, ConcatProperties
  <2> HIDE DEF all, T
  <2>4. all[1] = a /\ all[2] = b /\ all[3] = e
    BY <2>2, <2>3
  <2>5. \A i \in 1 .. 3 : all[i] = <<a, b, e>>[i]
    BY <2>2, <2>4
  <2>6. all = <<a, b, e>>
    BY <2>1, <2>2, <2>3, <2>5, SeqEqual
  <2>7. <<a, b>> \o << >> = <<a, b>>
    BY <2>1, ConcatEmptySeq
  <2> QED
    BY <2>6, <2>7 DEF all
<1>3. d[DesignDoc(s)] = Governed => CreateSpecWrites(s, d) = <<a, b>>
  BY <1>1, <1>2
<1>4. d[DesignDoc(s)] # Governed => CreateSpecWrites(s, d) = <<a, b, e>>
  BY <1>1, <1>2
<1> QED
  BY <1>3, <1>4 DEF a, b, e

(* A command that starts plans nothing that forgets an acknowledged tag. *)
LEMMA PlanKeeps ==
  ASSUME TypeInv, AcknowledgedKept, NEW c \in Commands, Legal(c, disk)
  PROVE  Keeps(Plan(c, disk))
<1> SUFFICES ASSUME NEW w \in Entries(Plan(c, disk)), NEW s \in Specs, NEW t \in Tags,
                    <<s, t>> \in acked, w.file = TrackingOf(s)
             PROVE  Holds(w.data, t)
  BY DEF Keeps
<1>1. disk[TrackingOf(s)] # Absent /\ t \in disk[TrackingOf(s)]
  BY DEF AcknowledgedKept, Exists
<1>2. ASSUME NEW f \in Files, NEW data, Plan(c, disk) = <<Write(f, data)>>
      PROVE  w.file = f /\ w.data = data
  <2>1. Entries(<<Write(f, data)>>) = {Write(f, data)}
    BY OneEntry
  <2> QED
    BY <1>2, <2>1 DEF Write
<1>3. \A u \in Specs : TrackingOf(s) # CharterOf(u)
  BY FileKinds
<1>4. CASE c.op = "spec create"
  <2> DEFINE u == c.spec
             writes == CreateSpecWrites(u, disk)
  <2>1. u \in Specs /\ disk[TrackingOf(u)] = Absent
    BY <1>4 DEF Commands, Legal, CreateSpecLegal, Exists
  <2>2. Entries(writes) \subseteq {Write(CharterOf(u), disk[CharterOf(u)] \cup {u}),
                                   Write(TrackingOf(u), {}), Write(DesignDoc(u), Governed)}
    <3> DEFINE a == Write(CharterOf(u), disk[CharterOf(u)] \cup {u})
               b == Write(TrackingOf(u), {})
               e == Write(DesignDoc(u), Governed)
    <3>1. writes = <<a, b>> \/ writes = <<a, b, e>>
      BY CreateSpecEntries
    <3> HIDE DEF a, b, e, writes
    <3>2. Entries(<<a, b>>) = {a, b} /\ Entries(<<a, b, e>>) = {a, b, e}
      BY DEF Entries
    <3>3. Entries(writes) \subseteq {a, b, e}
      BY <3>1, <3>2
    <3> QED
      BY <3>3 DEF a, b, e, writes
  <2>3. w \in Entries(writes)
    BY <1>4 DEF Plan
  <2>4. w.file \in {CharterOf(u), TrackingOf(u), DesignDoc(u)}
    BY <2>2, <2>3 DEF Write
  <2>5. TrackingOf(s) # DesignDoc(u)
    BY <2>1 DEF TrackingOf, DesignDoc
  <2> QED
    BY <1>1, <1>3, <2>1, <2>4, <2>5, TrackingIsItsSpec
<1>5. CASE c.op = "req add"
  <2>1. c.spec \in Specs /\ c.tag \in Tags
    BY <1>5 DEF Commands
  <2>2. /\ w.file = TrackingOf(c.spec)
        /\ w.data = disk[TrackingOf(c.spec)] \cup {c.tag}
    BY <1>2, <1>5, <2>1, FileKinds DEF Plan
  <2>3. disk[TrackingOf(s)] \in SUBSET Tags
    BY <1>1, FileKinds DEF TypeInv, Disks
  <2>4. w.data \in SUBSET Tags /\ t \in w.data
    BY <1>1, <2>1, <2>2, <2>3, TrackingIsItsSpec
  <2> QED
    BY <2>4, ListsExist DEF Holds
<1>6. CASE c.op = "charter create"
  <2>1. c.charter \in Charters
    BY <1>6 DEF Commands
  <2>2. w.file = CharterFile(c.charter)
    BY <1>2, <1>6, <2>1, FileKinds DEF Plan
  <2> QED
    BY <2>1, <2>2, FileKinds
<1>7. CASE c.op \in {"charter add-spec", "charter remove-spec"}
  <2>1. c.spec \in Specs /\ CharterOf(c.spec) \in Files
    BY <1>7, FileKinds DEF Commands
  <2>2. w.file = CharterOf(c.spec)
    <3>1. CASE c.op = "charter add-spec"
      BY <1>2, <2>1, <3>1 DEF Plan
    <3>2. CASE c.op = "charter remove-spec"
      BY <1>2, <2>1, <3>2 DEF Plan
    <3> QED
      BY <1>7, <3>1, <3>2
  <2> QED
    BY <1>3, <2>1, <2>2
<1>8. CASE c.op \in {"config add-tag", "config remove-tag"}
  <2>1. w.file = ConfigFile
    BY <1>2, <1>8, FileKinds DEF Plan
  <2> QED
    BY <2>1, FileKinds
<1>9. c.op \in {"charter create", "spec create", "charter add-spec", "charter remove-spec",
                "req add", "config add-tag", "config remove-tag"}
  BY DEF Commands
<1> QED
  BY <1>4, <1>5, <1>6, <1>7, <1>8, <1>9

Exclusive == Exclusion \in {"target", "all"}

(* Whoever starts shares no target with a command that runs. *)
LEMMA StartApart ==
  ASSUME TypeInv, IdleHoldsNothing, Exclusive, NEW p \in Procs, NEW writes, MayStart(p, writes),
         NEW q \in Procs \ {p}
  PROVE  TargetsOf(q) \cap Targets(writes) = {}
<1>1. CASE phase[q] = "idle"
  BY <1>1, NoEntries DEF IdleHoldsNothing, TargetsOf
<1>2. CASE phase[q] # "idle" /\ Exclusion = "all"
  <2>1. cmd[q] = Read
    BY <1>2 DEF MayStart, Busy
  <2> QED
    BY <2>1, NoEntries DEF IdleHoldsNothing, TargetsOf
<1>3. CASE phase[q] # "idle" /\ Exclusion = "target"
  BY <1>3 DEF MayStart, Busy
<1> QED
  BY <1>1, <1>2, <1>3 DEF Exclusive

LEMMA StartKeepsAck ==
  ASSUME TypeInv, AckInv, Exclusive, NEW p \in Procs, NEW c \in Commands, Start(p, c)
  PROVE  AckInv'
<1>0. PICK plan : plan = Plan(c, disk)
  OBVIOUS
<1>1. /\ phase[p] = "idle" /\ Legal(c, disk) /\ MayStart(p, plan)
      /\ phase' = [phase EXCEPT ![p] = "planned"]
      /\ cmd' = [cmd EXCEPT ![p] = c]
      /\ todo' = [todo EXCEPT ![p] = plan]
      /\ UNCHANGED <<disk, undo, seen, acked>>
  BY <1>0 DEF Start
<1>2. plan \in Seq(TypedWrite) /\ Keeps(plan)
  BY <1>0, <1>1, CommandWrites, PlanKeeps DEF TypeInv, AckInv
<1>3. \A q \in Procs \ {p} : TargetsOf(q) \cap Targets(plan) = {}
  BY <1>1, StartApart DEF AckInv
<1>4. c # Read
  <2>1. c.op # "context" /\ Read.op = "context"
    BY DEF Commands, Read
  <2> QED
    BY <2>1
<1>5. c.op = "req add" =>
        /\ TrackingOf(c.spec) \in Targets(plan)
        /\ plan # << >> /\ Tail(plan) = << >>
        /\ Head(plan).file = TrackingOf(c.spec)
        /\ Holds(Head(plan).data, c.tag)
  <2> SUFFICES ASSUME c.op = "req add"
               PROVE  /\ TrackingOf(c.spec) \in Targets(plan)
                      /\ plan # << >> /\ Tail(plan) = << >>
                      /\ Head(plan).file = TrackingOf(c.spec)
                      /\ Holds(Head(plan).data, c.tag)
    OBVIOUS
  <2> DEFINE data == disk[TrackingOf(c.spec)] \cup {c.tag}
             w == Write(TrackingOf(c.spec), data)
  <2>1. c.spec \in Specs /\ c.tag \in Tags /\ disk[TrackingOf(c.spec)] # Absent
    BY <1>1, ReqAddNames DEF Legal, AddRequirementLegal, Exists
  <2>2. disk[TrackingOf(c.spec)] \in SUBSET Tags
    BY <2>1, HeldContents DEF TypeInv
  <2>3. data \in SUBSET Tags /\ c.tag \in data
    BY <2>1, <2>2
  <2>4. Holds(data, c.tag)
    BY <2>3, ListsExist DEF Holds
  <2>5. plan = <<w>>
    BY <1>0 DEF Plan
  <2>6. w.file = TrackingOf(c.spec) /\ w.data = data
    BY DEF Write
  <2> HIDE DEF data, w
  <2>7. Head(<<w>>) = w /\ Tail(<<w>>) = << >> /\ <<w>> # << >> /\ Targets(<<w>>) = {w.file}
    BY OneEntry
  <2> QED
    BY <2>4, <2>5, <2>6, <2>7
<1>6. /\ OthersWait(p)
      /\ phase'[p] = "planned" /\ cmd'[p] = c /\ todo'[p] = plan /\ undo'[p] = << >>
      /\ undo' = undo
  BY <1>1 DEF OthersWait, TypeInv, AckInv, IdleHoldsNothing
<1>7. IdleHoldsNothing'
  BY <1>4, <1>6 DEF AckInv, IdleHoldsNothing, OthersWait
<1>8. /\ \A q \in Procs \ {p} : TargetsOf(q)' = TargetsOf(q)
      /\ TargetsOf(p)' = Targets(plan)
  BY <1>6, NoEntries DEF TargetsOf, OthersWait
<1>9. TargetsApart'
  BY <1>3, <1>8 DEF AckInv, TargetsApart
<1>10. NothingStale'
  <2>1. acked' = acked => (\A writes : Keeps(writes) => Keeps(writes)')
    BY DEF Keeps
  <2>2. \A q \in Procs \ {p} : Keeps(todo[q]) /\ Keeps(undo[q])
    BY DEF AckInv, NothingStale
  <2> QED
    BY <1>1, <1>2, <1>6, <2>1, <2>2, KeepsNothing DEF NothingStale, OthersWait
<1>11. AddsItsTag'
  <2>1. \A q \in Procs \ {p} : Adding(q)' =>
          /\ TrackingOf(cmd'[q].spec) \in TargetsOf(q)'
          /\ todo'[q] = << >> => Holds(disk'[TrackingOf(cmd'[q].spec)], cmd'[q].tag)
          /\ todo'[q] # << >> => /\ Tail(todo'[q]) = << >>
                                 /\ Head(todo'[q]).file = TrackingOf(cmd'[q].spec)
                                 /\ Holds(Head(todo'[q]).data, cmd'[q].tag)
    BY <1>1, <1>6, <1>8, ZenonT(40) DEF AckInv, AddsItsTag, Adding, OthersWait
  <2>2. Adding(p)' => c.op = "req add"
    BY <1>6 DEF Adding
  <2>3. TargetsOf(p)' = Targets(plan) /\ cmd'[p] = c /\ todo'[p] = plan
    BY <1>6, <1>8
  <2> QED
    BY <1>5, <2>1, <2>2, <2>3 DEF AddsItsTag
<1>12. AcknowledgedKept'
  BY <1>1 DEF AckInv, AcknowledgedKept, Exists
<1> QED
  BY <1>7, <1>9, <1>10, <1>11, <1>12 DEF AckInv

(* A file that is replaced keeps what was acknowledged of it when its new     *)
(* contents do.                                                               *)
LEMMA ReplacedKeepsAck ==
  ASSUME TypeInv, AcknowledgedKept, NEW w \in TypedWrite, UNCHANGED acked,
         disk' = [disk EXCEPT ![w.file] = w.data],
         \A s \in Specs, t \in Tags :
           (<<s, t>> \in acked /\ w.file = TrackingOf(s)) => Holds(w.data, t)
  PROVE  AcknowledgedKept'
<1> SUFFICES ASSUME NEW s \in Specs, NEW t \in Tags, <<s, t>> \in acked
             PROVE  disk'[TrackingOf(s)] # Absent /\ t \in disk'[TrackingOf(s)]
  BY DEF AcknowledgedKept, Exists
<1>1. TrackingOf(s) \in Files /\ w.file \in Files
  BY FileKinds DEF TypedWrite, WriteRecord
<1>2. disk'[TrackingOf(s)] = IF TrackingOf(s) = w.file THEN w.data ELSE disk[TrackingOf(s)]
  BY <1>1 DEF TypeInv, Disks
<1> QED
  BY <1>2 DEF AcknowledgedKept, Exists, Holds

(* Nobody else's target is replaced, so nobody else's tag is lost. *)
LEMMA OthersAddTheirTag ==
  ASSUME TypeInv, AckInv, NEW p \in Procs, OthersWait(p), NEW f \in TargetsOf(p), NEW data,
         disk' = [disk EXCEPT ![f] = data],
         NEW q \in Procs \ {p}, Adding(q)'
  PROVE  /\ TrackingOf(cmd'[q].spec) \in TargetsOf(q)'
         /\ todo'[q] = << >> => Holds(disk'[TrackingOf(cmd'[q].spec)], cmd'[q].tag)
         /\ todo'[q] # << >> => /\ Tail(todo'[q]) = << >>
                                /\ Head(todo'[q]).file = TrackingOf(cmd'[q].spec)
                                /\ Holds(Head(todo'[q]).data, cmd'[q].tag)
<1>1. /\ phase'[q] = phase[q] /\ cmd'[q] = cmd[q]
      /\ todo'[q] = todo[q] /\ undo'[q] = undo[q]
  BY DEF OthersWait
<1>2. Adding(q) /\ TargetsOf(q)' = TargetsOf(q)
  BY <1>1 DEF Adding, TargetsOf
<1>3. TrackingOf(cmd[q].spec) \in TargetsOf(q)
  BY <1>2 DEF AckInv, AddsItsTag
<1>4. TrackingOf(cmd[q].spec) # f
  BY <1>3 DEF AckInv, TargetsApart
<1>5. TrackingOf(cmd[q].spec) \in Files
  BY <1>2, ReqAddNames, FileKinds DEF Adding, TypeInv
<1>6. disk'[TrackingOf(cmd[q].spec)] = disk[TrackingOf(cmd[q].spec)]
  BY <1>4, <1>5 DEF TypeInv, Disks
<1> QED
  BY <1>1, <1>2, <1>3, <1>6 DEF AckInv, AddsItsTag

LEMMA RenameKeepsAck ==
  ASSUME TypeInv, AckInv, NEW p \in Procs, Rename(p)
  PROVE  AckInv'
<1> DEFINE w == Head(todo[p])
           backup == Write(w.file, disk[w.file])
<1>1. /\ phase[p] = "writing" /\ todo[p] # << >>
      /\ disk' = [disk EXCEPT ![w.file] = w.data]
      /\ undo' = [undo EXCEPT ![p] = <<backup>> \o undo[p]]
      /\ todo' = [todo EXCEPT ![p] = Tail(todo[p])]
      /\ UNCHANGED <<phase, cmd, seen, acked>>
  BY DEF Rename, Committing
<1>2. todo[p] \in Seq(TypedWrite) /\ undo[p] \in Seq(TypedWrite)
  BY DEF TypeInv
<1>3. /\ w \in TypedWrite
      /\ Entries(todo[p]) = {w} \cup Entries(Tail(todo[p]))
      /\ Targets(todo[p]) = {w.file} \cup Targets(Tail(todo[p]))
  BY <1>1, <1>2, WrittenTyped, SplitEntries
<1>4. backup.file = w.file /\ backup.data = disk[w.file]
  BY DEF Write
<1> HIDE DEF w, backup
<1>5. /\ Entries(<<backup>> \o undo[p]) = {backup} \cup Entries(undo[p])
      /\ Targets(<<backup>> \o undo[p]) = {w.file} \cup Targets(undo[p])
  <2>1. backup \in TypedWrite
    BY <1>3, ContentsAreContents DEF backup, TypedWrite, WriteRecord, Write, TypeInv, Disks
  <2> QED
    BY <1>2, <1>4, <2>1, PushEntries
<1>6. /\ OthersWait(p)
      /\ phase'[p] = "writing" /\ cmd'[p] = cmd[p]
      /\ todo'[p] = Tail(todo[p]) /\ undo'[p] = <<backup>> \o undo[p]
  BY <1>1 DEF OthersWait, TypeInv
<1>7. \A q \in Procs : TargetsOf(q)' = TargetsOf(q)
  <2>1. TargetsOf(p)' = TargetsOf(p)
    BY <1>3, <1>5, <1>6 DEF TargetsOf
  <2> QED
    BY <1>6, <2>1 DEF TargetsOf, OthersWait
<1>8. w.file \in TargetsOf(p)
  BY <1>3 DEF TargetsOf
<1>9. IdleHoldsNothing'
  BY <1>1, <1>6 DEF AckInv, IdleHoldsNothing, OthersWait
<1>10. TargetsApart'
  BY <1>7 DEF AckInv, TargetsApart
<1>11. NothingStale'
  <2>1. Keeps(Tail(todo[p])) /\ Keeps(undo[p])
    BY <1>3 DEF AckInv, NothingStale, Keeps
  <2>2. \A s \in Specs, t \in Tags :
          (<<s, t>> \in acked /\ w.file = TrackingOf(s)) => Holds(disk[w.file], t)
    BY DEF AckInv, AcknowledgedKept, Exists, Holds
  <2>3. Keeps(<<backup>> \o undo[p])
    BY <1>4, <1>5, <2>1, <2>2 DEF Keeps
  <2>4. \A q \in Procs \ {p} : Keeps(todo[q]) /\ Keeps(undo[q])
    BY DEF AckInv, NothingStale
  <2> QED
    BY <1>1, <1>6, <2>1, <2>3, <2>4 DEF NothingStale, Keeps, OthersWait
<1>12. AddsItsTag'
  <2>1. ASSUME Adding(p)'
        PROVE  /\ TrackingOf(cmd'[p].spec) \in TargetsOf(p)'
               /\ todo'[p] = << >> /\ Holds(disk'[TrackingOf(cmd'[p].spec)], cmd'[p].tag)
    <3>1. Adding(p)
      BY <1>1, <1>6, <2>1 DEF Adding
    <3>2. /\ TrackingOf(cmd[p].spec) \in TargetsOf(p)
          /\ Tail(todo[p]) = << >>
          /\ w.file = TrackingOf(cmd[p].spec)
          /\ Holds(w.data, cmd[p].tag)
      BY <1>1, <3>1 DEF AckInv, AddsItsTag, w
    <3>3. disk'[w.file] = w.data
      BY <1>1, <1>3 DEF TypeInv, Disks, TypedWrite, WriteRecord
    <3> QED
      BY <1>6, <1>7, <3>2, <3>3
  <2>2. \A q \in Procs \ {p} : Adding(q)' =>
          /\ TrackingOf(cmd'[q].spec) \in TargetsOf(q)'
          /\ todo'[q] = << >> => Holds(disk'[TrackingOf(cmd'[q].spec)], cmd'[q].tag)
          /\ todo'[q] # << >> => /\ Tail(todo'[q]) = << >>
                                 /\ Head(todo'[q]).file = TrackingOf(cmd'[q].spec)
                                 /\ Holds(Head(todo'[q]).data, cmd'[q].tag)
    BY <1>1, <1>6, <1>8, OthersAddTheirTag
  <2> QED
    BY <2>1, <2>2 DEF AddsItsTag
<1>13. AcknowledgedKept'
  <2>1. \A s \in Specs, t \in Tags :
          (<<s, t>> \in acked /\ w.file = TrackingOf(s)) => Holds(w.data, t)
    BY <1>3 DEF AckInv, NothingStale, Keeps
  <2> QED
    BY <1>1, <1>3, <2>1, ReplacedKeepsAck DEF AckInv
<1> QED
  BY <1>9, <1>10, <1>11, <1>12, <1>13 DEF AckInv

(* Restoring, or failing to, only shortens the undo list. *)
LEMMA RestoreKeepsAck ==
  ASSUME TypeInv, AckInv, NEW p \in Procs, Restore(p) \/ RestoreFails(p)
  PROVE  AckInv'
<1> DEFINE w == Head(undo[p])
<1>1. /\ phase[p] = "rollback" /\ undo[p] # << >>
      /\ disk' = [disk EXCEPT ![w.file] = w.data] \/ disk' = disk
      /\ undo' = [undo EXCEPT ![p] = Tail(undo[p])]
      /\ UNCHANGED <<phase, cmd, todo, seen, acked>>
  BY DEF Restore, RestoreFails
<1>2. undo[p] \in Seq(TypedWrite)
  BY DEF TypeInv
<1>3. /\ w \in TypedWrite
      /\ Entries(undo[p]) = {w} \cup Entries(Tail(undo[p]))
      /\ Targets(undo[p]) = {w.file} \cup Targets(Tail(undo[p]))
  BY <1>1, <1>2, WrittenTyped, SplitEntries
<1> HIDE DEF w
<1>4. /\ OthersWait(p)
      /\ phase'[p] = "rollback" /\ cmd'[p] = cmd[p]
      /\ todo'[p] = todo[p] /\ undo'[p] = Tail(undo[p])
  BY <1>1 DEF OthersWait, TypeInv
<1>5. /\ TargetsOf(p)' \subseteq TargetsOf(p) /\ w.file \in TargetsOf(p)
      /\ \A q \in Procs \ {p} : TargetsOf(q)' = TargetsOf(q)
  BY <1>3, <1>4 DEF TargetsOf, OthersWait
<1>6. IdleHoldsNothing'
  BY <1>1, <1>4 DEF AckInv, IdleHoldsNothing, OthersWait
<1>7. TargetsApart'
  BY <1>5 DEF AckInv, TargetsApart
<1>8. NothingStale'
  <2>1. Keeps(todo[p]) /\ Keeps(Tail(undo[p]))
    BY <1>3 DEF AckInv, NothingStale, Keeps
  <2>2. \A q \in Procs \ {p} : Keeps(todo[q]) /\ Keeps(undo[q])
    BY DEF AckInv, NothingStale
  <2> QED
    BY <1>1, <1>4, <2>1, <2>2 DEF NothingStale, Keeps, OthersWait
<1>9. AddsItsTag'
  <2>1. ~Adding(p)'
    BY <1>4 DEF Adding
  <2>2. \A q \in Procs \ {p} : Adding(q)' =>
          /\ TrackingOf(cmd'[q].spec) \in TargetsOf(q)'
          /\ todo'[q] = << >> => Holds(disk'[TrackingOf(cmd'[q].spec)], cmd'[q].tag)
          /\ todo'[q] # << >> => /\ Tail(todo'[q]) = << >>
                                 /\ Head(todo'[q]).file = TrackingOf(cmd'[q].spec)
                                 /\ Holds(Head(todo'[q]).data, cmd'[q].tag)
    <3>1. CASE disk' = [disk EXCEPT ![w.file] = w.data]
      BY <1>4, <1>5, <3>1, OthersAddTheirTag
    <3>2. CASE disk' = disk
      BY <1>4, <1>5, <3>2, ZenonT(40) DEF AckInv, AddsItsTag, Adding, OthersWait
    <3> QED
      BY <1>1, <3>1, <3>2
  <2> QED
    BY <2>1, <2>2 DEF AddsItsTag
<1>10. AcknowledgedKept'
  <2>1. CASE disk' = [disk EXCEPT ![w.file] = w.data]
    <3>1. \A s \in Specs, t \in Tags :
            (<<s, t>> \in acked /\ w.file = TrackingOf(s)) => Holds(w.data, t)
      BY <1>3 DEF AckInv, NothingStale, Keeps
    <3> QED
      BY <1>1, <1>3, <2>1, <3>1, ReplacedKeepsAck DEF AckInv
  <2>2. CASE disk' = disk
    BY <1>1, <2>2 DEF AckInv, AcknowledgedKept, Exists
  <2> QED
    BY <1>1, <2>1, <2>2
<1> QED
  BY <1>6, <1>7, <1>8, <1>9, <1>10 DEF AckInv

(* The success of a command makes its tag an acknowledged one.  Its file is   *)
(* the target of no other process, so nobody holds an older copy of it.       *)
LEMMA SuccessKeepsAck ==
  ASSUME TypeInv, AckInv, NEW p \in Procs, ReportSuccess(p)
  PROVE  AckInv'
<1>1. /\ phase[p] = "writing" /\ todo[p] = << >> /\ disk' = disk
      /\ acked' = IF cmd[p].op = "req add" THEN acked \cup {<<cmd[p].spec, cmd[p].tag>>} ELSE acked
      /\ Done(p)
  BY DEF ReportSuccess
<1>2. CASE cmd[p].op # "req add"
  BY <1>1, <1>2, EndKeepsAck
<1>3. CASE cmd[p].op = "req add"
  <2> DEFINE own == TrackingOf(cmd[p].spec)
  <2>1. cmd[p].spec \in Specs /\ cmd[p].tag \in Tags
    BY <1>3, ReqAddNames DEF TypeInv
  <2>2. own \in TargetsOf(p) /\ Holds(disk[own], cmd[p].tag)
    BY <1>1, <1>3 DEF AckInv, AddsItsTag, Adding
  <2>3. /\ OthersWait(p)
        /\ phase'[p] = "idle" /\ todo'[p] = << >> /\ undo'[p] = << >>
    BY <1>1, DoneKeepsMemory
  <2>4. IdleHoldsNothing'
    BY <2>3 DEF AckInv, IdleHoldsNothing, OthersWait
  <2>5. TargetsApart'
    BY <2>3, NoEntries DEF AckInv, TargetsApart, TargetsOf, OthersWait
  <2>6. NothingStale'
    <3>1. ASSUME NEW q \in Procs \ {p}
          PROVE  Keeps(todo[q])' /\ Keeps(undo[q])'
      <4>1. todo'[q] = todo[q] /\ undo'[q] = undo[q]
        BY <2>3 DEF OthersWait
      <4>2. Keeps(todo[q]) /\ Keeps(undo[q])
        BY DEF AckInv, NothingStale
      <4>3. \A w \in Entries(todo[q]) \cup Entries(undo[q]), s \in Specs, t \in Tags :
              (<<s, t>> \in acked' /\ w.file = TrackingOf(s)) => Holds(w.data, t)
        <5> SUFFICES ASSUME NEW w \in Entries(todo[q]) \cup Entries(undo[q]),
                            NEW s \in Specs, NEW t \in Tags,
                            <<s, t>> \in acked', w.file = TrackingOf(s)
                     PROVE  Holds(w.data, t)
          OBVIOUS
        <5>1. w.file \in TargetsOf(q)
          BY TargetsOfEntries DEF TargetsOf
        <5>2. w.file # own
          BY <2>2, <5>1 DEF AckInv, TargetsApart
        <5>3. <<s, t>> \in acked
          BY <1>1, <1>3, <5>2
        <5> QED
          BY <4>2, <5>3 DEF Keeps
      <4> QED
        BY <4>1, <4>3 DEF Keeps
    <3> QED
      BY <2>3, <3>1, KeepsNothing DEF NothingStale, Keeps
  <2>7. AddsItsTag'
    BY <1>1, <2>3 DEF AckInv, AddsItsTag, Adding, TargetsOf, OthersWait
  <2>8. AcknowledgedKept'
    <3> SUFFICES ASSUME NEW s \in Specs, NEW t \in Tags, <<s, t>> \in acked'
                 PROVE  disk[TrackingOf(s)] # Absent /\ t \in disk[TrackingOf(s)]
      BY <1>1 DEF AcknowledgedKept, Exists
    <3>1. CASE <<s, t>> \in acked
      BY <3>1 DEF AckInv, AcknowledgedKept, Exists
    <3>2. CASE s = cmd[p].spec /\ t = cmd[p].tag
      BY <2>2, <3>2 DEF Holds
    <3> QED
      BY <1>1, <1>3, <3>1, <3>2
  <2> QED
    BY <2>4, <2>5, <2>6, <2>7, <2>8 DEF AckInv
<1> QED
  BY <1>2, <1>3

LEMMA StartReadKeepsAck ==
  ASSUME TypeInv, AckInv, NEW p \in Procs, StartRead(p)
  PROVE  AckInv'
<1>1. /\ phase[p] = "idle" /\ todo[p] = << >> /\ undo[p] = << >>
      /\ UNCHANGED <<disk, todo, undo, acked>>
  BY DEF StartRead, AckInv, IdleHoldsNothing
<1>2. /\ cmd'[p] = Read
      /\ \A q \in Procs \ {p} : phase'[q] = phase[q] /\ cmd'[q] = cmd[q]
  BY DEF StartRead, TypeInv
<1>3. IdleHoldsNothing'
  BY <1>1, <1>2 DEF AckInv, IdleHoldsNothing
<1>4. AddsItsTag'
  <2>1. ~Adding(p)'
    BY <1>2 DEF Adding, Read
  <2> QED
    BY <1>1, <1>2, <2>1 DEF AckInv, AddsItsTag, Adding, TargetsOf
<1> QED
  BY <1>1, <1>3, <1>4
     DEF AckInv, TargetsApart, TargetsOf, NothingStale, Keeps, AcknowledgedKept, Exists

LEMMA InitAck == Init => AckInv
<1> SUFFICES ASSUME Init PROVE AckInv
  OBVIOUS
<1>1. \A p \in Procs : phase[p] = "idle" /\ todo[p] = << >> /\ undo[p] = << >>
  BY DEF Init
<1> QED
  BY <1>1, NoEntries
     DEF Init, AckInv, IdleHoldsNothing, TargetsApart, TargetsOf, NothingStale, Keeps,
         AddsItsTag, Adding, AcknowledgedKept

LEMMA StepKeepsAck ==
  ASSUME Exclusive, TypeInv, AckInv, [Next]_vars
  PROVE  AckInv'
<1>1. ASSUME NEW p \in Procs, NEW c \in Commands, Start(p, c)
      PROVE  AckInv'
  BY <1>1, StartKeepsAck
<1>2. ASSUME NEW p \in Procs, StartRead(p)
      PROVE  AckInv'
  BY <1>2, StartReadKeepsAck
<1>3. ASSUME NEW p \in Procs, ReadTrackings(p) \/ AcceptPreview(p) \/ RenameFails(p)
      PROVE  AckInv'
  <2>1. PICK next \in {"reading", "writing", "rollback"} :
          /\ phase[p] # "idle" /\ phase[p] # "rollback"
          /\ phase' = [phase EXCEPT ![p] = next]
          /\ UNCHANGED <<disk, cmd, todo, undo, acked>>
    BY <1>3 DEF ReadTrackings, AcceptPreview, RenameFails, Committing
  <2> QED
    BY <2>1, PhaseKeepsAck
<1>4. ASSUME NEW p \in Procs,
             \/ RefusePreview(p) \/ FinishRead(p) \/ ReportFailure(p)
             \/ BackupFails(p) \/ Crash(p)
      PROVE  AckInv'
  BY <1>4, EndKeepsAck DEF RefusePreview, FinishRead, ReportFailure, BackupFails, Crash
<1>5. ASSUME NEW p \in Procs, ReportSuccess(p)
      PROVE  AckInv'
  BY <1>5, SuccessKeepsAck
<1>6. ASSUME NEW p \in Procs, Rename(p)
      PROVE  AckInv'
  BY <1>6, RenameKeepsAck
<1>7. ASSUME NEW p \in Procs, Restore(p) \/ RestoreFails(p)
      PROVE  AckInv'
  BY <1>7, RestoreKeepsAck
<1>8. CASE UNCHANGED vars
  <2>1. UNCHANGED <<disk, phase, cmd, todo, undo, acked>>
    BY <1>8 DEF vars
  <2>2. IdleHoldsNothing' /\ TargetsApart'
    BY <2>1 DEF AckInv, IdleHoldsNothing, TargetsApart, TargetsOf
  <2>3. NothingStale'
    BY <2>1 DEF AckInv, NothingStale, Keeps
  <2>4. AddsItsTag'
    BY <2>1 DEF AckInv, AddsItsTag, Adding, TargetsOf
  <2>5. AcknowledgedKept'
    BY <2>1 DEF AckInv, AcknowledgedKept, Exists
  <2> QED
    BY <2>2, <2>3, <2>4, <2>5 DEF AckInv
<1> QED
  BY <1>1, <1>2, <1>3, <1>4, <1>5, <1>6, <1>7, <1>8 DEF Next, Step, Fault

(* AcknowledgedKept: where the users keep to one command per target file, a   *)
(* requirement whose "req add" reported success stays in its tracking file,   *)
(* whatever fails: renames, backups, restores or whole processes.             *)
THEOREM AcknowledgedStaysKept ==
  ASSUME Exclusive
  PROVE  Spec => []AcknowledgedKept
<1>1. Init => AckInv
  BY InitAck
<1>2. TypeInv /\ AckInv /\ [Next]_vars => AckInv'
  BY StepKeepsAck
<1>3. AckInv => AcknowledgedKept
  BY DEF AckInv
<1> QED
  BY <1>1, <1>2, <1>3, AlwaysTyped, PTL DEF Spec
=============================================================================
