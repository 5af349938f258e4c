-------------------------- MODULE RepoAtomicProofs --------------------------
(***************************************************************************)
(* Where the users run one writing command at a time and nothing but a     *)
(* rename fails, RepoWrites implements AtomicRepo and the repository is     *)
(* clean whenever no command runs; where it may crash too, some command is  *)
(* accepted afterwards.  For any number of processes, charters, specs, tags. *)
(***************************************************************************)
EXTENDS RepoWritesProofs

OneAtATime == Exclusion = "all" /\ Faults \subseteq {"rename"}

-----------------------------------------------------------------------------
(* Lists of writes that name a file once. *)

Distinct(writes) == \A i, j \in DOMAIN writes : writes[i].file = writes[j].file => i = j

LEMMA DistinctTail ==
  ASSUME NEW T, NEW writes \in Seq(T), writes # << >>, Distinct(writes)
  PROVE  Distinct(Tail(writes)) /\ Head(writes).file \notin Targets(Tail(writes))
<1>1. /\ Len(Tail(writes)) = Len(writes) - 1
      /\ \A i \in 1 .. Len(Tail(writes)) : Tail(writes)[i] = writes[i + 1]
      /\ Tail(writes) \in Seq(T)
  BY HeadTailProperties
<1>2. /\ Len(writes) \in Nat /\ DOMAIN writes = 1 .. Len(writes) /\ Len(writes) # 0
      /\ DOMAIN Tail(writes) = 1 .. Len(Tail(writes))
  BY <1>1, LenProperties, EmptySeq
<1>3. Head(writes) = writes[1]
  OBVIOUS
<1>4. \A i \in DOMAIN Tail(writes) :
        /\ i \in Nat /\ i # 0 /\ i + 1 \in DOMAIN writes
        /\ Tail(writes)[i] = writes[i + 1]
  BY <1>1, <1>2
<1>5. Distinct(Tail(writes))
  <2> SUFFICES ASSUME NEW i \in DOMAIN Tail(writes), NEW j \in DOMAIN Tail(writes),
                      Tail(writes)[i].file = Tail(writes)[j].file
               PROVE  i = j
    BY DEF Distinct
  <2>1. i + 1 = j + 1
    BY <1>4 DEF Distinct
  <2> QED
    BY <1>4, <2>1
<1>6. \A i \in DOMAIN Tail(writes) : Tail(writes)[i].file # Head(writes).file
  <2> SUFFICES ASSUME NEW i \in DOMAIN Tail(writes),
                      Tail(writes)[i].file = Head(writes).file
               PROVE  FALSE
    OBVIOUS
  <2>1. i + 1 \in DOMAIN writes /\ 1 \in DOMAIN writes /\ writes[i + 1].file = writes[1].file
    BY <1>2, <1>3, <1>4
  <2>2. i + 1 = 1
    BY <2>1 DEF Distinct
  <2> QED
    BY <1>4, <2>2
<1> QED
  BY <1>5, <1>6 DEF Targets

LEMMA DistinctPush ==
  ASSUME NEW T, NEW w \in T, NEW writes \in Seq(T), Distinct(writes), w.file \notin Targets(writes)
  PROVE  Distinct(<<w>> \o writes)
<1> DEFINE pushed == <<w>> \o writes
<1>1. /\ <<w>> \in Seq(T) /\ Len(<<w>>) = 1 /\ <<w>>[1] = w
  OBVIOUS
<1>2. /\ pushed \in Seq(T)
      /\ Len(pushed) = 1 + Len(writes)
      /\ \A i \in 1 .. 1 + Len(writes) : pushed[i] = IF i <= 1 THEN <<w>>[i] ELSE writes[i - 1]
  BY <1>1, ConcatProperties
<1> HIDE DEF pushed
<1>3. Len(writes) \in Nat /\ DOMAIN writes = 1 .. Len(writes) /\ DOMAIN pushed = 1 .. Len(pushed)
  BY <1>2, LenProperties
<1>4. /\ pushed[1] = w
      /\ \A i \in DOMAIN pushed :
           i \in Nat /\ (i # 1 => pushed[i] = writes[i - 1] /\ i - 1 \in DOMAIN writes)
  BY <1>1, <1>2, <1>3
<1>5. \A i \in DOMAIN writes : writes[i].file # w.file
  BY DEF Targets
<1>6. ASSUME NEW i \in DOMAIN pushed, NEW j \in DOMAIN pushed, pushed[i].file = pushed[j].file
      PROVE  i = j
  <2>1. CASE i = 1 \/ j = 1
    BY <1>4, <1>5, <1>6, <2>1
  <2>2. CASE i # 1 /\ j # 1
    <3>1. i - 1 = j - 1
      BY <1>4, <1>6, <2>2 DEF Distinct
    <3> QED
      BY <1>4, <3>1
  <2> QED
    BY <2>1, <2>2
<1> QED
  BY <1>6 DEF Distinct, pushed

-----------------------------------------------------------------------------
(* The repository with writes in place. *)

LEMMA OverlayNothing ==
  ASSUME NEW d \in Disks
  PROVE  Overlay(d, << >>) = d
BY NoEntries DEF Overlay, Disks

LEMMA OverlayHit ==
  ASSUME NEW d, NEW writes, Distinct(writes), NEW w \in Entries(writes), w.file \in Files
  PROVE  Overlay(d, writes)[w.file] = w.data
<1>1. PICK i \in DOMAIN writes : w = writes[i]
  BY DEF Entries
<1>2. w.file \in Targets(writes)
  BY <1>1 DEF Targets
<1>3. (CHOOSE j \in DOMAIN writes : writes[j].file = w.file) = i
  BY <1>1 DEF Distinct
<1> QED
  BY <1>1, <1>2, <1>3 DEF Overlay

LEMMA OverlayMiss ==
  ASSUME NEW d, NEW writes, NEW f \in Files \ Targets(writes)
  PROVE  Overlay(d, writes)[f] = d[f]
BY DEF Overlay

LEMMA OverlayIsFunction ==
  ASSUME NEW d, NEW writes
  PROVE  Overlay(d, writes) = [f \in Files |-> Overlay(d, writes)[f]]
BY DEF Overlay

LEMMA SameOverlay ==
  ASSUME NEW d, NEW e, NEW v, NEW w,
         \A f \in Files : Overlay(d, v)[f] = Overlay(e, w)[f]
  PROVE  Overlay(d, v) = Overlay(e, w)
<1> DEFINE a(f) == Overlay(d, v)[f]
           b(f) == Overlay(e, w)[f]
<1>1. Overlay(d, v) = [f \in Files |-> a(f)] /\ Overlay(e, w) = [f \in Files |-> b(f)]
  BY OverlayIsFunction
<1>2. \A f \in Files : a(f) = b(f)
  OBVIOUS
<1> HIDE DEF a, b
<1> QED
  BY <1>1, <1>2

(* Putting the first write of a list in place and the others over it. *)
LEMMA OverlayHead ==
  ASSUME NEW d \in Disks, NEW writes \in Seq(TypedWrite), writes # << >>, Distinct(writes)
  PROVE  LET w == Head(writes)
         IN  Overlay([d EXCEPT ![w.file] = w.data], Tail(writes)) = Overlay(d, writes)
<1> DEFINE w == Head(writes)
           rest == Tail(writes)
           e == [d EXCEPT ![w.file] = w.data]
<1>1. /\ w \in TypedWrite /\ w.file \in Files
      /\ Entries(writes) = {w} \cup Entries(rest)
      /\ Targets(writes) = {w.file} \cup Targets(rest)
      /\ Distinct(rest) /\ w.file \notin Targets(rest)
  BY WrittenTyped, SplitEntries, DistinctTail DEF TypedWrite, WriteRecord
<1>2. \A f \in Files : e[f] = IF f = w.file THEN w.data ELSE d[f]
  BY DEF Disks
<1> HIDE DEF w, rest, e
<1>3. ASSUME NEW f \in Files
      PROVE  Overlay(e, rest)[f] = Overlay(d, writes)[f]
  <2>1. CASE f \in Targets(rest)
    <3>1. PICK v \in Entries(rest) : v.file = f
      BY <2>1, TargetsOfEntries
    <3>2. v \in Entries(writes)
      BY <1>1
    <3> QED
      BY <1>1, <3>1, <3>2, OverlayHit
  <2>2. CASE f = w.file
    BY <1>1, <1>2, <2>2, OverlayHit, OverlayMiss
  <2>3. CASE f \notin Targets(writes)
    BY <1>1, <1>2, <2>3, OverlayMiss
  <2> QED
    BY <1>1, <2>1, <2>2, <2>3
<1>4. Overlay(e, rest) = Overlay(d, writes)
  BY <1>3, SameOverlay
<1> QED
  BY <1>4 DEF e, w, rest

(* Replacing a file and keeping its contents as a backup changes nothing for  *)
(* who looks at the repository with the backups restored.                     *)
LEMMA OverlayBackup ==
  ASSUME NEW d \in Disks, NEW backups \in Seq(TypedWrite), Distinct(backups),
         NEW f \in Files \ Targets(backups), NEW data
  PROVE  Overlay([d EXCEPT ![f] = data], <<Write(f, d[f])>> \o backups) = Overlay(d, backups)
<1> DEFINE b == Write(f, d[f])
           pushed == <<b>> \o backups
           e == [d EXCEPT ![f] = data]
<1>1. b \in TypedWrite
  BY ContentsAreContents DEF TypedWrite, WriteRecord, Write, Disks
<1>2. b.file = f /\ b.data = d[f]
  BY DEF Write
<1>3. \A g \in Files : g # f => e[g] = d[g]
  BY DEF Disks
<1> HIDE DEF b, e
<1>4. /\ Entries(pushed) = {b} \cup Entries(backups)
      /\ Targets(pushed) = {f} \cup Targets(backups)
      /\ Distinct(pushed)
  BY <1>1, <1>2, PushEntries, DistinctPush
<1> HIDE DEF pushed
<1>5. ASSUME NEW g \in Files
      PROVE  Overlay(e, pushed)[g] = Overlay(d, backups)[g]
  <2>1. CASE g \in Targets(backups)
    <3>1. PICK v \in Entries(backups) : v.file = g
      BY <2>1, TargetsOfEntries
    <3>2. v \in Entries(pushed)
      BY <1>4
    <3> QED
      BY <1>4, <3>1, <3>2, OverlayHit
  <2>2. CASE g = f
    BY <1>2, <1>4, <2>2, OverlayHit, OverlayMiss
  <2>3. CASE g \notin Targets(pushed)
    BY <1>3, <1>4, <2>3, OverlayMiss
  <2> QED
    BY <1>4, <2>1, <2>2, <2>3
<1>6. Overlay(e, pushed) = Overlay(d, backups)
  BY <1>5, SameOverlay
<1> QED
  BY <1>6 DEF e, pushed, b

-----------------------------------------------------------------------------
(* One writing command at a time.  CleanWhenIdle and the refinement both rest *)
(* on what the one writer is doing: what it read is still what the disk holds *)
(* when it previews, what it has put in place and what it still plans make    *)
(* up what the preview accepted, and the backups give the repository it       *)
(* started from.                                                              *)

Writer(p) == cmd[p] \in Commands

Base(p) == Overlay(disk, undo[p])

AtMostOneWriter == \A p, q \in Procs : Writer(p) /\ Writer(q) => p = q

Reader(p) == todo[p] = << >> /\ undo[p] = << >> /\ phase[p] \in {"idle", "planned", "reading"}

OthersRead ==
  \A p \in Procs : /\ phase[p] = "idle" <=> cmd[p] = Nothing
                   /\ ~Writer(p) => Reader(p)

CleanWithoutWriter == (\A p \in Procs : ~Writer(p)) => Audit(disk)

FirstHalf == [f \in Files |-> IF f \in CharterFiles THEN Absent ELSE disk[f]]

Disjoint(p) ==
  Distinct(todo[p]) /\ Distinct(undo[p]) /\ Targets(todo[p]) \cap Targets(undo[p]) = {}

Underway(p) ==
  /\ Audit(Base(p))
  /\ Disjoint(p)
  /\ phase[p] \in {"planned", "reading"} =>
       Legal(cmd[p], disk) /\ undo[p] = << >> /\ todo[p] = Plan(cmd[p], disk)
  /\ phase[p] = "reading" => seen[p] = FirstHalf
  /\ phase[p] = "writing" =>
       Accepted(cmd[p], Base(p)) /\ Overlay(disk, todo[p]) = After(cmd[p], Base(p))

WriterInv ==
  /\ AtMostOneWriter
  /\ OthersRead
  /\ CleanWithoutWriter
  /\ \A p \in Procs : Writer(p) => Underway(p)

LEMMA NotCommands == Read \notin Commands /\ Nothing \notin Commands /\ Read # Nothing
<1>1. Read.op = "context" /\ Nothing.op = "none"
  BY DEF Read, Nothing
<1>2. \A c \in Commands : c.op # "context" /\ c.op # "none"
  BY DEF Commands
<1> QED
  BY <1>1, <1>2

LEMMA PlanDistinct ==
  ASSUME NEW c \in Commands, NEW d
  PROVE  Distinct(Plan(c, d))
<1>1. \A w : Distinct(<<w>>)
  BY DEF Distinct
<1>2. CASE c.op = "spec create"
  <2> DEFINE s == c.spec
             a == Write(CharterOf(s), d[CharterOf(s)] \cup {s})
             b == Write(TrackingOf(s), {})
             e == Write(DesignDoc(s), Governed)
  <2>1. s \in Specs
    BY <1>2 DEF Commands
  <2>2. a.file # b.file /\ a.file # e.file /\ b.file # e.file
    BY <2>1, FileKinds DEF Write
  <2>3. CreateSpecWrites(s, d) = <<a, b>> \/ CreateSpecWrites(s, d) = <<a, b, e>>
    BY CreateSpecEntries
  <2> HIDE DEF a, b, e
  <2>4. Distinct(<<a, b>>)
    BY <2>2 DEF Distinct
  <2>5. Distinct(<<a, b, e>>)
    <3>1. <<a, b, e>>[1] = a /\ <<a, b, e>>[2] = b /\ <<a, b, e>>[3] = e
      OBVIOUS
    <3>2. DOMAIN <<a, b, e>> = {1, 2, 3}
      OBVIOUS
    <3> QED
      BY <2>2, <3>1, <3>2 DEF Distinct
  <2> QED
    BY <1>2, <2>3, <2>4, <2>5 DEF Plan
<1>3. CASE c.op # "spec create"
  <2>1. c.op \in {"charter create", "charter add-spec", "charter remove-spec",
                  "req add", "config add-tag", "config remove-tag"}
    BY <1>3 DEF Commands
  <2>2. \E w : Plan(c, d) = <<w>>
    BY <2>1 DEF Plan
  <2> QED
    BY <1>1, <2>2
<1> QED
  BY <1>2, <1>3

LEMMA InitialClean == \A d \in InitialDisks : Audit(d)
<1> SUFFICES ASSUME NEW docs \in [Specs -> InitialDocs], NEW d,
                    d = [f \in Files |-> IF f = ConfigFile THEN Tags
                                         ELSE IF f[1] = "doc" THEN docs[f[2]]
                                         ELSE Absent]
             PROVE  Audit(d)
  BY DEF InitialDisks
<1>1. ASSUME NEW s \in Specs
      PROVE  d[CharterOf(s)] = Absent /\ d[TrackingOf(s)] = Absent
  <2>1. CharterOf(s)[1] = "charter" /\ TrackingOf(s)[1] = "tracking"
    BY DEF CharterOf, CharterFile, TrackingOf
  <2>2. /\ CharterOf(s) \in Files /\ TrackingOf(s) \in Files
        /\ CharterOf(s) # ConfigFile /\ TrackingOf(s) # ConfigFile
    BY FileKinds
  <2> QED
    BY <2>1, <2>2
<1> QED
  BY <1>1 DEF Audit, Listed, Exists

LEMMA InitWriter == Init => WriterInv
<1> SUFFICES ASSUME Init PROVE WriterInv
  OBVIOUS
<1>1. \A p \in Procs : /\ cmd[p] = Nothing /\ phase[p] = "idle"
                       /\ todo[p] = << >> /\ undo[p] = << >>
  BY DEF Init
<1>2. Audit(disk)
  BY InitialClean DEF Init
<1> QED
  BY <1>1, <1>2, NotCommands
     DEF WriterInv, AtMostOneWriter, OthersRead, Reader, CleanWithoutWriter, Writer

-----------------------------------------------------------------------------
(* The steps of a process that does not write. *)

LEMMA ReaderStep ==
  ASSUME WriterInv, NEW p \in Procs, OthersWait(p), ~Writer(p), ~Writer(p)', Reader(p)',
         phase'[p] = "idle" <=> cmd'[p] = Nothing,
         UNCHANGED disk, \A q \in Procs \ {p} : seen'[q] = seen[q]
  PROVE  WriterInv'
<1>1. \A q \in Procs \ {p} :
        /\ phase'[q] = phase[q] /\ cmd'[q] = cmd[q] /\ todo'[q] = todo[q]
        /\ undo'[q] = undo[q] /\ seen'[q] = seen[q]
  BY DEF OthersWait
<1>2. \A q \in Procs : Writer(q)' <=> Writer(q)
  BY <1>1 DEF Writer
<1>3. AtMostOneWriter'
  BY <1>2 DEF WriterInv, AtMostOneWriter
<1>4. OthersRead'
  BY <1>1 DEF WriterInv, OthersRead, Reader, Writer
<1>5. CleanWithoutWriter'
  BY <1>2 DEF WriterInv, CleanWithoutWriter
<1>6. ASSUME NEW q \in Procs, Writer(q)'
      PROVE  Underway(q)'
  <2>1. q \in Procs \ {p} /\ Writer(q)
    BY <1>2, <1>6
  <2>2. Underway(q)
    BY <2>1 DEF WriterInv
  <2> QED
    BY <1>1, <2>1, <2>2 DEF Underway, Base, Disjoint, FirstHalf
<1> QED
  BY <1>3, <1>4, <1>5, <1>6 DEF WriterInv

(* The steps of the one process that does. *)
LEMMA WriterStep ==
  ASSUME WriterInv, NEW p \in Procs, OthersWait(p),
         \A q \in Procs \ {p} : ~Writer(q),
         phase'[p] = "idle" <=> cmd'[p] = Nothing,
         ~Writer(p)' => Reader(p)' /\ Audit(disk'),
         Writer(p)' => Underway(p)'
  PROVE  WriterInv'
<1>1. \A q \in Procs \ {p} :
        /\ phase'[q] = phase[q] /\ cmd'[q] = cmd[q] /\ todo'[q] = todo[q] /\ undo'[q] = undo[q]
  BY DEF OthersWait
<1>2. \A q \in Procs \ {p} : ~Writer(q)'
  BY <1>1 DEF Writer
<1>3. AtMostOneWriter'
  BY <1>2 DEF AtMostOneWriter
<1>4. OthersRead'
  BY <1>1 DEF WriterInv, OthersRead, Reader, Writer
<1>5. CleanWithoutWriter'
  BY DEF CleanWithoutWriter
<1>6. \A q \in Procs : Writer(q)' => Underway(q)'
  BY <1>2
<1> QED
  BY <1>3, <1>4, <1>5, <1>6 DEF WriterInv

LEMMA Alone ==
  ASSUME WriterInv, NEW p \in Procs, Writer(p)
  PROVE  \A q \in Procs \ {p} : ~Writer(q)
BY DEF WriterInv, AtMostOneWriter

(* Whoever is busy with anything but a read is the writer. *)
LEMMA BusyWriter ==
  ASSUME TypeInv, WriterInv, NEW p \in Procs, phase[p] # "idle"
  PROVE  cmd[p] # Read <=> Writer(p)
<1>1. cmd[p] # Nothing
  BY DEF WriterInv, OthersRead
<1> QED
  BY <1>1, NotCommands DEF TypeInv, Writer

LEMMA CommittingWriter ==
  ASSUME TypeInv, WriterInv, NEW p \in Procs, phase[p] \in {"writing", "rollback"}
  PROVE  Writer(p)
BY DEF WriterInv, OthersRead, Reader

(* A process that ends with the repository as the audit wants it. *)
LEMMA EndKeepsWriter ==
  ASSUME TypeInv, WriterInv, NEW p \in Procs, Writer(p), Done(p), UNCHANGED disk, Audit(disk)
  PROVE  WriterInv'
<1>1. /\ OthersWait(p)
      /\ phase'[p] = "idle" /\ cmd'[p] = Nothing
      /\ todo'[p] = << >> /\ undo'[p] = << >>
  BY DoneKeepsMemory
<1>2. ~Writer(p)' /\ Reader(p)'
  BY <1>1, NotCommands DEF Writer, Reader
<1> QED
  BY <1>1, <1>2, Alone, WriterStep

-----------------------------------------------------------------------------
(* Every step keeps the invariant. *)

LEMMA StartKeepsWriter ==
  ASSUME OneAtATime, TypeInv, WriterInv, NEW p \in Procs, NEW c \in Commands, Start(p, c)
  PROVE  WriterInv'
<1>1. /\ phase[p] = "idle" /\ Legal(c, disk) /\ MayStart(p, Plan(c, disk))
      /\ phase' = [phase EXCEPT ![p] = "planned"]
      /\ cmd' = [cmd EXCEPT ![p] = c]
      /\ todo' = [todo EXCEPT ![p] = Plan(c, disk)]
      /\ UNCHANGED <<disk, undo, seen, acked>>
  BY DEF Start
<1>2. \A q \in Procs : ~Writer(q)
  <2>1. ASSUME NEW q \in Procs, phase[q] = "idle"
        PROVE  ~Writer(q)
    BY <2>1, NotCommands DEF WriterInv, OthersRead, Writer
  <2>2. ASSUME NEW q \in Procs \ {p}, phase[q] # "idle"
        PROVE  ~Writer(q)
    <3>1. cmd[q] = Read
      BY <1>1, <2>2 DEF MayStart, Busy, OneAtATime
    <3> QED
      BY <3>1, NotCommands DEF Writer
  <2> QED
    BY <1>1, <2>1, <2>2
<1>3. Audit(disk) /\ undo[p] = << >>
  BY <1>2 DEF WriterInv, CleanWithoutWriter, OthersRead, Reader
<1>4. /\ OthersWait(p)
      /\ phase'[p] = "planned" /\ cmd'[p] = c /\ todo'[p] = Plan(c, disk) /\ undo'[p] = << >>
  BY <1>1, <1>3 DEF OthersWait, TypeInv
<1>5. Overlay(disk, << >>) = disk
  BY OverlayNothing DEF TypeInv
<1>6. Distinct(<< >>) /\ Distinct(Plan(c, disk))
  BY PlanDistinct DEF Distinct
<1>7. Base(p)' = disk
  BY <1>1, <1>4, <1>5 DEF Base
<1>8. Underway(p)'
  <2>1. Disjoint(p)'
    BY <1>4, <1>6, NoEntries DEF Disjoint
  <2> QED
    BY <1>1, <1>3, <1>4, <1>7, <2>1 DEF Underway
<1>9. phase'[p] # "idle" /\ cmd'[p] # Nothing /\ Writer(p)'
  BY <1>4, NotCommands DEF Writer
<1> QED
  BY <1>2, <1>4, <1>8, <1>9, WriterStep

LEMMA StartReadKeepsWriter ==
  ASSUME TypeInv, WriterInv, NEW p \in Procs, StartRead(p)
  PROVE  WriterInv'
<1>1. /\ phase[p] = "idle" /\ cmd[p] = Nothing /\ ~Writer(p)
      /\ phase' = [phase EXCEPT ![p] = "planned"]
      /\ cmd' = [cmd EXCEPT ![p] = Read]
      /\ UNCHANGED <<disk, todo, undo, seen, acked>>
  BY NotCommands DEF StartRead, WriterInv, OthersRead, Writer
<1>2. todo[p] = << >> /\ undo[p] = << >>
  BY <1>1 DEF WriterInv, OthersRead, Reader
<1>3. OthersWait(p) /\ phase'[p] = "planned" /\ cmd'[p] = Read
  BY <1>1 DEF OthersWait, TypeInv
<1>4. ~Writer(p)' /\ Reader(p)' /\ cmd'[p] # Nothing /\ phase'[p] # "idle"
  BY <1>1, <1>2, <1>3, NotCommands DEF Writer, Reader
<1> QED
  BY <1>1, <1>3, <1>4, ReaderStep

LEMMA ReadTrackingsKeepsWriter ==
  ASSUME TypeInv, WriterInv, NEW p \in Procs, ReadTrackings(p)
  PROVE  WriterInv'
<1>1. /\ phase[p] = "planned"
      /\ phase' = [phase EXCEPT ![p] = "reading"]
      /\ seen' = [seen EXCEPT ![p] = FirstHalf]
      /\ UNCHANGED <<disk, cmd, todo, undo, acked>>
  BY DEF ReadTrackings, FirstHalf
<1>2. /\ OthersWait(p) /\ phase'[p] = "reading" /\ seen'[p] = FirstHalf
      /\ \A q \in Procs \ {p} : seen'[q] = seen[q]
      /\ cmd[p] # Nothing
  BY <1>1 DEF OthersWait, TypeInv, WriterInv, OthersRead
<1>3. phase'[p] # "idle" /\ cmd'[p] # Nothing
  BY <1>1, <1>2
<1>4. CASE ~Writer(p)
  <2>1. ~Writer(p)' /\ Reader(p)'
    BY <1>1, <1>2, <1>4 DEF WriterInv, OthersRead, Reader, Writer
  <2> QED
    BY <1>1, <1>2, <1>3, <1>4, <2>1, ReaderStep
<1>5. CASE Writer(p)
  <2>1. Underway(p)
    BY <1>5 DEF WriterInv
  <2>2. Base(p)' = Base(p) /\ Disjoint(p)' = Disjoint(p) /\ FirstHalf' = FirstHalf /\ Writer(p)'
    BY <1>1, <1>5 DEF Base, Disjoint, FirstHalf, Writer
  <2>3. Underway(p)'
    BY <1>1, <1>2, <2>1, <2>2 DEF Underway
  <2> QED
    BY <1>2, <1>3, <1>5, <2>2, <2>3, Alone, WriterStep
<1> QED
  BY <1>4, <1>5

(* The preview of the only writer is of the repository as it is. *)
LEMMA SnapshotIsOverlay ==
  ASSUME TypeInv, WriterInv, NEW p \in Procs, phase[p] = "reading", Writer(p)
  PROVE  Snapshot(p) = Overlay(disk, todo[p])
<1>1. seen[p] = FirstHalf
  BY DEF WriterInv, Underway
<1>2. [f \in Files |-> IF f \in CharterFiles THEN disk[f] ELSE seen[p][f]] = disk
  BY <1>1 DEF FirstHalf, TypeInv, Disks
<1> QED
  BY <1>2 DEF Snapshot

LEMMA AcceptKeepsWriter ==
  ASSUME TypeInv, WriterInv, NEW p \in Procs, AcceptPreview(p)
  PROVE  WriterInv'
<1>1. /\ phase[p] = "reading" /\ cmd[p] # Read /\ Audit(Snapshot(p))
      /\ phase' = [phase EXCEPT ![p] = "writing"]
      /\ seen' = [seen EXCEPT ![p] = Unread]
      /\ UNCHANGED <<disk, cmd, todo, undo, acked>>
  BY DEF AcceptPreview
<1>2. Writer(p) /\ cmd[p] # Nothing
  BY <1>1, BusyWriter, NotCommands DEF Writer
<1>3. /\ Underway(p) /\ Legal(cmd[p], disk) /\ undo[p] = << >> /\ todo[p] = Plan(cmd[p], disk)
  BY <1>1, <1>2 DEF WriterInv, Underway
<1>4. Base(p) = disk
  BY <1>3, OverlayNothing DEF Base, TypeInv
<1>5. Accepted(cmd[p], Base(p)) /\ Overlay(disk, todo[p]) = After(cmd[p], Base(p))
  BY <1>1, <1>2, <1>3, <1>4, SnapshotIsOverlay DEF Accepted, After
<1>6. OthersWait(p) /\ phase'[p] = "writing"
  BY <1>1 DEF OthersWait, TypeInv
<1>7. Underway(p)'
  <2>1. Base(p)' = Base(p) /\ Disjoint(p)' = Disjoint(p)
    BY <1>1 DEF Base, Disjoint
  <2> QED
    BY <1>1, <1>3, <1>5, <1>6, <2>1 DEF Underway
<1>8. phase'[p] # "idle" /\ cmd'[p] # Nothing /\ Writer(p)'
  BY <1>1, <1>2, <1>6 DEF Writer
<1> QED
  BY <1>2, <1>6, <1>7, <1>8, Alone, WriterStep

LEMMA RefuseKeepsWriter ==
  ASSUME TypeInv, WriterInv, NEW p \in Procs, RefusePreview(p)
  PROVE  WriterInv'
<1>1. phase[p] = "reading" /\ Writer(p) /\ Done(p) /\ UNCHANGED disk
  BY BusyWriter DEF RefusePreview
<1>2. Audit(Base(p)) /\ undo[p] = << >>
  BY <1>1 DEF WriterInv, Underway
<1>3. Audit(disk)
  BY <1>2, OverlayNothing DEF Base, TypeInv
<1> QED
  BY <1>1, <1>3, EndKeepsWriter

LEMMA FinishReadKeepsWriter ==
  ASSUME TypeInv, WriterInv, NEW p \in Procs, FinishRead(p)
  PROVE  WriterInv'
<1>1. Done(p) /\ UNCHANGED disk /\ ~Writer(p)
  BY NotCommands DEF FinishRead, Writer
<1>2. /\ OthersWait(p)
      /\ phase'[p] = "idle" /\ cmd'[p] = Nothing
      /\ todo'[p] = << >> /\ undo'[p] = << >>
  BY <1>1, DoneKeepsMemory
<1>3. \A q \in Procs \ {p} : seen'[q] = seen[q]
  BY <1>1 DEF Done, TypeInv
<1>4. ~Writer(p)' /\ Reader(p)'
  BY <1>2, NotCommands DEF Writer, Reader
<1> QED
  BY <1>1, <1>2, <1>3, <1>4, ReaderStep

(* A rename moves one file from the plan to the repository, and its old        *)
(* contents to the backups.                                                    *)
LEMMA RenameMoves ==
  ASSUME TypeInv, WriterInv, NEW p \in Procs, Rename(p)
  PROVE  /\ Writer(p) /\ OthersWait(p)
         /\ Disjoint(p)'
         /\ Base(p)' = Base(p)
         /\ Overlay(disk', todo'[p]) = Overlay(disk, todo[p])
<1> DEFINE w == Head(todo[p])
           backup == Write(w.file, disk[w.file])
<1>1. /\ phase[p] = "writing" /\ todo[p] # << >>
      /\ disk' = [disk EXCEPT ![w.file] = w.data]
      /\ undo' = [undo EXCEPT ![p] = <<backup>> \o undo[p]]
      /\ todo' = [todo EXCEPT ![p] = Tail(todo[p])]
      /\ UNCHANGED <<phase, cmd, seen, acked>>
  BY DEF Rename, Committing
<1>2. Writer(p) /\ Underway(p)
  BY <1>1, CommittingWriter DEF WriterInv
<1>3. disk \in Disks /\ todo[p] \in Seq(TypedWrite) /\ undo[p] \in Seq(TypedWrite)
  BY DEF TypeInv
<1>4. /\ Distinct(todo[p]) /\ Distinct(undo[p])
      /\ Targets(todo[p]) \cap Targets(undo[p]) = {}
  BY <1>2 DEF Underway, Disjoint
<1>5. /\ w \in TypedWrite /\ w.file \in Files
      /\ Targets(todo[p]) = {w.file} \cup Targets(Tail(todo[p]))
      /\ Distinct(Tail(todo[p])) /\ w.file \notin Targets(Tail(todo[p]))
  BY <1>1, <1>3, <1>4, WrittenTyped, SplitEntries, DistinctTail DEF TypedWrite, WriteRecord
<1>6. backup \in TypedWrite /\ backup.file = w.file
  BY <1>3, <1>5, ContentsAreContents DEF TypedWrite, WriteRecord, Write, Disks
<1>7. OthersWait(p) /\ todo'[p] = Tail(todo[p]) /\ undo'[p] = <<backup>> \o undo[p]
  BY <1>1 DEF OthersWait, TypeInv
<1>8. Base(p)' = Base(p)
  <2>1. w.file \in Files \ Targets(undo[p])
    BY <1>4, <1>5
  <2> HIDE DEF w
  <2>2. Overlay([disk EXCEPT ![w.file] = w.data], <<backup>> \o undo[p]) = Overlay(disk, undo[p])
    BY <1>3, <1>4, <2>1, OverlayBackup, ZenonT(40)
  <2> HIDE DEF backup
  <2> QED
    BY <1>1, <1>7, <2>2 DEF Base
<1>9. Overlay(disk', todo'[p]) = Overlay(disk, todo[p])
  BY <1>1, <1>3, <1>4, <1>7, OverlayHead
<1>10. Disjoint(p)'
  <2> HIDE DEF w, backup
  <2>1. w.file \notin Targets(undo[p])
    BY <1>4, <1>5
  <2>2. /\ Targets(<<backup>> \o undo[p]) = {w.file} \cup Targets(undo[p])
        /\ Distinct(<<backup>> \o undo[p])
    BY <1>3, <1>4, <1>6, <2>1, PushEntries, DistinctPush
  <2>3. Targets(Tail(todo[p])) \cap ({w.file} \cup Targets(undo[p])) = {}
    BY <1>4, <1>5
  <2> QED
    BY <1>5, <1>7, <2>2, <2>3 DEF Disjoint
<1> QED
  BY <1>2, <1>7, <1>8, <1>9, <1>10

LEMMA RenameKeepsWriter ==
  ASSUME TypeInv, WriterInv, NEW p \in Procs, Rename(p)
  PROVE  WriterInv'
<1>1. /\ phase[p] = "writing" /\ UNCHANGED <<phase, cmd>>
  BY DEF Rename, Committing
<1>2. /\ Writer(p) /\ OthersWait(p) /\ Disjoint(p)' /\ Base(p)' = Base(p)
      /\ Overlay(disk', todo'[p]) = Overlay(disk, todo[p])
  BY RenameMoves
<1>3. /\ Audit(Base(p)) /\ Accepted(cmd[p], Base(p))
      /\ Overlay(disk, todo[p]) = After(cmd[p], Base(p))
  BY <1>1, <1>2 DEF WriterInv, Underway
<1>4. Underway(p)'
  BY <1>1, <1>2, <1>3 DEF Underway
<1>5. phase'[p] # "idle" /\ cmd'[p] # Nothing /\ Writer(p)'
  BY <1>1, <1>2, NotCommands DEF Writer
<1> QED
  BY <1>2, <1>4, <1>5, Alone, WriterStep

LEMMA RenameFailsKeepsWriter ==
  ASSUME TypeInv, WriterInv, NEW p \in Procs, RenameFails(p)
  PROVE  WriterInv'
<1>1. /\ phase[p] = "writing" /\ phase' = [phase EXCEPT ![p] = "rollback"]
      /\ UNCHANGED <<disk, cmd, todo, undo, seen, acked>>
  BY DEF RenameFails, Committing
<1>2. Writer(p) /\ Underway(p)
  BY <1>1, CommittingWriter DEF WriterInv
<1>3. OthersWait(p) /\ phase'[p] = "rollback"
  BY <1>1 DEF OthersWait, TypeInv
<1>4. Base(p)' = Base(p) /\ Disjoint(p)' = Disjoint(p)
  BY <1>1 DEF Base, Disjoint
<1>5. Underway(p)'
  BY <1>2, <1>3, <1>4 DEF Underway
<1>6. phase'[p] # "idle" /\ cmd'[p] # Nothing /\ Writer(p)'
  BY <1>1, <1>2, <1>3, NotCommands DEF Writer
<1> QED
  BY <1>2, <1>3, <1>5, <1>6, Alone, WriterStep

LEMMA RestoreMoves ==
  ASSUME TypeInv, WriterInv, NEW p \in Procs, Restore(p)
  PROVE  Writer(p) /\ OthersWait(p) /\ Disjoint(p)' /\ Base(p)' = Base(p)
<1> DEFINE w == Head(undo[p])
<1>1. /\ phase[p] = "rollback" /\ undo[p] # << >>
      /\ disk' = [disk EXCEPT ![w.file] = w.data]
      /\ undo' = [undo EXCEPT ![p] = Tail(undo[p])]
      /\ UNCHANGED <<phase, cmd, todo, seen, acked>>
  BY DEF Restore
<1>2. Writer(p) /\ Underway(p)
  BY <1>1, CommittingWriter DEF WriterInv
<1>3. disk \in Disks /\ undo[p] \in Seq(TypedWrite) /\ Disjoint(p)
  BY <1>2 DEF TypeInv, Underway
<1>4. OthersWait(p) /\ undo'[p] = Tail(undo[p]) /\ todo'[p] = todo[p]
  BY <1>1 DEF OthersWait, TypeInv
<1>5. Base(p)' = Base(p)
  BY <1>1, <1>3, <1>4, OverlayHead DEF Base, Disjoint
<1>6. Distinct(Tail(undo[p])) /\ Targets(Tail(undo[p])) \subseteq Targets(undo[p])
  BY <1>1, <1>3, DistinctTail, SplitEntries DEF Disjoint
<1>7. Disjoint(p)'
  BY <1>3, <1>4, <1>6 DEF Disjoint
<1> QED
  BY <1>2, <1>4, <1>5, <1>7

LEMMA RestoreKeepsWriter ==
  ASSUME TypeInv, WriterInv, NEW p \in Procs, Restore(p)
  PROVE  WriterInv'
<1>1. phase[p] = "rollback" /\ UNCHANGED <<phase, cmd>>
  BY DEF Restore
<1>2. Writer(p) /\ OthersWait(p) /\ Disjoint(p)' /\ Base(p)' = Base(p)
  BY RestoreMoves
<1>3. Underway(p)'
  BY <1>1, <1>2 DEF Underway, WriterInv
<1>4. phase'[p] # "idle" /\ cmd'[p] # Nothing /\ Writer(p)'
  BY <1>1, <1>2, NotCommands DEF Writer
<1> QED
  BY <1>2, <1>3, <1>4, Alone, WriterStep

LEMMA ReportKeepsWriter ==
  ASSUME TypeInv, WriterInv, NEW p \in Procs, ReportFailure(p) \/ ReportSuccess(p)
  PROVE  WriterInv'
<1>1. phase[p] \in {"writing", "rollback"} /\ Done(p) /\ UNCHANGED disk
  BY DEF ReportFailure, ReportSuccess
<1>2. Writer(p) /\ Underway(p)
  BY <1>1, CommittingWriter DEF WriterInv
<1>3. Overlay(disk, << >>) = disk
  BY OverlayNothing DEF TypeInv
<1>4. Audit(disk)
  <2>1. CASE ReportFailure(p)
    BY <1>2, <1>3, <2>1 DEF ReportFailure, Underway, Base
  <2>2. CASE ReportSuccess(p)
    BY <1>2, <1>3, <2>2 DEF ReportSuccess, Underway, Accepted
  <2> QED
    BY <2>1, <2>2
<1> QED
  BY <1>1, <1>2, <1>4, EndKeepsWriter

LEMMA StepKeepsWriter ==
  ASSUME OneAtATime, TypeInv, WriterInv, [Next]_vars
  PROVE  WriterInv'
<1>1. ASSUME NEW p \in Procs, NEW c \in Commands, Start(p, c)
      PROVE  WriterInv'
  BY <1>1, StartKeepsWriter
<1>2. ASSUME NEW p \in Procs, StartRead(p)
      PROVE  WriterInv'
  BY <1>2, StartReadKeepsWriter
<1>3. ASSUME NEW p \in Procs, Step(p)
      PROVE  WriterInv'
  BY <1>3, ReadTrackingsKeepsWriter, AcceptKeepsWriter, RefuseKeepsWriter,
     FinishReadKeepsWriter, RenameKeepsWriter, RestoreKeepsWriter, ReportKeepsWriter DEF Step
<1>4. ASSUME NEW p \in Procs, Fault(p)
      PROVE  WriterInv'
  <2>1. RenameFails(p)
    BY <1>4 DEF Fault, BackupFails, RestoreFails, Crash, OneAtATime
  <2> QED
    BY <2>1, RenameFailsKeepsWriter
<1>5. CASE UNCHANGED vars
  BY <1>5 DEF vars, WriterInv, AtMostOneWriter, OthersRead, Reader, CleanWithoutWriter, Writer,
              Underway, Base, Disjoint, FirstHalf
<1> QED
  BY <1>1, <1>2, <1>3, <1>4, <1>5 DEF Next

(* CleanWhenIdle: with one writing command at a time and renames that may     *)
(* fail, the repository is clean whenever no command runs: a rollback restores *)
(* all of it, and a success leaves what the preview accepted.                  *)
THEOREM CleanWheneverIdle ==
  ASSUME OneAtATime
  PROVE  Spec => []CleanWhenIdle
<1>1. Init => WriterInv
  BY InitWriter
<1>2. TypeInv /\ WriterInv /\ [Next]_vars => WriterInv'
  BY StepKeepsWriter
<1>3. WriterInv => CleanWhenIdle
  BY NotCommands
     DEF WriterInv, OthersRead, CleanWithoutWriter, CleanWhenIdle, Idle, Busy, Writer
<1> QED
  BY <1>1, <1>2, <1>3, AlwaysTyped, PTL DEF Spec

-----------------------------------------------------------------------------
(* The refinement. *)

(* AtomicRepo reads files and judges commands by the same definitions. *)
LEMMA SameFiles ==
  /\ Atomic!Specs = Specs
  /\ Atomic!ConfigFile = ConfigFile
  /\ Atomic!Files = Files
  /\ \A s : /\ Atomic!CharterOf(s) = CharterOf(s) /\ Atomic!TrackingOf(s) = TrackingOf(s)
            /\ Atomic!DesignDoc(s) = DesignDoc(s)
  /\ \A c : Atomic!CharterFile(c) = CharterFile(c)
  /\ \A f, data : Atomic!Write(f, data) = Write(f, data)
<1>1. Atomic!Specs = Specs /\ Atomic!ConfigFile = ConfigFile
  BY DEF Atomic!Specs, Specs, Atomic!ConfigFile, ConfigFile
<1>2. \A c : Atomic!CharterFile(c) = CharterFile(c)
  BY DEF Atomic!CharterFile, CharterFile
<1>3. \A s : /\ Atomic!CharterOf(s) = CharterOf(s) /\ Atomic!TrackingOf(s) = TrackingOf(s)
             /\ Atomic!DesignDoc(s) = DesignDoc(s)
  BY <1>2 DEF Atomic!CharterOf, CharterOf, Atomic!TrackingOf, TrackingOf,
              Atomic!DesignDoc, DesignDoc
<1>4. Atomic!Files = Files
  BY <1>1, <1>2, <1>3 DEF Atomic!Files, Files, Atomic!CharterFiles, CharterFiles
<1>5. \A f, data : Atomic!Write(f, data) = Write(f, data)
  BY DEF Atomic!Write, Write
<1> QED
  BY <1>1, <1>2, <1>3, <1>4, <1>5

LEMMA SameJudgement ==
  /\ \A d : Atomic!Audit(d) <=> Audit(d)
  /\ \A c \in Commands : \A d : Atomic!Legal(c, d) <=> Legal(c, d)
  /\ \A c \in Commands : \A d : Atomic!Plan(c, d) = Plan(c, d)
  /\ \A d, writes : Atomic!Overlay(d, writes) = Overlay(d, writes)
<1>1. \A d, f : Atomic!Exists(d, f) <=> Exists(d, f)
  BY DEF Atomic!Exists, Exists
<1>2. \A s, d : /\ Atomic!Readable(d, s) <=> Readable(d, s)
                /\ Atomic!Listed(d, s) <=> Listed(d, s)
  BY <1>1, SameFiles DEF Atomic!Readable, Readable, Atomic!Listed, Listed
<1>3. \A d : Atomic!Audit(d) <=> Audit(d)
  BY <1>1, <1>2, SameFiles DEF Atomic!Audit, Audit
<1>4. \A s, d : /\ Atomic!CreateSpecLegal(s, d) <=> CreateSpecLegal(s, d)
                /\ Atomic!AddSpecLegal(s, d) <=> AddSpecLegal(s, d)
                /\ Atomic!CreateSpecWrites(s, d) = CreateSpecWrites(s, d)
  BY <1>1, <1>2, SameFiles DEF Atomic!CreateSpecLegal, CreateSpecLegal,
     Atomic!AddSpecLegal, AddSpecLegal, Atomic!CreateSpecWrites, CreateSpecWrites
<1>5. \A c, d : Atomic!CreateCharterLegal(c, d) <=> CreateCharterLegal(c, d)
  BY <1>1, SameFiles DEF Atomic!CreateCharterLegal, CreateCharterLegal
<1>6. \A s, t, d : Atomic!AddRequirementLegal(s, t, d) <=> AddRequirementLegal(s, t, d)
  BY <1>1, <1>2, SameFiles DEF Atomic!AddRequirementLegal, AddRequirementLegal
<1>7. \A t, d : Atomic!RemoveTagLegal(t, d) <=> RemoveTagLegal(t, d)
  BY <1>1, <1>2, SameFiles
     DEF Atomic!RemoveTagLegal, RemoveTagLegal, Atomic!TagInUse, TagInUse
<1>0. \A c \in Commands :
        c.op \in {"charter create", "spec create", "charter add-spec", "charter remove-spec",
                  "req add", "config add-tag", "config remove-tag"}
  BY DEF Commands
<1>8. ASSUME NEW c \in Commands, NEW d
      PROVE  Atomic!Legal(c, d) <=> Legal(c, d)
  BY <1>0, <1>2, <1>4, <1>5, <1>6, <1>7, SameFiles DEF Atomic!Legal, Legal
<1>9. ASSUME NEW c \in Commands, NEW d
      PROVE  Atomic!Plan(c, d) = Plan(c, d)
  BY <1>0, <1>4, SameFiles DEF Atomic!Plan, Plan
<1>10. \A d, writes : Atomic!Overlay(d, writes) = Overlay(d, writes)
  BY SameFiles DEF Atomic!Overlay, Overlay, Atomic!Targets, Targets
<1> QED
  BY <1>3, <1>8, <1>9, <1>10

LEMMA SameCommands ==
  /\ Atomic!InitialDisks = InitialDisks
  /\ Atomic!Commands = Commands
  /\ \A c \in Commands : \A d : /\ Atomic!Accepted(c, d) <=> Accepted(c, d)
                               /\ Atomic!After(c, d) = After(c, d)
<1>1. Atomic!InitialDisks = InitialDisks
  BY SameFiles DEF Atomic!InitialDisks, InitialDisks
<1>2. Atomic!Commands = Commands
  BY SameFiles DEF Atomic!Commands, Commands
<1>3. \A c \in Commands : \A d : Atomic!After(c, d) = After(c, d)
  BY SameJudgement DEF Atomic!After, After
<1>4. \A c \in Commands : \A d : Atomic!Accepted(c, d) <=> Accepted(c, d)
  BY <1>3, SameJudgement DEF Atomic!Accepted, Accepted
<1> QED
  BY <1>1, <1>2, <1>3, <1>4

(* With one process pending at most, the visible repository is the disk with  *)
(* its backups restored.                                                      *)
LEMMA VisibleOfOne ==
  ASSUME NEW p \in Procs, disk \in Disks, \A q \in Procs \ {p} : Pending(q) = << >>
  PROVE  Visible = Overlay(disk, Pending(p))
<1> DEFINE shown(f) == IF \E q \in Procs : f \in Targets(Pending(q))
                       THEN Overlay(disk, Pending(CHOOSE q \in Procs : f \in Targets(Pending(q))))[f]
                       ELSE disk[f]
<1>1. \A f, q : q \in Procs /\ f \in Targets(Pending(q)) => q = p
  BY NoEntries
<1>2. ASSUME NEW f \in Files
      PROVE  shown(f) = Overlay(disk, Pending(p))[f]
  <2>1. CASE f \in Targets(Pending(p))
    <3>1. (CHOOSE q \in Procs : f \in Targets(Pending(q))) = p
      BY <1>1, <2>1
    <3> QED
      BY <2>1, <3>1
  <2>2. CASE f \notin Targets(Pending(p))
    <3>1. ~ \E q \in Procs : f \in Targets(Pending(q))
      BY <1>1, <2>2
    <3>2. Overlay(disk, Pending(p))[f] = disk[f]
      BY <2>2, OverlayMiss
    <3> QED
      BY <3>1, <3>2
  <2> QED
    BY <2>1, <2>2
<1> DEFINE base(f) == Overlay(disk, Pending(p))[f]
<1>3. Visible = [f \in Files |-> shown(f)]
  BY DEF Visible
<1>4. Overlay(disk, Pending(p)) = [f \in Files |-> base(f)]
  BY OverlayIsFunction
<1>5. \A f \in Files : shown(f) = base(f)
  BY <1>2
<1> HIDE DEF shown, base
<1> QED
  BY <1>3, <1>4, <1>5

LEMMA ReadersShowNothing ==
  ASSUME WriterInv, NEW p \in Procs, ~Writer(p)
  PROVE  Pending(p) = << >>
BY DEF WriterInv, OthersRead, Reader, Pending, Committing

(* What the others see while the writer runs, before and after a step. *)
WriterShows ==
  \A p \in Procs : (\A q \in Procs \ {p} : ~Writer(q)) => Visible = Overlay(disk, Pending(p))

LEMMA VisibleWhileWriting == TypeInv /\ WriterInv => WriterShows
BY ReadersShowNothing, VisibleOfOne DEF TypeInv, WriterShows

LEMMA VisibleAfterStep == TypeInv' /\ WriterInv' => WriterShows'
BY VisibleWhileWriting, PTL

Unseen == Visible' = Visible

LEMMA StepAbstracts ==
  ASSUME OneAtATime, TypeInv, WriterInv, [Next]_vars, TypeInv', WriterInv'
  PROVE  \/ Unseen
         \/ \E p \in Procs : /\ cmd[p] \in Commands
                             /\ Accepted(cmd[p], Visible)
                             /\ Visible' = After(cmd[p], Visible)
<1>1. ASSUME NEW p \in Procs, disk' = disk, OthersWait(p), Pending(p)' = Pending(p)
      PROVE  Unseen
  <2>1. \A q \in Procs : Pending(q)' = Pending(q)
    BY <1>1 DEF OthersWait, Pending, Committing
  <2> QED
    BY <1>1, <2>1 DEF Unseen, Visible
<1>2. ASSUME NEW p \in Procs, NEW c \in Commands, Start(p, c)
      PROVE  Unseen
  <2>1. phase[p] = "idle" /\ disk' = disk /\ OthersWait(p) /\ phase'[p] = "planned"
    BY <1>2 DEF Start, OthersWait, TypeInv
  <2>2. Pending(p) = << >> /\ Pending(p)' = << >>
    BY <2>1 DEF Pending, Committing
  <2> QED
    BY <1>1, <2>1, <2>2
<1>3. ASSUME NEW p \in Procs, StartRead(p) \/ ReadTrackings(p)
      PROVE  Unseen
  <2>1. /\ phase[p] \in {"idle", "planned"} /\ phase'[p] \in {"planned", "reading"}
        /\ disk' = disk /\ OthersWait(p)
    BY <1>3 DEF StartRead, ReadTrackings, OthersWait, TypeInv
  <2>2. Pending(p) = << >> /\ Pending(p)' = << >>
    BY <2>1 DEF Pending, Committing
  <2> QED
    BY <1>1, <2>1, <2>2
<1>4. ASSUME NEW p \in Procs, AcceptPreview(p)
      PROVE  Unseen
  <2>1. /\ phase[p] = "reading" /\ Writer(p) /\ phase'[p] = "writing"
        /\ disk' = disk /\ undo' = undo /\ OthersWait(p)
    BY <1>4, BusyWriter DEF AcceptPreview, OthersWait, TypeInv
  <2>2. undo[p] = << >>
    BY <2>1 DEF WriterInv, Underway
  <2>3. Pending(p) = << >> /\ Pending(p)' = << >>
    BY <2>1, <2>2 DEF Pending, Committing
  <2> QED
    BY <1>1, <2>1, <2>3
<1>5. ASSUME NEW p \in Procs, RefusePreview(p) \/ FinishRead(p) \/ ReportFailure(p) \/ ReportSuccess(p)
      PROVE  Unseen
  <2>1. /\ disk' = disk /\ OthersWait(p) /\ phase'[p] = "idle"
    BY <1>5, DoneKeepsMemory DEF RefusePreview, FinishRead, ReportFailure, ReportSuccess
  <2>2. \/ phase[p] = "reading"
        \/ phase[p] = "rollback" /\ undo[p] = << >>
        \/ phase[p] = "writing" /\ todo[p] = << >>
    BY <1>5 DEF RefusePreview, FinishRead, ReportFailure, ReportSuccess
  <2>3. Pending(p) = << >> /\ Pending(p)' = << >>
    BY <2>1, <2>2 DEF Pending, Committing
  <2> QED
    BY <1>1, <2>1, <2>3
<1>6. ASSUME NEW p \in Procs, RenameFails(p)
      PROVE  Unseen
  <2>1. /\ Committing(p) /\ phase'[p] = "rollback"
        /\ disk' = disk /\ undo' = undo /\ OthersWait(p)
    BY <1>6 DEF RenameFails, OthersWait, TypeInv
  <2>2. Pending(p) = undo[p] /\ Pending(p)' = undo[p]
    BY <2>1 DEF Pending
  <2> QED
    BY <1>1, <2>1, <2>2
<1>7. ASSUME NEW p \in Procs, Restore(p)
      PROVE  Unseen
  <2>1. /\ phase[p] = "rollback" /\ phase' = phase /\ cmd' = cmd
    BY <1>7 DEF Restore
  <2>2. Writer(p) /\ OthersWait(p) /\ Base(p)' = Base(p)
    BY <1>7, RestoreMoves
  <2>3. /\ \A q \in Procs \ {p} : ~Writer(q)
        /\ \A q \in Procs \ {p} : ~Writer(q)'
    BY <2>1, <2>2, Alone DEF Writer
  <2>4. Visible = Overlay(disk, Pending(p)) /\ Visible' = Overlay(disk', Pending(p)')
    BY <2>3, VisibleWhileWriting, VisibleAfterStep DEF WriterShows
  <2>5. Pending(p) = undo[p] /\ Pending(p)' = undo'[p]
    BY <2>1 DEF Pending
  <2> QED
    BY <2>2, <2>4, <2>5 DEF Base, Unseen
<1>8. ASSUME NEW p \in Procs, Rename(p)
      PROVE  \/ Unseen
             \/ /\ cmd[p] \in Commands
                /\ Accepted(cmd[p], Visible)
                /\ Visible' = After(cmd[p], Visible)
  <2>1. Committing(p) /\ phase[p] = "writing" /\ phase' = phase /\ cmd' = cmd
    BY <1>8 DEF Rename, Committing
  <2>2. /\ Writer(p) /\ OthersWait(p) /\ Base(p)' = Base(p)
        /\ Overlay(disk', todo'[p]) = Overlay(disk, todo[p])
    BY <1>8, RenameMoves
  <2>3. /\ \A q \in Procs \ {p} : ~Writer(q)
        /\ \A q \in Procs \ {p} : ~Writer(q)'
    BY <2>1, <2>2, Alone DEF Writer
  <2>4. Visible = Overlay(disk, Pending(p)) /\ Visible' = Overlay(disk', Pending(p)')
    BY <2>3, VisibleWhileWriting, VisibleAfterStep DEF WriterShows
  <2>5. Visible = Base(p)
    BY <2>1, <2>4 DEF Pending, Base
  <2>6. CASE todo'[p] # << >>
    <3>1. Pending(p)' = undo'[p]
      BY <2>1, <2>6 DEF Pending, Committing
    <3> QED
      BY <2>2, <2>4, <2>5, <3>1 DEF Base, Unseen
  <2>7. CASE todo'[p] = << >>
    <3>1. Pending(p)' = << >>
      BY <2>1, <2>7 DEF Pending, Committing
    <3>2. Accepted(cmd[p], Base(p)) /\ Overlay(disk, todo[p]) = After(cmd[p], Base(p))
      BY <2>1, <2>2 DEF WriterInv, Underway
    <3> QED
      BY <2>2, <2>4, <2>5, <2>7, <3>1, <3>2 DEF Writer
  <2> QED
    BY <2>6, <2>7
<1>9. ASSUME NEW p \in Procs, BackupFails(p) \/ RestoreFails(p) \/ Crash(p)
      PROVE  FALSE
  BY <1>9 DEF BackupFails, RestoreFails, Crash, OneAtATime
<1>10. CASE UNCHANGED vars
  BY <1>10 DEF vars, Unseen, Visible, Pending, Committing
<1>11. CASE \E p \in Procs : Rename(p)
  BY <1>8, <1>11 DEF Writer
<1> QED
  BY <1>2, <1>3, <1>4, <1>5, <1>6, <1>7, <1>9, <1>10, <1>11 DEF Next, Step, Fault

LEMMA InitAbstracts == Init => Atomic!Init
<1> SUFFICES ASSUME Init PROVE Visible \in InitialDisks
  BY SameCommands DEF Atomic!Init
<1>1. \A p \in Procs : Pending(p) = << >>
  BY DEF Init, Pending, Committing
<1>2. \A f \in Files : ~ \E p \in Procs : f \in Targets(Pending(p))
  BY <1>1, NoEntries
<1>3. disk \in InitialDisks /\ disk \in Disks
  BY InitialDisksTyped DEF Init
<1>4. Visible = disk
  BY <1>2, <1>3 DEF Visible, Disks
<1> QED
  BY <1>3, <1>4

(* ImplementsAtomicRepo: to everybody else, a command of one writer at a time  *)
(* happens as a whole, at its last rename, or not at all: reading, previewing, *)
(* every other rename, a failed one and the rollback are stutters.             *)
THEOREM AtomicRepoImplemented ==
  ASSUME OneAtATime
  PROVE  Spec => ImplementsAtomicRepo
<1>1. Init => Atomic!Init
  BY InitAbstracts
<1>2. Init => WriterInv
  BY InitWriter
<1>3. TypeInv /\ WriterInv /\ [Next]_vars => WriterInv'
  BY StepKeepsWriter
<1>4. TypeInv /\ WriterInv /\ [Next]_vars /\ TypeInv' /\ WriterInv' => [Atomic!Next]_Visible
  <2> SUFFICES ASSUME TypeInv, WriterInv, [Next]_vars, TypeInv', WriterInv'
               PROVE  [Atomic!Next]_Visible
    OBVIOUS
  <2>1. CASE Unseen
    BY <2>1 DEF Unseen
  <2>2. CASE \E p \in Procs : /\ cmd[p] \in Commands
                              /\ Accepted(cmd[p], Visible)
                              /\ Visible' = After(cmd[p], Visible)
    <3>1. PICK c \in Commands : Accepted(c, Visible) /\ Visible' = After(c, Visible)
      BY <2>2
    <3>2. c \in Atomic!Commands /\ Atomic!Run(c)
      BY <3>1, SameCommands DEF Atomic!Run
    <3> QED
      BY <3>2 DEF Atomic!Next
  <2> QED
    BY <2>1, <2>2, StepAbstracts
<1> QED
  BY <1>1, <1>2, <1>3, <1>4, AlwaysTyped, PTL DEF Spec, ImplementsAtomicRepo, Atomic!Spec

-----------------------------------------------------------------------------
(* Crashes.  With one writing command at a time, and documents that were       *)
(* governed from the start, a crash leaves a repository that is clean or that   *)
(* lacks nothing but the tracking file of a spec its charter lists already, and *)
(* that spec can be created again.                                             *)

CrashesAlone ==
  /\ Exclusion = "all" /\ Faults \subseteq {"crash", "rename"}
  /\ InitialDocs \subseteq {Governed}
  /\ Specs # {}

Docs == {DesignDoc(s) : s \in Specs}

DocsGoverned(d) == \A f \in Docs : d[f] = Governed

Create(s) == [op |-> "spec create", spec |-> s]

Settled(d) == Audit(d) \/ \E s \in Specs : Accepted(Create(s), d)

Put(d, w) == [d EXCEPT ![w.file] = w.data]

LEMMA CreateIsCommand ==
  ASSUME NEW s \in Specs, NEW d
  PROVE  /\ Create(s) \in Commands
         /\ Legal(Create(s), d) <=> CreateSpecLegal(s, d)
         /\ Plan(Create(s), d) = CreateSpecWrites(s, d)
<1>1. Create(s) \in [op: {"spec create", "charter add-spec", "charter remove-spec"}, spec: Specs]
  BY DEF Create
<1>2. Create(s).op = "spec create" /\ Create(s).spec = s
  BY DEF Create
<1> QED
  BY <1>1, <1>2 DEF Commands, Legal, Plan

LEMMA PutOne ==
  ASSUME NEW d \in Disks, NEW w \in TypedWrite
  PROVE  Overlay(d, <<w>>) = Put(d, w) /\ Put(d, w) \in Disks
<1>1. /\ <<w>> \in Seq(TypedWrite) /\ <<w>> # << >> /\ Head(<<w>>) = w /\ Tail(<<w>>) = << >>
  OBVIOUS
<1>2. Distinct(<<w>>)
  BY DEF Distinct
<1>3. Put(d, w) \in Disks
  BY DiskTyped DEF Put
<1>4. Overlay(Put(d, w), << >>) = Overlay(d, <<w>>)
  BY <1>1, <1>2, OverlayHead DEF Put
<1> QED
  BY <1>3, <1>4, OverlayNothing

LEMMA PutTwo ==
  ASSUME NEW d \in Disks, NEW v \in TypedWrite, NEW w \in TypedWrite, v.file # w.file
  PROVE  Overlay(d, <<v, w>>) = Put(Put(d, v), w)
<1>1. /\ <<v, w>> \in Seq(TypedWrite) /\ <<v, w>> # << >>
      /\ Head(<<v, w>>) = v /\ Tail(<<v, w>>) = <<w>>
  OBVIOUS
<1>2. Distinct(<<v, w>>)
  BY DEF Distinct
<1>3. Overlay(Put(d, v), <<w>>) = Overlay(d, <<v, w>>)
  BY <1>1, <1>2, OverlayHead DEF Put
<1> QED
  BY <1>3, PutOne

LEMMA CreatePlan ==
  ASSUME NEW d \in Disks, DocsGoverned(d), NEW s \in Specs, Legal(Create(s), d)
  PROVE  LET v == Write(CharterOf(s), d[CharterOf(s)] \cup {s})
             w == Write(TrackingOf(s), {})
         IN v \in TypedWrite /\ w \in TypedWrite /\ Plan(Create(s), d) = <<v, w>>
<1>1. PICK v, w : v = Write(CharterOf(s), d[CharterOf(s)] \cup {s}) /\ w = Write(TrackingOf(s), {})
  OBVIOUS
<1>2. d[DesignDoc(s)] = Governed
  BY DEF DocsGoverned, Docs
<1>3. CreateSpecWrites(s, d) = <<v, w>> \o << >> /\ <<v, w>> \o << >> = <<v, w>>
  BY <1>1, <1>2 DEF CreateSpecWrites
<1>4. Plan(Create(s), d) = <<v, w>>
  BY <1>3, CreateIsCommand
<1>5. <<v, w>> \in Seq(TypedWrite)
  BY <1>4, CreateIsCommand, CommandWrites
<1>6. DOMAIN <<v, w>> = {1, 2} /\ <<v, w>>[1] = v /\ <<v, w>>[2] = w
  OBVIOUS
<1> QED
  BY <1>1, <1>4, <1>5, <1>6

(* What a command plans: one write, or the charter and the tracking file.       *)
LEMMA PlanShape ==
  ASSUME NEW d \in Disks, DocsGoverned(d), NEW c \in Commands, Legal(c, d)
  PROVE  \/ \E w \in TypedWrite : w.file \notin Docs /\ Plan(c, d) = <<w>>
         \/ \E s \in Specs :
              LET v == Write(CharterOf(s), d[CharterOf(s)] \cup {s})
                  w == Write(TrackingOf(s), {})
              IN /\ c.op = "spec create" /\ c.spec = s
                 /\ v \in TypedWrite /\ w \in TypedWrite
                 /\ v.file \notin Docs /\ w.file \notin Docs /\ v.file # w.file
                 /\ Plan(c, d) = <<v, w>>
<1>1. /\ ConfigFile \notin Docs
      /\ \A k \in Charters : CharterFile(k) \notin Docs
      /\ \A s \in Specs : CharterOf(s) \notin Docs /\ TrackingOf(s) \notin Docs
  <2>1. \A f \in Docs : f[1] = "doc"
    BY DEF Docs, DesignDoc
  <2>2. /\ ConfigFile[1] = "config"
        /\ \A k \in Charters : CharterFile(k)[1] = "charter"
        /\ \A s \in Specs : CharterOf(s)[1] = "charter" /\ TrackingOf(s)[1] = "tracking"
    BY DEF ConfigFile, CharterFile, CharterOf, TrackingOf
  <2> QED
    BY <2>1, <2>2
<1>2. Plan(c, d) \in Seq(TypedWrite)
  BY CommandWrites
<1>3. CASE c.op = "spec create"
  <2>1. PICK s \in Specs : s = c.spec
    BY <1>3 DEF Commands
  <2>2. PICK v, w : v = Write(CharterOf(s), d[CharterOf(s)] \cup {s}) /\ w = Write(TrackingOf(s), {})
    OBVIOUS
  <2>3. d[DesignDoc(s)] = Governed
    BY DEF DocsGoverned, Docs
  <2>4. Plan(c, d) = <<v, w>>
    <3>1. CreateSpecWrites(s, d) = <<v, w>> \o << >>
      BY <2>2, <2>3 DEF CreateSpecWrites
    <3>2. <<v, w>> \o << >> = <<v, w>>
      OBVIOUS
    <3> QED
      BY <1>3, <2>1, <3>1, <3>2 DEF Plan
  <2>5. v \in TypedWrite /\ w \in TypedWrite
    <3>1. <<v, w>> \in Seq(TypedWrite)
      BY <1>2, <2>4
    <3>2. DOMAIN <<v, w>> = {1, 2} /\ <<v, w>>[1] = v /\ <<v, w>>[2] = w
      OBVIOUS
    <3> QED
      BY <3>1, <3>2
  <2>6. v.file = CharterOf(s) /\ w.file = TrackingOf(s) /\ v.file # w.file
    BY <2>2, FileKinds DEF Write
  <2> QED
    BY <1>1, <1>3, <2>1, <2>2, <2>4, <2>5, <2>6
<1>4. CASE c.op # "spec create"
  <2>1. c.op \in {"charter create", "charter add-spec", "charter remove-spec",
                  "req add", "config add-tag", "config remove-tag"}
    BY <1>4 DEF Commands
  <2>2. \E w : w.file \notin Docs /\ Plan(c, d) = <<w>>
    <3>1. CASE c.op = "charter create"
      <4>1. c.charter \in Charters
        BY <3>1 DEF Commands
      <4> QED
        BY <1>1, <3>1, <4>1 DEF Plan, Write
    <3>2. CASE c.op \in {"charter add-spec", "charter remove-spec", "req add"}
      <4>1. c.spec \in Specs
        BY <3>2 DEF Commands
      <4> QED
        BY <1>1, <3>2, <4>1 DEF Plan, Write
    <3>3. CASE c.op \in {"config add-tag", "config remove-tag"}
      BY <1>1, <3>3 DEF Plan, Write
    <3> QED
      BY <2>1, <3>1, <3>2, <3>3
  <2>3. PICK w : w.file \notin Docs /\ Plan(c, d) = <<w>>
    BY <2>2
  <2>4. w \in TypedWrite
    <3>1. <<w>> \in Seq(TypedWrite) /\ DOMAIN <<w>> = {1} /\ <<w>>[1] = w
      BY <1>2, <2>3
    <3> QED
      BY <3>1
  <2> QED
    BY <2>3, <2>4
<1> QED
  BY <1>3, <1>4

(* A single planned write is a well typed one. *)
LEMMA OnlyWrite ==
  ASSUME NEW d \in Disks, NEW c \in Commands, Legal(c, d), NEW w, Plan(c, d) = <<w>>
  PROVE  w \in TypedWrite
<1>1. <<w>> \in Seq(TypedWrite)
  <2>1. Plan(c, d) \in Seq(TypedWrite)
    BY CommandWrites
  <2> QED
    BY <2>1
<1>2. DOMAIN <<w>> = {1} /\ <<w>>[1] = w
  OBVIOUS
<1>3. <<w>>[1] \in TypedWrite
  BY <1>1, <1>2
<1> QED
  BY <1>2, <1>3

(* A clean repository with governed documents: some command is accepted.         *)
LEMMA CleanAccepts ==
  ASSUME NEW d \in Disks, DocsGoverned(d), Audit(d), NEW s \in Specs
  PROVE  \E c \in Commands : Accepted(c, d)
<1>1. /\ s[1] \in Charters /\ CharterOf(s) = CharterFile(s[1])
      /\ \A u \in Specs : CharterOf(u) \in Files /\ TrackingOf(u) \in Files
      /\ \A u, v \in Specs : CharterOf(u) # TrackingOf(v) /\ CharterOf(u) # DesignDoc(v)
                             /\ TrackingOf(u) # DesignDoc(v)
      /\ \A u \in Specs : CharterOf(u) # ConfigFile
  <2>1. \A u \in Specs : CharterOf(u)[1] = "charter" /\ TrackingOf(u)[1] = "tracking" /\ DesignDoc(u)[1] = "doc"
    BY DEF CharterOf, CharterFile, TrackingOf, DesignDoc
  <2>2. s[1] \in Charters
    BY DEF Specs
  <2> QED
    BY <2>1, <2>2, FileKinds DEF CharterOf
<1>2. \A u \in Specs : d[DesignDoc(u)] = Governed
  BY DEF DocsGoverned, Docs
<1>3. {} # Absent /\ \A listed \in SUBSET Specs : listed # Absent
  BY ListsExist
<1>4. \A u \in Specs : d[CharterOf(u)] # Absent => d[CharterOf(u)] \in SUBSET Specs
  BY HeldContents
<1>5. \A u \in Specs : /\ Listed(d, u) => Exists(d, TrackingOf(u))
                       /\ Exists(d, TrackingOf(u)) => Exists(d, CharterOf(u)) /\ Readable(d, u)
  BY DEF Audit
<1>6. CASE ~Exists(d, CharterOf(s))
  <2>1. PICK c : c = [op |-> "charter create", charter |-> s[1]]
    OBVIOUS
  <2>2. c \in Commands /\ c.op = "charter create" /\ c.charter = s[1]
    <3>1. c \in [op: {"charter create"}, charter: Charters]
      BY <1>1, <2>1
    <3> QED
      BY <2>1, <3>1 DEF Commands
  <2>3. Legal(c, d)
    BY <1>1, <1>6, <2>2 DEF Legal, CreateCharterLegal
  <2>4. PICK w : w = Write(CharterOf(s), {}) /\ Plan(c, d) = <<w>>
    BY <1>1, <2>2 DEF Plan
  <2>5. w \in TypedWrite
    BY <2>2, <2>3, <2>4, OnlyWrite
  <2>6. PICK e : e = After(c, d) /\ e = Put(d, w)
    BY <2>4, <2>5, PutOne DEF After
  <2>7. e[CharterOf(s)] = {} /\ \A f \in Files : f # CharterOf(s) => e[f] = d[f]
    BY <1>1, <2>4, <2>6 DEF Put, Write, Disks
  <2>8. ASSUME NEW u \in Specs
        PROVE  /\ Listed(e, u) => Exists(e, TrackingOf(u))
               /\ Exists(e, TrackingOf(u)) => Exists(e, CharterOf(u)) /\ Readable(e, u)
    <3>1. e[TrackingOf(u)] = d[TrackingOf(u)] /\ e[DesignDoc(u)] = d[DesignDoc(u)] /\ e[ConfigFile] = d[ConfigFile]
      BY <1>1, <2>7, FileKinds
    <3>2. CASE CharterOf(u) = CharterOf(s)
      BY <1>3, <1>5, <2>7, <3>1, <3>2 DEF Listed, Exists, Readable
    <3>3. CASE CharterOf(u) # CharterOf(s)
      BY <1>1, <1>5, <2>7, <3>1, <3>3 DEF Listed, Exists, Readable
    <3> QED
      BY <3>2, <3>3
  <2> QED
    BY <2>2, <2>3, <2>6, <2>8 DEF Accepted, Audit
<1>7. ASSUME NEW e \in Disks, Exists(d, CharterOf(s)),
             \A f \in Files \ {CharterOf(s), TrackingOf(s)} : e[f] = d[f],
             e[CharterOf(s)] = d[CharterOf(s)] \cup {s},
             e[TrackingOf(s)] = {} \/ (e[TrackingOf(s)] = d[TrackingOf(s)] /\ Exists(d, TrackingOf(s)))
      PROVE  Audit(e)
  <2>1. e[CharterOf(s)] # Absent
    BY <1>3, <1>4, <1>7 DEF Exists
  <2>2. ASSUME NEW u \in Specs
        PROVE  /\ Listed(e, u) => Exists(e, TrackingOf(u))
               /\ Exists(e, TrackingOf(u)) => Exists(e, CharterOf(u)) /\ Readable(e, u)
    <3>1. e[DesignDoc(u)] = Governed /\ e[ConfigFile] = d[ConfigFile]
      BY <1>1, <1>2, <1>7, FileKinds
    <3>2. CASE u = s
      <4>1. e[TrackingOf(s)] # Absent
        BY <1>3, <1>7 DEF Exists
      <4>2. e[TrackingOf(s)] \subseteq e[ConfigFile]
        BY <1>5, <1>7, <3>1 DEF Readable
      <4> QED
        BY <2>1, <3>1, <3>2, <4>1, <4>2 DEF Exists, Readable
    <3>3. CASE u # s
      <4>1. e[TrackingOf(u)] = d[TrackingOf(u)]
        <5>1. TrackingOf(u) # TrackingOf(s)
          BY <3>3, TrackingIsItsSpec
        <5> QED
          BY <1>1, <1>7, <5>1
      <4>2. Listed(e, u) => Listed(d, u)
        BY <1>1, <1>7, <3>3 DEF Listed, Exists
      <4>3. Exists(d, CharterOf(u)) => Exists(e, CharterOf(u))
        BY <1>1, <1>7, <2>1 DEF Exists
      <4> QED
        BY <1>2, <1>5, <3>1, <4>1, <4>2, <4>3 DEF Exists, Readable
    <3> QED
      BY <3>2, <3>3
  <2> QED
    BY <2>2 DEF Audit
<1>8. CASE Exists(d, CharterOf(s)) /\ ~Exists(d, TrackingOf(s))
  <2>1. /\ Create(s) \in Commands /\ Legal(Create(s), d)
    BY <1>8, CreateIsCommand DEF CreateSpecLegal
  <2>2. PICK v \in TypedWrite, w \in TypedWrite :
          /\ v = Write(CharterOf(s), d[CharterOf(s)] \cup {s})
          /\ w = Write(TrackingOf(s), {})
          /\ Plan(Create(s), d) = <<v, w>>
    BY <2>1, CreatePlan
  <2>3. v.file = CharterOf(s) /\ v.data = d[CharterOf(s)] \cup {s} /\ w.file = TrackingOf(s) /\ w.data = {}
    BY <2>2 DEF Write
  <2>4. PICK e : e = After(Create(s), d) /\ e = Put(Put(d, v), w) /\ e \in Disks
    <3>1. v.file # w.file
      BY <1>1, <2>3
    <3>2. Overlay(d, <<v, w>>) = Put(Put(d, v), w)
      BY <2>2, <3>1, PutTwo
    <3>3. Put(d, v) \in Disks
      BY <2>2, PutOne
    <3>4. Put(Put(d, v), w) \in Disks
      BY <2>2, <3>3, PutOne
    <3> QED
      BY <2>2, <3>2, <3>4 DEF After
  <2>5. /\ \A f \in Files \ {CharterOf(s), TrackingOf(s)} : e[f] = d[f]
        /\ e[CharterOf(s)] = d[CharterOf(s)] \cup {s}
        /\ e[TrackingOf(s)] = {}
    BY <1>1, <2>3, <2>4 DEF Put, Disks
  <2>6. Audit(e)
    <3>1. Exists(d, CharterOf(s)) /\ e \in Disks
      BY <1>8, <2>4
    <3>2. e[TrackingOf(s)] = {} \/ (e[TrackingOf(s)] = d[TrackingOf(s)] /\ Exists(d, TrackingOf(s)))
      BY <2>5
    <3> QED
      BY <1>7, <2>5, <3>1, <3>2
  <2> QED
    BY <2>1, <2>4, <2>6 DEF Accepted
<1>9. CASE Exists(d, CharterOf(s)) /\ Exists(d, TrackingOf(s))
  <2>1. PICK c : c = [op |-> "charter add-spec", spec |-> s]
    OBVIOUS
  <2>2. c \in Commands /\ c.op = "charter add-spec" /\ c.spec = s
    <3>1. c \in [op: {"spec create", "charter add-spec", "charter remove-spec"}, spec: Specs]
      BY <2>1
    <3> QED
      BY <2>1, <3>1 DEF Commands
  <2>3. Legal(c, d)
    BY <1>5, <1>9, <2>2 DEF Legal, AddSpecLegal
  <2>4. PICK w : w = Write(CharterOf(s), d[CharterOf(s)] \cup {s}) /\ Plan(c, d) = <<w>>
    BY <2>2 DEF Plan
  <2>5. w \in TypedWrite
    BY <2>2, <2>3, <2>4, OnlyWrite
  <2>6. PICK e : e = After(c, d) /\ e = Put(d, w) /\ e \in Disks
    BY <2>4, <2>5, PutOne DEF After
  <2>7. /\ \A f \in Files : f # CharterOf(s) => e[f] = d[f]
        /\ e[CharterOf(s)] = d[CharterOf(s)] \cup {s}
    BY <1>1, <2>4, <2>6 DEF Put, Write, Disks
  <2> QED
    BY <1>1, <1>7, <1>9, <2>2, <2>3, <2>6, <2>7 DEF Accepted
<1> QED
  BY <1>6, <1>8, <1>9

-----------------------------------------------------------------------------
(* What a crash can interrupt: nothing is written yet; everything is; or the   *)
(* charter lists the spec and the backup of the charter is still in memory.     *)

Fresh(p) == undo[p] = << >> /\ todo[p] = Plan(cmd[p], disk) /\ Accepted(cmd[p], disk)

Backed(p) ==
  \E b \in TypedWrite : b.file \notin Docs /\ Settled(Put(disk, b)) /\ undo[p] = <<b>>

Ending(p) ==
  \E w \in TypedWrite : w.file \notin Docs /\ Audit(Put(disk, w)) /\ todo[p] = <<w>>

Mending(p) ==
  /\ phase[p] \in {"planned", "reading"} =>
       Legal(cmd[p], disk) /\ undo[p] = << >> /\ todo[p] = Plan(cmd[p], disk)
  /\ phase[p] = "reading" => seen[p] = FirstHalf
  /\ phase[p] = "writing" => Fresh(p) \/ todo[p] = << >> \/ (Backed(p) /\ Ending(p))
  /\ phase[p] = "rollback" => undo[p] = << >> \/ Backed(p)

MendInv ==
  /\ AtMostOneWriter
  /\ OthersRead
  /\ DocsGoverned(disk)
  /\ Settled(disk)
  /\ \A p \in Procs : Writer(p) => Mending(p)

LEMMA ReadersMend ==
  ASSUME MendInv, NEW p \in Procs, OthersWait(p), ~Writer(p), ~Writer(p)', Reader(p)',
         phase'[p] = "idle" <=> cmd'[p] = Nothing,
         UNCHANGED disk, \A q \in Procs \ {p} : seen'[q] = seen[q]
  PROVE  MendInv'
<1>1. \A q \in Procs \ {p} :
        /\ phase'[q] = phase[q] /\ cmd'[q] = cmd[q] /\ todo'[q] = todo[q]
        /\ undo'[q] = undo[q] /\ seen'[q] = seen[q]
  BY DEF OthersWait
<1>2. \A q \in Procs : Writer(q)' <=> Writer(q)
  BY <1>1 DEF Writer
<1>3. AtMostOneWriter'
  BY <1>2 DEF MendInv, AtMostOneWriter
<1>4. OthersRead'
  BY <1>1 DEF MendInv, OthersRead, Reader, Writer
<1>5. DocsGoverned(disk') /\ Settled(disk')
  BY DEF MendInv
<1>6. ASSUME NEW q \in Procs, Writer(q)'
      PROVE  Mending(q)'
  <2>1. q \in Procs \ {p} /\ Writer(q)
    BY <1>2, <1>6
  <2>2. Mending(q)
    BY <2>1 DEF MendInv
  <2> QED
    BY <1>1, <2>1, <2>2 DEF Mending, Fresh, Backed, Ending, FirstHalf
<1> QED
  BY <1>3, <1>4, <1>5, <1>6 DEF MendInv

LEMMA WriterMends ==
  ASSUME MendInv, NEW p \in Procs, OthersWait(p),
         \A q \in Procs \ {p} : ~Writer(q),
         phase'[p] = "idle" <=> cmd'[p] = Nothing,
         DocsGoverned(disk'), Settled(disk'),
         ~Writer(p)' => Reader(p)',
         Writer(p)' => Mending(p)'
  PROVE  MendInv'
<1>1. \A q \in Procs \ {p} :
        /\ phase'[q] = phase[q] /\ cmd'[q] = cmd[q] /\ todo'[q] = todo[q] /\ undo'[q] = undo[q]
  BY DEF OthersWait
<1>2. \A q \in Procs \ {p} : ~Writer(q)'
  BY <1>1 DEF Writer
<1>3. AtMostOneWriter'
  BY <1>2 DEF AtMostOneWriter
<1>4. OthersRead'
  BY <1>1 DEF MendInv, OthersRead, Reader, Writer
<1>5. \A q \in Procs : Writer(q)' => Mending(q)'
  BY <1>2
<1> QED
  BY <1>3, <1>4, <1>5 DEF MendInv

(* A process that reads or writes is alone with its command. *)
LEMMA MendingAlone ==
  ASSUME TypeInv, MendInv, NEW p \in Procs
  PROVE  /\ Writer(p) => (Mending(p) /\ \A q \in Procs \ {p} : ~Writer(q))
         /\ phase[p] # "idle" => (cmd[p] # Read <=> Writer(p))
         /\ phase[p] \in {"writing", "rollback"} => Writer(p)
<1>1. Writer(p) => (Mending(p) /\ \A q \in Procs \ {p} : ~Writer(q))
  BY DEF MendInv, AtMostOneWriter
<1>2. phase[p] # "idle" => cmd[p] # Nothing
  BY DEF MendInv, OthersRead
<1>3. phase[p] # "idle" => (cmd[p] # Read <=> Writer(p))
  BY <1>2, NotCommands DEF TypeInv, Writer
<1>4. phase[p] \in {"writing", "rollback"} => Writer(p)
  BY DEF MendInv, OthersRead, Reader
<1> QED
  BY <1>1, <1>3, <1>4

(* However a process ends, a crash included, it leaves the disk alone. *)
LEMMA EndMends ==
  ASSUME TypeInv, MendInv, NEW p \in Procs, Done(p), UNCHANGED disk
  PROVE  MendInv'
<1>1. /\ OthersWait(p)
      /\ phase'[p] = "idle" /\ cmd'[p] = Nothing
      /\ todo'[p] = << >> /\ undo'[p] = << >>
  BY DoneKeepsMemory
<1>2. ~Writer(p)' /\ Reader(p)'
  BY <1>1, NotCommands DEF Writer, Reader
<1>3. DocsGoverned(disk') /\ Settled(disk')
  BY DEF MendInv
<1>4. CASE Writer(p)
  BY <1>1, <1>2, <1>3, <1>4, MendingAlone, WriterMends
<1>5. CASE ~Writer(p)
  <2>1. \A q \in Procs \ {p} : seen'[q] = seen[q]
    BY DEF Done, TypeInv
  <2> QED
    BY <1>1, <1>2, <1>5, <2>1, ReadersMend
<1> QED
  BY <1>4, <1>5

LEMMA StartMends ==
  ASSUME CrashesAlone, TypeInv, MendInv, NEW p \in Procs, NEW c \in Commands, Start(p, c)
  PROVE  MendInv'
<1>1. /\ phase[p] = "idle" /\ Legal(c, disk) /\ MayStart(p, Plan(c, disk))
      /\ phase' = [phase EXCEPT ![p] = "planned"]
      /\ cmd' = [cmd EXCEPT ![p] = c]
      /\ todo' = [todo EXCEPT ![p] = Plan(c, disk)]
      /\ UNCHANGED <<disk, undo, seen, acked>>
  BY DEF Start
<1>2. \A q \in Procs : ~Writer(q)
  <2>1. ASSUME NEW q \in Procs, phase[q] = "idle"
        PROVE  ~Writer(q)
    BY <2>1, NotCommands DEF MendInv, OthersRead, Writer
  <2>2. ASSUME NEW q \in Procs \ {p}, phase[q] # "idle"
        PROVE  ~Writer(q)
    <3>1. cmd[q] = Read
      BY <1>1, <2>2 DEF MayStart, Busy, CrashesAlone
    <3> QED
      BY <3>1, NotCommands DEF Writer
  <2> QED
    BY <1>1, <2>1, <2>2
<1>3. undo[p] = << >>
  BY <1>2 DEF MendInv, OthersRead, Reader
<1>4. /\ OthersWait(p)
      /\ phase'[p] = "planned" /\ cmd'[p] = c /\ todo'[p] = Plan(c, disk) /\ undo'[p] = << >>
  BY <1>1, <1>3 DEF OthersWait, TypeInv
<1>5. Mending(p)'
  BY <1>1, <1>4 DEF Mending
<1>6. phase'[p] # "idle" /\ cmd'[p] # Nothing /\ Writer(p)'
  BY <1>4, NotCommands DEF Writer
<1>7. DocsGoverned(disk') /\ Settled(disk')
  BY <1>1 DEF MendInv
<1> QED
  BY <1>2, <1>4, <1>5, <1>6, <1>7, WriterMends

LEMMA StartReadMends ==
  ASSUME TypeInv, MendInv, NEW p \in Procs, StartRead(p)
  PROVE  MendInv'
<1>1. /\ phase[p] = "idle" /\ cmd[p] = Nothing /\ ~Writer(p)
      /\ phase' = [phase EXCEPT ![p] = "planned"]
      /\ cmd' = [cmd EXCEPT ![p] = Read]
      /\ UNCHANGED <<disk, todo, undo, seen, acked>>
  BY NotCommands DEF StartRead, MendInv, OthersRead, Writer
<1>2. todo[p] = << >> /\ undo[p] = << >>
  BY <1>1 DEF MendInv, OthersRead, Reader
<1>3. OthersWait(p) /\ phase'[p] = "planned" /\ cmd'[p] = Read
  BY <1>1 DEF OthersWait, TypeInv
<1>4. ~Writer(p)' /\ Reader(p)' /\ cmd'[p] # Nothing /\ phase'[p] # "idle"
  BY <1>1, <1>2, <1>3, NotCommands DEF Writer, Reader
<1> QED
  BY <1>1, <1>3, <1>4, ReadersMend

LEMMA ReadTrackingsMends ==
  ASSUME TypeInv, MendInv, NEW p \in Procs, ReadTrackings(p)
  PROVE  MendInv'
<1>1. /\ phase[p] = "planned"
      /\ phase' = [phase EXCEPT ![p] = "reading"]
      /\ seen' = [seen EXCEPT ![p] = FirstHalf]
      /\ UNCHANGED <<disk, cmd, todo, undo, acked>>
  BY DEF ReadTrackings, FirstHalf
<1>2. /\ OthersWait(p) /\ phase'[p] = "reading" /\ seen'[p] = FirstHalf
      /\ \A q \in Procs \ {p} : seen'[q] = seen[q]
      /\ cmd'[p] # Nothing
  BY <1>1 DEF OthersWait, TypeInv, MendInv, OthersRead
<1>3. CASE ~Writer(p)
  <2>1. ~Writer(p)' /\ Reader(p)'
    BY <1>1, <1>2, <1>3 DEF MendInv, OthersRead, Reader, Writer
  <2> QED
    BY <1>1, <1>2, <1>3, <2>1, ReadersMend
<1>4. CASE Writer(p)
  <2>1. Writer(p)' /\ FirstHalf' = FirstHalf
    BY <1>1, <1>4 DEF Writer, FirstHalf
  <2>2. Mending(p)'
    BY <1>1, <1>2, <1>4, <2>1, MendingAlone DEF Mending
  <2>3. DocsGoverned(disk') /\ Settled(disk')
    BY <1>1 DEF MendInv
  <2> QED
    BY <1>2, <1>4, <2>1, <2>2, <2>3, MendingAlone, WriterMends
<1> QED
  BY <1>3, <1>4

LEMMA AcceptMends ==
  ASSUME TypeInv, MendInv, NEW p \in Procs, AcceptPreview(p)
  PROVE  MendInv'
<1>1. /\ phase[p] = "reading" /\ Audit(Snapshot(p))
      /\ phase' = [phase EXCEPT ![p] = "writing"]
      /\ UNCHANGED <<disk, cmd, todo, undo, acked>>
  BY DEF AcceptPreview
<1>2. Writer(p) /\ Mending(p)
  BY <1>1, MendingAlone DEF AcceptPreview
<1>3. [f \in Files |-> IF f \in CharterFiles THEN disk[f] ELSE seen[p][f]] = disk
  BY <1>1, <1>2 DEF Mending, FirstHalf, TypeInv, Disks
<1>4. Fresh(p)
  BY <1>1, <1>2, <1>3 DEF Mending, Fresh, Accepted, After, Snapshot
<1>5. OthersWait(p) /\ phase'[p] = "writing"
  BY <1>1 DEF OthersWait, TypeInv
<1>6. Fresh(p)'
  BY <1>1, <1>4 DEF Fresh
<1>7. Mending(p)' /\ Writer(p)' /\ cmd'[p] # Nothing
  BY <1>1, <1>2, <1>5, <1>6, NotCommands DEF Mending, Writer
<1>8. DocsGoverned(disk') /\ Settled(disk')
  BY <1>1 DEF MendInv
<1> QED
  BY <1>2, <1>5, <1>7, <1>8, MendingAlone, WriterMends

LEMMA RenameFailsMends ==
  ASSUME TypeInv, MendInv, NEW p \in Procs, RenameFails(p)
  PROVE  MendInv'
<1>1. /\ phase[p] = "writing" /\ todo[p] # << >>
      /\ phase' = [phase EXCEPT ![p] = "rollback"]
      /\ UNCHANGED <<disk, cmd, todo, undo, seen, acked>>
  BY DEF RenameFails, Committing
<1>2. Writer(p) /\ Mending(p)
  BY <1>1, MendingAlone
<1>3. OthersWait(p) /\ phase'[p] = "rollback"
  BY <1>1 DEF OthersWait, TypeInv
<1>4. undo[p] = << >> \/ Backed(p)
  BY <1>1, <1>2 DEF Mending, Fresh
<1>5. undo'[p] = << >> \/ Backed(p)'
  BY <1>1, <1>4 DEF Backed
<1>6. Mending(p)' /\ Writer(p)' /\ cmd'[p] # Nothing
  BY <1>1, <1>2, <1>3, <1>5, NotCommands DEF Mending, Writer
<1>7. DocsGoverned(disk') /\ Settled(disk')
  BY <1>1 DEF MendInv
<1> QED
  BY <1>2, <1>3, <1>6, <1>7, MendingAlone, WriterMends

LEMMA PutElsewhere ==
  ASSUME NEW d \in Disks, NEW w \in TypedWrite, DocsGoverned(d), w.file \notin Docs
  PROVE  DocsGoverned(Put(d, w))
<1>1. Docs \subseteq Files
  BY DEF Docs, Files
<1> QED
  BY <1>1 DEF DocsGoverned, Put, Disks

(* The backup brings back what the write replaced. *)
LEMMA PutBack ==
  ASSUME NEW d \in Disks, NEW w \in TypedWrite
  PROVE  LET b == Write(w.file, d[w.file])
         IN b \in TypedWrite /\ Put(Put(d, w), b) = d
<1>1. PICK b : b = Write(w.file, d[w.file])
  OBVIOUS
<1>2. w.file \in Files /\ b.file = w.file /\ b.data = d[w.file]
  BY <1>1 DEF TypedWrite, WriteRecord, Write
<1>3. b \in TypedWrite
  BY <1>1, <1>2, ContentsAreContents DEF TypedWrite, WriteRecord, Write, Disks
<1>4. Put(Put(d, w), b) = d
  BY <1>2 DEF Put, Disks
<1> QED
  BY <1>1, <1>3, <1>4

(* Between the two renames of "spec create" the spec is listed and can be       *)
(* created again: to do so would write the charter as it is.                     *)
LEMMA HalfCreated ==
  ASSUME NEW d \in Disks, DocsGoverned(d), NEW s \in Specs, Accepted(Create(s), d),
         NEW v, v = Write(CharterOf(s), d[CharterOf(s)] \cup {s}),
         NEW w, w = Write(TrackingOf(s), {}),
         v \in TypedWrite, w \in TypedWrite, v.file \notin Docs, v.file # w.file,
         Plan(Create(s), d) = <<v, w>>
  PROVE  Audit(Put(Put(d, v), w)) /\ Accepted(Create(s), Put(d, v))
<1>1. Overlay(d, <<v, w>>) = Put(Put(d, v), w)
  BY PutTwo
<1>2. Audit(Put(Put(d, v), w))
  BY <1>1 DEF Accepted, After
<1>3. PICK e : e = Put(d, v)
  OBVIOUS
<1>4. e \in Disks /\ DocsGoverned(e)
  BY <1>3, PutOne, PutElsewhere
<1>5. v.file = CharterOf(s) /\ v.data = d[CharterOf(s)] \cup {s} /\ w.file = TrackingOf(s)
  BY DEF Write
<1>6. ~Exists(d, TrackingOf(s)) /\ Exists(d, CharterOf(s))
  BY CreateIsCommand DEF Accepted, CreateSpecLegal
<1>7. v.file \in Files /\ TrackingOf(s) \in Files
  BY DEF TypedWrite, WriteRecord, Files
<1>8. e[CharterOf(s)] = d[CharterOf(s)] \cup {s} /\ e[TrackingOf(s)] = d[TrackingOf(s)]
  BY <1>3, <1>5, <1>7 DEF Put, Disks
<1>9. Exists(e, CharterOf(s)) /\ ~Exists(e, TrackingOf(s))
  <2>1. d[CharterOf(s)] \cup {s} \in SUBSET Specs
    BY <1>6, HeldContents DEF Exists
  <2>2. d[CharterOf(s)] \cup {s} # Absent
    BY <2>1, ListsExist
  <2> QED
    BY <1>6, <1>8, <2>2 DEF Exists
<1>10. Legal(Create(s), e)
  BY <1>9, CreateIsCommand DEF CreateSpecLegal
<1>11. Plan(Create(s), e) = <<v, w>>
  <2>1. e[CharterOf(s)] \cup {s} = d[CharterOf(s)] \cup {s}
    BY <1>8
  <2> QED
    BY <1>4, <1>10, <2>1, CreatePlan
<1>12. After(Create(s), e) = Put(Put(e, v), w)
  BY <1>4, <1>11, PutTwo DEF After
<1>13. Put(e, v) = e
  <2>1. e[v.file] = v.data
    BY <1>5, <1>8
  <2> QED
    BY <1>4, <2>1 DEF Put, Disks
<1>14. Accepted(Create(s), e)
  BY <1>2, <1>3, <1>10, <1>12, <1>13 DEF Accepted
<1> QED
  BY <1>2, <1>3, <1>14

LEMMA RenameMends ==
  ASSUME TypeInv, MendInv, NEW p \in Procs, Rename(p)
  PROVE  MendInv'
<1>1. PICK w, b : w = Head(todo[p]) /\ b = Write(w.file, disk[w.file])
  OBVIOUS
<1>2. /\ phase[p] = "writing" /\ todo[p] # << >>
      /\ disk' = Put(disk, w)
      /\ undo' = [undo EXCEPT ![p] = <<b>> \o undo[p]]
      /\ todo' = [todo EXCEPT ![p] = Tail(todo[p])]
      /\ UNCHANGED <<phase, cmd, seen, acked>>
  BY <1>1 DEF Rename, Committing, Put
<1>3. Writer(p) /\ Mending(p) /\ DocsGoverned(disk) /\ Settled(disk) /\ disk \in Disks
  BY <1>2, MendingAlone DEF MendInv, TypeInv
<1>4. /\ OthersWait(p) /\ phase'[p] = "writing" /\ cmd'[p] = cmd[p]
      /\ todo'[p] = Tail(todo[p]) /\ undo'[p] = <<b>> \o undo[p]
  BY <1>2 DEF OthersWait, TypeInv
<1>5. ASSUME todo'[p] = << >>, Audit(disk'), DocsGoverned(disk')
      PROVE  MendInv'
  <2>1. Mending(p)' /\ Writer(p)' /\ cmd'[p] # Nothing
    BY <1>3, <1>4, <1>5, NotCommands DEF Mending, Writer
  <2>2. Settled(disk')
    BY <1>5 DEF Settled
  <2> QED
    BY <1>3, <1>4, <1>5, <2>1, <2>2, MendingAlone, WriterMends
<1>6. ASSUME NEW u \in TypedWrite, todo[p] = <<u>>, u.file \notin Docs, Audit(Put(disk, u))
      PROVE  MendInv'
  <2>1. w = u /\ Tail(todo[p]) = << >>
    BY <1>1, <1>6
  <2>2. Audit(disk') /\ DocsGoverned(disk')
    BY <1>2, <1>3, <1>6, <2>1, PutElsewhere
  <2> QED
    BY <1>4, <1>5, <2>1, <2>2
<1>7. CASE Fresh(p)
  <2>1. cmd[p] \in Commands /\ Legal(cmd[p], disk) /\ todo[p] = Plan(cmd[p], disk)
        /\ undo[p] = << >> /\ Audit(Overlay(disk, todo[p]))
    BY <1>3, <1>7 DEF Fresh, Writer, Accepted, After
  <2>2. CASE \E u \in TypedWrite : u.file \notin Docs /\ Plan(cmd[p], disk) = <<u>>
    <3>1. PICK u \in TypedWrite : u.file \notin Docs /\ todo[p] = <<u>>
      BY <2>1, <2>2
    <3>2. Audit(Put(disk, u))
      BY <1>3, <2>1, <3>1, PutOne
    <3> QED
      BY <1>6, <3>1, <3>2
  <2>3. CASE \E s \in Specs :
               LET x == Write(CharterOf(s), disk[CharterOf(s)] \cup {s})
                   y == Write(TrackingOf(s), {})
               IN /\ cmd[p].op = "spec create" /\ cmd[p].spec = s
                  /\ x \in TypedWrite /\ y \in TypedWrite
                  /\ x.file \notin Docs /\ y.file \notin Docs /\ x.file # y.file
                  /\ Plan(cmd[p], disk) = <<x, y>>
    <3>1. PICK s \in Specs, x \in TypedWrite, y \in TypedWrite :
            /\ x = Write(CharterOf(s), disk[CharterOf(s)] \cup {s})
            /\ y = Write(TrackingOf(s), {})
            /\ cmd[p].op = "spec create" /\ cmd[p].spec = s
            /\ x.file \notin Docs /\ y.file \notin Docs /\ x.file # y.file
            /\ todo[p] = <<x, y>>
      BY <2>1, <2>3
    <3>2. /\ Legal(Create(s), disk)
          /\ Plan(Create(s), disk) = todo[p]
          /\ Accepted(Create(s), disk)
      <4>1. Legal(cmd[p], disk) <=> Legal(Create(s), disk)
        BY <3>1, CreateIsCommand DEF Legal
      <4>2. Plan(cmd[p], disk) = Plan(Create(s), disk)
        BY <3>1, CreateIsCommand DEF Plan
      <4> QED
        BY <2>1, <4>1, <4>2 DEF Accepted, After
    <3>3. Audit(Put(Put(disk, x), y)) /\ Accepted(Create(s), Put(disk, x))
      BY <1>3, <3>1, <3>2, HalfCreated
    <3>4. w = x /\ Tail(todo[p]) = <<y>>
      <4>1. Head(<<x, y>>) = x /\ Tail(<<x, y>>) = <<y>>
        OBVIOUS
      <4> QED
        BY <1>1, <3>1, <4>1
    <3>5. Settled(disk') /\ DocsGoverned(disk')
      BY <1>2, <1>3, <3>1, <3>3, <3>4, PutElsewhere DEF Settled
    <3>6. b \in TypedWrite /\ Put(disk', b) = disk /\ b.file = x.file
      BY <1>1, <1>2, <1>3, <3>1, <3>4, PutBack DEF Write
    <3>7. undo'[p] = <<b>>
      BY <1>4, <2>1
    <3>8. Backed(p)'
      BY <1>3, <3>1, <3>6, <3>7 DEF Backed
    <3>9. Ending(p)'
      BY <1>2, <1>4, <3>1, <3>3, <3>4 DEF Ending
    <3>10. Mending(p)' /\ Writer(p)' /\ cmd'[p] # Nothing
      BY <1>3, <1>4, <3>8, <3>9, NotCommands DEF Mending, Writer
    <3> QED
      BY <1>3, <1>4, <3>5, <3>10, MendingAlone, WriterMends
  <2> QED
    BY <1>3, <2>1, <2>2, <2>3, PlanShape
<1>8. CASE Backed(p) /\ Ending(p)
  BY <1>6, <1>8 DEF Ending
<1> QED
  BY <1>2, <1>3, <1>7, <1>8 DEF Mending

LEMMA RestoreMends ==
  ASSUME TypeInv, MendInv, NEW p \in Procs, Restore(p)
  PROVE  MendInv'
<1>1. /\ phase[p] = "rollback" /\ undo[p] # << >>
      /\ disk' = Put(disk, Head(undo[p]))
      /\ undo' = [undo EXCEPT ![p] = Tail(undo[p])]
      /\ UNCHANGED <<phase, cmd, todo, seen, acked>>
  BY DEF Restore, Put
<1>2. Writer(p) /\ Mending(p) /\ disk \in Disks /\ DocsGoverned(disk)
  BY <1>1, MendingAlone DEF MendInv, TypeInv
<1>3. PICK b \in TypedWrite : b.file \notin Docs /\ Settled(Put(disk, b)) /\ undo[p] = <<b>>
  BY <1>1, <1>2 DEF Mending, Backed
<1>4. Head(undo[p]) = b /\ Tail(undo[p]) = << >>
  BY <1>3
<1>5. Settled(disk') /\ DocsGoverned(disk')
  BY <1>1, <1>2, <1>3, <1>4, PutElsewhere
<1>6. OthersWait(p) /\ undo'[p] = << >> /\ phase'[p] = "rollback" /\ cmd'[p] = cmd[p]
  BY <1>1, <1>4 DEF OthersWait, TypeInv
<1>7. Mending(p)' /\ Writer(p)' /\ cmd'[p] # Nothing
  BY <1>2, <1>6, NotCommands DEF Mending, Writer
<1> QED
  BY <1>2, <1>5, <1>6, <1>7, MendingAlone, WriterMends

LEMMA StepMends ==
  ASSUME CrashesAlone, TypeInv, MendInv, [Next]_vars
  PROVE  MendInv'
<1>1. ASSUME NEW p \in Procs, NEW c \in Commands, Start(p, c)
      PROVE  MendInv'
  BY <1>1, StartMends
<1>2. ASSUME NEW p \in Procs, StartRead(p)
      PROVE  MendInv'
  BY <1>2, StartReadMends
<1>3. ASSUME NEW p \in Procs, Step(p)
      PROVE  MendInv'
  <2>1. CASE RefusePreview(p) \/ FinishRead(p) \/ ReportSuccess(p) \/ ReportFailure(p)
    BY <2>1, EndMends DEF RefusePreview, FinishRead, ReportSuccess, ReportFailure
  <2> QED
    BY <1>3, <2>1, ReadTrackingsMends, AcceptMends, RenameMends, RestoreMends DEF Step
<1>4. ASSUME NEW p \in Procs, Fault(p)
      PROVE  MendInv'
  <2>1. ~BackupFails(p) /\ ~RestoreFails(p)
    BY DEF CrashesAlone, BackupFails, RestoreFails
  <2>2. CASE Crash(p)
    BY <2>2, EndMends DEF Crash
  <2> QED
    BY <1>4, <2>1, <2>2, RenameFailsMends DEF Fault
<1>5. CASE UNCHANGED vars
  BY <1>5 DEF vars, MendInv, AtMostOneWriter, OthersRead, Reader, Writer, Mending, Fresh, Backed,
              Ending, FirstHalf
<1> QED
  BY <1>1, <1>2, <1>3, <1>4, <1>5 DEF Next

LEMMA InitMends ==
  ASSUME CrashesAlone, Init
  PROVE  MendInv
<1>1. disk \in InitialDisks /\ disk \in Disks /\ Audit(disk)
  BY InitialDisksTyped, InitialClean DEF Init
<1>2. DocsGoverned(disk)
  <2>1. PICK docs \in [Specs -> InitialDocs] :
          disk = [f \in Files |-> IF f = ConfigFile THEN Tags
                                  ELSE IF f[1] = "doc" THEN docs[f[2]]
                                  ELSE Absent]
    BY <1>1 DEF InitialDisks
  <2>2. ASSUME NEW s \in Specs
        PROVE  disk[DesignDoc(s)] = Governed
    <3>1. DesignDoc(s) \in Files /\ DesignDoc(s) # ConfigFile
          /\ DesignDoc(s)[1] = "doc" /\ DesignDoc(s)[2] = s
      BY DEF Files, DesignDoc, ConfigFile
    <3>2. docs[s] = Governed
      BY DEF CrashesAlone
    <3> QED
      BY <2>1, <3>1, <3>2
  <2> QED
    BY <2>2 DEF DocsGoverned, Docs
<1>3. \A p \in Procs : phase[p] = "idle" /\ cmd[p] = Nothing /\ Reader(p) /\ ~Writer(p)
  BY NotCommands DEF Init, Reader, Writer
<1> QED
  BY <1>1, <1>2, <1>3 DEF MendInv, AtMostOneWriter, OthersRead, Settled

(* Repairable: with one writing command at a time and governed documents,      *)
(* wherever a crash or a failed rename ended the last command, some command is  *)
(* accepted by the repository as it is.                                         *)
THEOREM AlwaysRepairable ==
  ASSUME CrashesAlone
  PROVE  Spec => []Repairable
<1>1. Init => MendInv
  BY InitMends
<1>2. TypeInv /\ MendInv /\ [Next]_vars => MendInv'
  BY StepMends
<1>3. TypeInv /\ MendInv => Repairable
  <2> SUFFICES ASSUME TypeInv, MendInv
               PROVE  \E c \in Commands : Accepted(c, disk)
    BY DEF Repairable
  <2>1. disk \in Disks /\ DocsGoverned(disk) /\ Settled(disk)
    BY DEF TypeInv, MendInv
  <2>2. CASE Audit(disk)
    <3>1. PICK s : s \in Specs
      BY DEF CrashesAlone
    <3> QED
      BY <2>1, <2>2, <3>1, CleanAccepts
  <2>3. CASE \E s \in Specs : Accepted(Create(s), disk)
    BY <2>3, CreateIsCommand
  <2> QED
    BY <2>1, <2>2, <2>3 DEF Settled
<1> QED
  BY <1>1, <1>2, <1>3, AlwaysTyped, PTL DEF Spec
=============================================================================
