CONSTANTS
  Charters = {c1}
  Slugs = {s1, s2}
  Tags = {t1}
  Absent = Absent
  Plain = Plain
  Governed = Governed
  InitialDocs = {Absent, Plain, Governed}
  Procs = {p1, p2}
  Exclusion = "all"
  Faults = {"rename"}

SPECIFICATION Spec
INVARIANTS
  TypeOK
  CleanWhenIdle
PROPERTIES
  ImplementsAtomicRepo
SYMMETRY RepoSymmetry
