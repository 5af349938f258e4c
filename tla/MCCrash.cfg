CONSTANTS
  Charters = {c1, c2}
  Slugs = {s1, s2}
  Tags = {t1}
  Absent = Absent
  Plain = Plain
  Governed = Governed
  InitialDocs = {Governed}
  Procs = {p1}
  Exclusion = "all"
  Faults = {"crash", "rename"}

SPECIFICATION Spec
INVARIANTS
  Repairable
SYMMETRY RepoSymmetry
