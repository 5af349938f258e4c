CONSTANTS
  Charters = {c1}
  Slugs = {s1, s2}
  Tags = {t1, t2}
  Absent = Absent
  Plain = Plain
  Governed = Governed
  InitialDocs = {Plain}
  Procs = {p1, p2}
  Exclusion = "target"
  Faults = {"rename", "backup", "restore", "crash"}

SPECIFICATION Spec
INVARIANTS
  AcknowledgedKept
SYMMETRY RepoSymmetry
