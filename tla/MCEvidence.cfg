CONSTANTS
  Blocks = {b1, b2}
  ManualBlocks = {b2}
  TestFiles = {f1, f2}
  SecondaryDocs = {s1}
  Commits = {c1}
  MaxDeltas = 2
  MaxRequirements = 2

SPECIFICATION Spec
INVARIANTS
  VerifiedHasEvidence
PROPERTIES
  WritesStayLoadable
SYMMETRY FileSymmetry
CONSTRAINTS
  FirstRevision
  SpecDocFirst
  DocumentsApart
