CONSTANTS
  Blocks = {b1, b2}
  ManualBlocks = {b1, b2}
  TestFiles = {}
  SecondaryDocs = {}
  Commits = {c1}
  MaxDeltas = 3
  MaxRequirements = 2

SPECIFICATION Spec
INVARIANTS
  ClosedDeltasSealed
  VerifiedSpecIsProven
PROPERTIES
  SettledDeltasFrozen
  SupersessionKeepsAnchors
SYMMETRY BlockSymmetry
CONSTRAINTS
  FirstRevision
  SpecDocFirst
  OneIdle
