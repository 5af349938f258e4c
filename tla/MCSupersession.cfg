CONSTANTS
  Blocks = {b1, b2}
  ManualBlocks = {b1, b2}
  TestFiles = {}
  SecondaryDocs = {}
  Commits = {c1}
  MaxDeltas = 2
  MaxRequirements = 3

SPECIFICATION Spec
INVARIANTS
  TypeOK
  SupersessionLinked
PROPERTIES
  RetiredRequirementsFrozen
  ImplementsGovernance
SYMMETRY BlockSymmetry
CONSTRAINTS
  SpecDocFirst
