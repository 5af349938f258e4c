CONSTANTS
  Blocks = {b1}
  ManualBlocks = {b1}
  TestFiles = {}
  SecondaryDocs = {}
  Commits = {c1, c2}
  MaxDeltas = 3
  MaxRequirements = 1

SPECIFICATION Spec
INVARIANTS
  ChangelogExact
PROPERTIES
  CheckpointMovesWhenSettled
