SPECIFICATION Spec
CONSTANTS
  GovernedFiles = {doc, code}
  Contents = {a, b}
  MaxCommits = 3
  MaxDeltas = 2
SYMMETRY DataSymmetry
CONSTRAINTS
  OneWorkLine
  OneInFlight
INVARIANTS
  TypeOK
  TrackedHidesNothingLate
PROPERTIES
  CommittingTrackingIsNeutral
  CommandsMoveDrift
