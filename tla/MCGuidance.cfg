SPECIFICATION GSpec
CONSTANTS
  Blocks = {b1, b2, b3, b4}
  ManualBlocks = {}
  TestFiles = {f1}
  SecondaryDocs = {}
  Commits = {c1}
  MaxDeltas = 3
  MaxRequirements = 3
  WorkIntents = {"add", "change", "remove", "repair"}
  ForgetfulIntents = {"add", "change"}
  MaxRewordings = 1
INVARIANTS
  GTypeOK
  WriteResponsesLegal
  ContextResumesWork
  WorkRecordedOnce
  JudgedAsAccepted
PROPERTIES
  FinishTrackedWork
