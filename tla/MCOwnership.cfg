SPECIFICATION OSpec
CONSTANTS
  Slugs = {1, 2}
  Groups = {g}
  GroupOrders = {0}
  EntryOrders = {0, 1}
  Names <- MCNames
  SourceFiles <- MCFiles
  DocOf <- MCDocs
  ScopeChoices <- MCScopes
  Directories <- MCDirectories
INVARIANTS
  OTypeOK
  HookIgnoresOrder
  GovernsMostSpecific
PROPERTIES
  OwnershipIsLocal
CHECK_DEADLOCK FALSE
