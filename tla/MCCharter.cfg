SPECIFICATION Spec
CONSTANTS
  Slugs = {1, 2, 3}
  Groups = {g, h}
  GroupOrders = {0, 1}
  EntryOrders = {0, 1}
SYMMETRY GroupSymmetry
INVARIANTS
  TypeOK
  DependenciesAcyclic
  OrderedIsLeast
  RefusedCycleIsReal
PROPERTIES
  OthersKeepTheirOrder
CHECK_DEADLOCK FALSE
