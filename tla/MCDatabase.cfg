SPECIFICATION Spec
CONSTANTS
  Paths <- MCPaths
  Order <- MCOrder
  Values = {0, 1}
  NoValue = 0
  Names = {"a", "b"}
  Types = {0, 1}
  o1 = o1
  o2 = o2
  Objs <- MCObjs
  Cap = 2
  MaxEdits = 3
  MaxSaves = 2
  MaxStops = 1
  MaxFailures = 1
INVARIANTS
  TypeOK
  CleanMeansSaved
  FoundIsKept
PROPERTIES
  ImplementsVersionStore
SYMMETRY MCSymmetry
CHECK_DEADLOCK FALSE
