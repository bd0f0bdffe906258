SPECIFICATION Spec
CONSTANTS
  Defs <- MCDefs
  Programs <- MCPrograms
  MaxInstantiations = 3
  MaxDepth = 3
  MaxTypeNodes = 3
INVARIANTS DriverIsConsistent OutputIsExact
PROPERTY Terminates
CHECK_DEADLOCK FALSE
