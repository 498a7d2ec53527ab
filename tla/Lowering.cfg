SPECIFICATION Spec
CONSTANTS
  Functions <- MCFunctions
  Var <- MCVar
  VarOf <- MCVarOf
  Width = 4
  IntWidth = 3
  MaxEnumerated = 3
INVARIANTS
  Agreement
  ObjectsApart
  EdgesOfTerminators
CHECK_DEADLOCK FALSE
