\* ObjectsApart fails of MCShadows; EdgesOfTerminators of MCIncrements;
\* Agreement of MCNegativeRanges.
SPECIFICATION Spec
CONSTANTS
  Functions <- MCShadows  \* or MCIncrements, MCNegativeRanges
  Var <- MCVar
  VarOf <- MCVarOf
  Width = 4
  IntWidth = 3
  MaxEnumerated = 3
INVARIANTS
  Agreement
  ObjectsApart
  EdgesOfTerminators
CHECK_DEADLOCK FALSE
