SPECIFICATION Spec
CONSTANTS
  ValueCount = 7
  Inputs <- MCInputs
  Token <- MCToken
INVARIANTS
  TypeOK
  UsesDefined
  OneValuePerPred
  EdgesFresh
  Agreement
PROPERTIES
  RoundsEnd
CHECK_DEADLOCK FALSE
