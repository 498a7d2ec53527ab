SPECIFICATION Spec
CONSTANTS
  ValueCount = 6
  Inputs <- MCInputs
  Token <- MCToken
INVARIANTS
  PhiPredsMatch
  Agreement
CHECK_DEADLOCK FALSE
