SPECIFICATION Spec
CONSTANTS
  ValueCount = 6
  Inputs <- MCIndirectInputs
  Token <- MCToken
INVARIANT Agreement
CHECK_DEADLOCK FALSE
