SPECIFICATION Spec
CONSTANTS
  Var <- MCVar
  ValueCount <- MCValueCount
  Inputs <- MCInputs
  Token <- MCToken
INVARIANTS
  ImmediateDominators
  PhisComplete
  Agreement
CHECK_DEADLOCK FALSE
