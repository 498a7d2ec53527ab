\* UsesDefined fails of MCLoopInputs; Agreement of MCArmsInputs.
SPECIFICATION Spec
CONSTANTS
  ValueCount = 7
  Inputs <- MCLoopInputs  \* or MCArmsInputs
  Token <- MCToken
INVARIANTS
  UsesDefined
  Agreement
CHECK_DEADLOCK FALSE
