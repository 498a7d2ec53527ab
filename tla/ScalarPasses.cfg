SPECIFICATION Spec
CONSTANTS
  ValueCount = 9
  Params <- MCParams
  Inputs <- MCInputs
  Spared <- MCSpared
  MaxIterations = 4
  MaxSteps = 9
INVARIANTS
  Agreement
  UsesDominated
  Settled
CHECK_DEADLOCK FALSE
