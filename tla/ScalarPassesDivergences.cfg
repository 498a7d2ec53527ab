\* UsesDominated fails of SiblingFns and of ChainedFns; Agreement of
\* ConvertedFns, PunnedFns, PartialFns, VolatileFns, AliasedFns and
\* CoalescedFns.
SPECIFICATION Spec
CONSTANTS
  ValueCount = 9
  Params <- MCParams
  Inputs <- SiblingFns  \* or another of these
  Spared = {}
  MaxIterations = 4
  MaxSteps = 9
INVARIANTS
  UsesDominated
  Agreement
CHECK_DEADLOCK FALSE
