SPECIFICATION CopySpec
CONSTANT
  ValueCount = 5
INVARIANTS
  ParallelEffect
  TempsAtMostHalf
PROPERTY Terminates
CHECK_DEADLOCK FALSE
