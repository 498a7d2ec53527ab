SPECIFICATION Spec
CONSTANTS
  Block <- MCBlock
  Cfgs <- MCCfgs
  Codes <- MCCodes
INVARIANTS
  RpoSound
  LiveCovered
  CallsFlagged
  BackEdgesClosed
CHECK_DEADLOCK FALSE
