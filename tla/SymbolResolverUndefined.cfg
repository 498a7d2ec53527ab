SPECIFICATION Spec
CONSTANTS
  Name <- MCName
  LinkerName = {"_end"}
  Inputs <- MCInputs
INVARIANT UndefinedReported
CHECK_DEADLOCK FALSE
