SPECIFICATION Spec
CONSTANTS
  Name <- MCName
  LinkerName = {"_end"}
  Inputs <- MCInputs
INVARIANTS
  OneDefinition
  MostRestrictive
  ArchiveFixpoint
PROPERTY LinkEnds
CHECK_DEADLOCK FALSE
