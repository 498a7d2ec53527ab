SPECIFICATION Spec
CONSTANTS
  Name <- MCName
  UserPaths <- MCUserPaths
  SystemPaths <- MCSystemPaths
  Macro <- MCMacro
  MaxIncludeDepth = 2
  Main <- MCMain
  Sources <- MCSources
INVARIANTS
  AsTheStandardReads
CHECK_DEADLOCK FALSE
