SPECIFICATION Spec
CONSTANTS
  Name <- MCName
  UserPaths <- MCUserPaths
  SystemPaths <- MCSystemPaths
  Macro <- MCMacro
  MaxIncludeDepth = 2
  Main <- MCMain
  Sources <- MCOnceSources
INVARIANTS
  OnceIsOnce
CHECK_DEADLOCK FALSE
