SPECIFICATION Spec
CONSTANTS
  Name <- MCName
  Label <- MCLabel
  Literal <- MCLiteral
  Menus <- MCMenus
  MaxNesting = 3
INVARIANTS
  ScopesAgree
  LabelsJudged
  SwitchesNest
CHECK_DEADLOCK FALSE
