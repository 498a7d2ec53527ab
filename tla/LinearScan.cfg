SPECIFICATION Spec
CONSTANTS
  Reg = {"rax", "rbx", "xmm0"}
  Class <- MCClass
  Pool <- MCPool
  CalleeSaved = {"rbx"}
  NoReg = NoReg
  Inputs <- MCInputs
INVARIANTS
  NoInterference
  CallSafe
  PrologueSaves
  SlotsDisjoint
  PoolConserved
  SpillOnlyUnderPressure
CHECK_DEADLOCK FALSE
