SPECIFICATION Spec
CONSTANTS
  Reg = {"rax", "rbx", "xmm0"}
  Class <- MCClass
  CalleeSaved = {"rbx"}
  NoReg = NoReg
  Inputs <- MCInputs
  Allocatable <- MCAllocatable
INVARIANTS
  ListsInOrder
PROPERTY RefinesLinearScan
CHECK_DEADLOCK FALSE
