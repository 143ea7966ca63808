CONSTANTS
  Regs = {r1, r2, r3}
  Slots = {s1, s2}
  Hp = hp
  SaveSlot = s0
  None = none
  MaxMoves = 3
  MaxInherited = 3
  NumRegs = 3
  NumSpills = 3
  NumSmallLits = 1
  NumBigLits = 1
  NumInputs = 2
  NumIns = 5
  Ops = {"ADD", "MUL", "NEG", "DIV", "FLOAD", "GUARD", "HEAPCHK", "NEW", "UPDATE", "CMP", "EQINFO", "PLOAD", "SHL"}
  NSpills = 2
  ExitNos = {31, 200, 300}
  HeapBytes = 3
  AreaSize = 110
  PerGroup = 2
  NumGroups = 3
  MaxExits = 6
  CodeSizes = {20, 27}
  MaxTraces = 2
  Displacements <- MCDisp
  HalfRange = 16
SPECIFICATION BackendSpec
INVARIANTS
  TempsSafe AssignmentKept
  RegistersExact CodeCorrect
  ExitStateExact RegistersRestored
  AreaExact EncodingExact
PROPERTIES ClashesCount AssignTerminates
CHECK_DEADLOCK FALSE
