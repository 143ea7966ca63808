CONSTANTS
  HalfWord = 4
  Literals <- MCWords
  BaseOffsets = {}
  MaxLiterals = 3
  IntSlots = 3
  IntValues = {6, 13}
  IntLits <- MCIntLits
  MaxArith = 3
  MaxHeapOps = 3
  MaxRetries = 8
  FunctionPcs = {p, i}
  IFuncs = {i}
  UpdReturn = u
  ReturnAddrs = {ra, u}
  BtbSize = 4
  StackBelow = 2
  StackHeight = 4
  KInitialBase = 30
  KSlots = 52
  EntryLimit = 256
  FunFrame = 2
  BottomFrame = 2
  MaxFrame = 2
  Dests = {1}
  MaxSteps = 3
INIT LiteralsInit
NEXT MCNext
CHECK_DEADLOCK FALSE
INVARIANT LiteralExact
