CONSTANTS
  Fun = {"g"}
  Thunk = {"t"}
  Main = "t"
  Arity <- MCArity
  FrameSize <- MCFrameSize
  ArgList <- MCArgList
  MaskBits = 3
  StackSize = 31
  Guard = 4
  RegionSize = 8
  HeaderSize = 2
  NumRegions = 2
  MaxObjects = 6
  Sizes = {3, 4}
  Programs <- MCPrograms
  MaxLoads = 2
  RegionUnits = 4
  AddressTop = 19
  RegionEnd = 16
  MaxAttempts = 1
  PerRegion = 3
  KindOrder <- MCKindOrder
  Capacity = 1
  MaxRegions = 2
  MaxLevel = 2
  ChunkBits = 2
  MaxSmallArity = 2
  MaxArgs = 5
  MaxOthers = 1
  ByteSize = 4
  WordValues = 8
  MaxCases = 7
  MaxTag = 6
  MaxInsArgs = 9
INIT LargeOnlyInit
NEXT RuntimeNext
INVARIANT ObjectsDisjoint
CHECK_DEADLOCK FALSE
