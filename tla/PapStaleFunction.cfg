CONSTANTS
  Block = {1, 2, 3, 4, 5, 6}
  BlockSize = 1
  Id = {1, 2}
  Slot = {s1, s2}
  Caf = {}
  Value = {}
  MaxFields = 1
  MinHeapSize = 2
  AllocType = {"FUN"}
  MaxGCs = 1
  Null = Null
SPECIFICATION PSpec
INVARIANTS HeapClosed
SYMMETRY Symmetry
