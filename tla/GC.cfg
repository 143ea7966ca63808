CONSTANTS
  Block = {1, 2, 3, 4}
  BlockSize = 1
  Id = {1, 2}
  Slot = {s1, s2}
  Caf = {c1}
  Value = {}
  MaxFields = 1
  MinHeapSize = 1
  AllocType = {"CONSTR", "THUNK"}
  MaxGCs = 2
  Null = Null
SPECIFICATION Spec
INVARIANTS
  TypeOK HeapClosed NoDuplicates BlocksDisjoint ToSpaceClosures
  IInv
PROPERTIES ImplementsLazyHeap GCTerminates
