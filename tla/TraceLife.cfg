CONSTANTS
  Func = {1, 2}
  IFunc = {0}
  Ret = {3, 4}
  Check = {5}
  Alloc = {6}
  UpdRet = 4
  Hash <- MCHash
  HotThreshold = 2
  HotSideExit = 1
  MaxTargets = 2
  MaxSnaps = 1
  MaxFragments = 3
  InitialBase = 4
  MaxSlots = 40
  Programs <- MCPrograms
  UnfoldDepth = 6
  Fragments = 2
INIT MCInit
NEXT MCNext
INVARIANTS
  TraceIdExact LinksAtPc JfuncExact OneRecording
  OldTraceExact OldResultExact
PROPERTY PatchedOnce
