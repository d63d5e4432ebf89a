CONSTANTS
  NumLines = 2
  LineWords = 1
  Sets = 1
  Ways = 1
  Mshrs = 2
  MaxWaiters = 2
  Ports = 1
  RespLanes = 4
  SbDepth = 2
  NumLoads = 1
  MaxGen = 2
  Val = {0, 1}
SPECIFICATION CacheSpec
INVARIANTS
  NoLostStore
  LoadsReturnCommitted
