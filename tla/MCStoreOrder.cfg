CONSTANTS
  NumLines = 2
  LineWords = 1
  Sets = 1
  Ways = 1
  Mshrs = 2
  MaxWaiters = 2
  Ports = 2
  RespLanes = 4
  SbDepth = 3
  NumLoads = 1
  MaxGen = 0
  Val = {0, 1}
SPECIFICATION CacheSpec
INVARIANTS
  NoLostStore
