CONSTANTS
  NumLines = 3
  LineWords = 1
  Sets = 1
  Ways = 1
  Mshrs = 2
  MaxWaiters = 2
  Ports = 2
  RespLanes = 4
  SbDepth = 2
  NumLoads = 1
  MaxGen = 1
  Val = {0}
SPECIFICATION FairCacheSpec
INVARIANTS
  CacheTypeOK
  EachRequestOnce
  LineHasOneOwner
  ReservedWaysAreDistinct
PROPERTIES
  RequestsAreAnswered
