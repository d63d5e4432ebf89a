CONSTANTS
  Capacity = 3
  NumUnits = 1
  UnitLatency = 2
  NumLsq = 1
  LsqSize = 2
  CdbWidth = 1
  Ids = 2
SPECIFICATION FairBusSpec

INVARIANTS
  BusTypeOK
  ResultsAreOwn
  NoResultIsLost
  PendingIsOutput
PROPERTIES
  PendingIsServed
