CONSTANTS
  Capacity = 3
  NumUnits = 1
  UnitLatency = 1
  NumLsq = 2
  LsqSize = 2
  CdbWidth = 1
  Ids = 2
SPECIFICATION BusSpec
VIEW LiveState
INVARIANT
  ResultsAreOwn
