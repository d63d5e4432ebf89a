CONSTANTS
  Capacity = 4
  NumRegs = 3
  Val = {0, 1, 2}
  Programs <- MCPrograms
  Width = 2
  RsSize = 3
  LsqSize = 3
  SbDepth = 2
  IfqSize = 3
  CdbWidth = 2
SPECIFICATION CoreSpec
VIEW LiveState
CHECK_DEADLOCK FALSE
INVARIANTS
  CoreTypeOK
  OperandsWaitForLiveProducers
  WakeupsAreCurrent
  SpeculativeStoresStayOut
PROPERTIES
  ImplementsInOrder
