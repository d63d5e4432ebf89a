CONSTANTS
  Capacity = 3
  NumRegs = 2
  Val = {0, 1}
  Programs <- MCPrograms
  RasSize = 2
  WindowSize = 4
  AlwaysTaken = TRUE
  MemWords = {0, 1}
  Accesses <- SomeAccesses
  LsqSize = 3
  SbDepth = 2
  MaxOps = 4
  ForwardingModes = {TRUE, FALSE}
  XLEN = 14
  HexInputs <- SomeInsns
  GhrBits = 2
  BtbBits = 1
  BranchPcs = {1, 2, 3}
  BranchTargets = {0, 5}
SPECIFICATION UnitSpec
CHECK_DEADLOCK FALSE
INVARIANTS
  RobTypeOK
  BusyIsWindow
  OccupancyAgrees
  DoneOnlyWhenBusy
  RsTypeOK
  UnitTypeOK
  StoresReachMemory
  ExecutesAsGolden
  LearnsAStreak
PROPERTIES
  ImplementsQueue
  ImplementsCalls
  LoadsSeeOlderStores
