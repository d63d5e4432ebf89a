CONSTANTS
  Capacity = 3
  NumRegs = 3
  Val = {0, 1, 2}
  Programs <- FinishPrograms
  Width = 2
  RsSize = 2
  LsqSize = 2
  SbDepth = 1
  IfqSize = 2
  CdbWidth = 1
SPECIFICATION FairCoreSpec
CHECK_DEADLOCK FALSE
PROPERTIES
  Finishes
