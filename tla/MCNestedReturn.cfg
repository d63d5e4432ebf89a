CONSTANTS
  Programs <- MCPrograms
  RasSize = 2
  WindowSize = 4
  AlwaysTaken = FALSE
SPECIFICATION RsSpec
CHECK_DEADLOCK FALSE
PROPERTIES
  ImplementsCalls
