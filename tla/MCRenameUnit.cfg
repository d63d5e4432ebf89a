CONSTANTS
  Capacity = 3
  NumRegs = 3
  Val = {0}
SPECIFICATION RuSpec
VIEW LiveState
INVARIANTS
  RuTypeOK
  RatNamesNewestWriter
  CheckpointsStayExact
  NoStaleCheckpoint
  FreedTagsAreFree
