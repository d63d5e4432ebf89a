CONSTANTS
  LineWords = 2
  Sets = 1
  Ways = 2
  Mshrs = 2
  HitLatency = 2
  Width = 2
  IfqSize = 3
  RasSize = 1
  Programs <- FetchPrograms
  Recoveries = {2, 5}
  BpModes = {"gshare", "always_taken"}
  Memories = {"cached", "ideal"}
SPECIFICATION FairCfSpec
INVARIANTS
  CfTypeOK
  AnswerIsAwaited
  LinesAreTheirs
PROPERTIES
  FollowsPrediction
  FetchGoesOn
