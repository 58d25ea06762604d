\* Two chunks each way, every loss and hang-up, safety and liveness.
SPECIFICATION FairSpec
CONSTANT MaxChunks = 2
CHECK_DEADLOCK FALSE
INVARIANTS
  TypeOK
  CompletedMeansComplete
  OkForwardedAll
PROPERTIES
  NoHalfSession
  HungUpEnds
  IsBytePipe
