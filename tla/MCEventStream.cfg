\* Every order of up to five events, and every end of the stream.
SPECIFICATION FairSpec
CONSTANTS
  Roles = {"mission control", "fleet"}
  MaxEvents = 5
CHECK_DEADLOCK FALSE
INVARIANTS
  TypeOK
  WaitExact
  ReplayExact
PROPERTIES
  WaitEnds
  SeenReported
