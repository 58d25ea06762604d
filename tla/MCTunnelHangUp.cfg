\* The client hangs up.
SPECIFICATION FairSpec
CONSTANT MaxChunks = 1
CHECK_DEADLOCK FALSE
PROPERTY HangUpEndsSession
