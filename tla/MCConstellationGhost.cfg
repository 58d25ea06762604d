\* A crash, a restart and a graceful stop.
SPECIFICATION Spec
CONSTANTS
  Native = {s1}
  Emulated = {}
  MaxRuns = 2
  MaxWrites = 2
  MaxClock = 1
CHECK_DEADLOCK FALSE
INVARIANT NoGhostAfterStop
