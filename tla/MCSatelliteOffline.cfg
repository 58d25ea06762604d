\* The heartbeat against the shutdown sequence.
SPECIFICATION Spec
CONSTANTS
  Satellites = {s1}
  Controls = {}
  Strangers = {}
  MaxQueue = 1
  MaxRuns = 1
CHECK_DEADLOCK FALSE
INVARIANT OfflineAtExit
