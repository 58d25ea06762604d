\* One satellite that restarts, and every loss and delay of its entries.
SPECIFICATION Spec
CONSTANTS
  Native = {s1}
  Emulated = {}
  MaxRuns = 2
  MaxWrites = 2
  MaxClock = 1
CHECK_DEADLOCK FALSE
INVARIANTS
  TypeOK
  RestartSupersedes
PROPERTIES
  DiscoveryComplete
  AllKeepTheirWord
