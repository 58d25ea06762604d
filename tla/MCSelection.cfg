\* All arguments of up to two items, all documents of up to three entries.
SPECIFICATION Spec
CONSTANTS
  MaxItems = 2
  MaxEntries = 3
  MaxTime = 1
  Platforms <- MCPlatforms
  Archs <- MCArchs
  Requests <- MCRequests
  Documents <- MCDocuments
CHECK_DEADLOCK FALSE
INVARIANTS
  TypeOK
  NoPanic
  BestSatellite
  ServedWhenPossible
