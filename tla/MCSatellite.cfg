\* One other satellite, one mission control, one stranger, and a restart.
SPECIFICATION FairSpec
CONSTANTS
  Satellites = {s1}
  Controls = {c1}
  Strangers = {x1}
  MaxQueue = 2
  MaxRuns = 2
CHECK_DEADLOCK FALSE
INVARIANTS
  TypeOK
  NoLostPeer
  GateSound
PROPERTIES
  OnceIn
  EntryAdmitted
  KeepsItsWord
