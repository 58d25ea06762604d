\* Three commands race, crash and restart on one key file.
SPECIFICATION Spec
CONSTANTS
  p1 = p1
  p2 = p2
  p3 = p3
  k1 = k1
  k2 = k2
  k3 = k3
  k4 = k4
  Process = {p1, p2, p3}
  Key = {k1, k2, k3, k4}
  Absent = Absent
  Short = Short
CHECK_DEADLOCK FALSE
SYMMETRY Symmetry
INVARIANTS
  TypeOK
  OneIdentity
  IdentityOnDisk
PROPERTY Permanent
