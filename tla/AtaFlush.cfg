CONSTANTS
  Sector = {s1, s2}
  Value = {v1, v2}
  SPIN = 1
  Fault = {}
SPECIFICATION Spec
INVARIANTS WritesReachDisk
