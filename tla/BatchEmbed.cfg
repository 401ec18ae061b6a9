SPECIFICATION BatchSpec
CONSTANTS
  Batch = {b1, b2}
  Confs = {k1, k2}
  NoFile = NoFile
  MaxFaults = 1
INVARIANTS
  NoSilentOrphan
PROPERTY
  Recovered
CHECK_DEADLOCK FALSE
