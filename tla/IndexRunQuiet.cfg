SPECIFICATION Spec
CONSTANTS
  a = a
  b = b
  Files = {a, b}
  Content <- MCContent
  Confs = {k1, k2}
  Absent = Absent
  NoFp = NoFp
  EditsWhileIndexing = FALSE
  SameSecondEdits = FALSE
  Realtime = FALSE
  Reverts = FALSE
  MaxClock = 2
  MaxEvents = 3
INVARIANTS
  SkipSound
CHECK_DEADLOCK FALSE
SYMMETRY FileSymmetry
