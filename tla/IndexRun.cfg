SPECIFICATION Spec
CONSTANTS
  a = a
  b = b
  Files = {a, b}
  Content <- MCContent
  Confs = {k1}
  Absent = Absent
  NoFp = NoFp
  EditsWhileIndexing = TRUE
  SameSecondEdits = TRUE
  Realtime = TRUE
  Reverts = TRUE
  MaxClock = 1
  MaxEvents = 2
INVARIANTS
  ReferentialIntegrity
CHECK_DEADLOCK FALSE
PROPERTY
  Converges
