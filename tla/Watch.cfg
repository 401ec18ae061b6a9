SPECIFICATION Spec
CONSTANTS
  a = a
  late = late
  Files = {a, late}
  LateFiles = {late}
  NewDir = NewDir
  MaxEdits = 4
INVARIANTS
  NoOverlap
  NoChangeForgotten
  NoLostWakeup
  DrainIsFinal
PROPERTIES
  ChangesIndexed
  ShutsDown
CHECK_DEADLOCK FALSE
