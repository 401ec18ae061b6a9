SPECIFICATION LockSpec
CONSTANTS
  Proc = {p1, p2, p3}
  Empty = Empty
  Garbage = Garbage
  Nobody = Nobody
  NoLock = NoLock
  WriteMayFail = TRUE
INVARIANTS
  SingleWriterUnlessRaced
  NoLockLeftBehind
PROPERTY
  StaleLockReaped
CHECK_DEADLOCK FALSE
