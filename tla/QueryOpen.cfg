SPECIFICATION Spec
CONSTANTS
  Files <- MCFiles
  Dirs = {1, 2}
  HealMax = 1
  Home = 1
  MaxEvents = 2
INVARIANTS
  AnswerLabelled
  HealedIsCurrent
PROPERTIES
  QueryEnds
CHECK_DEADLOCK FALSE
