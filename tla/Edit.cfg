SPECIFICATION Spec
CONSTANTS
  Trees <- MCTrees
  Names = {"Get", "Set"}
  Requests <- MCRequests
  Fold <- MCFold
  PathHas <- MCPathHas
  MaxTurn = 2
  MaxUser = 1
INVARIANTS
  AnswerIsTrue
  TargetUnlessNamesake
PROPERTY
  OnlyTargetChanges
CHECK_DEADLOCK FALSE
