SPECIFICATION Spec
CONSTANTS
  Node = {1, 2, 3, 4}
  LoopNode = {2}
  MaxRefs = 3
INVARIANTS
  Topological
  WitnessOrRest
  EmittedAreClasses
  CountIsRight
CHECK_DEADLOCK FALSE
