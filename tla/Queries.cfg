SPECIFICATION ClientSpec
CONSTANTS
  Sym <- MCSym
  Calls <- MCCalls
  Refs <- MCRefs
  Imports <- MCImports
  Lits <- MCLits
  Exported = {1, 2, 3, 5, 7, 10, 12, 14}
  TestName = {5}
  TestFile = {4}
  LikeTest = {3, 4}
  Cached = {}
  Fold <- MCFold
  Main = 30
  Dot = 31
  Start <- MCStart
  Sessions <- MCSessions
  Methods <- MCMethods
  Directory <- MCDirectory
  Dotted = {20}
  ListCap = 1
  MaxOffset = 8
  MaxLimit = 16
  Moving = {1, 2, 3, 5, 6}
  Tree <- MCTree
  Log <- MCLog
  Cyclo <- MCCyclo
  NameVerb <- MCNameVerb
  Returns = {11}
  Takes = {9}
  DeleteCalls = {"call:Delete"}
  Generated = {}
  Fixtures = {9}
  Caps <- MCCaps
  Spelling <- MCSpelling
  Beginnings <- MCBeginnings
  Alone = {21}
  Module <- MCModule
  Prefixed = {5}
  Unborn = Unborn
  Cases <- MCCases
  MaxStirs = 2
INVARIANTS
  MeasuredWhatItNames
  CurrentUnlessDegraded
  VerifyAccounts
  PlanAccounts
  LifecycleWhole
  NamesResolve
  BlastRadius
  TextComplete
  CardsAgree
PROPERTIES
  ImplementsPages
CHECK_DEADLOCK FALSE
