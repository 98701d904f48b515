SPECIFICATION Spec
CONSTANTS
  Parts = 1
  MaxConnects = 2
  MaxCalls = 2
  MaxErrors = 1
  MaxMoves = 1
INVARIANTS
  AnswersAreOwnAndComplete
  StalePositionsNeedStrayEnd
  OrderIdsUsedOnce
  FailuresExplained
  GlobalErrorIsFinal
CHECK_DEADLOCK FALSE
