\* Two orders, each submitted once, one thread, no faults.
SPECIFICATION FairSpec
CONSTANTS
  o1 = o1
  o2 = o2
  Orders = {o1, o2}
  Quantity <- TwoOrders
  MaxQuantity = 2
  MaxAttempts = 1
  MaxCrashes = 0
  MaxLost = 0
  Overlap = FALSE
  Prices = {2, 5}
INVARIANTS
  LifecycleMatchesLedger
  BooksBalance
PROPERTIES
  FillsNotForgotten
  LedgerAddsFillsOnce
  
CHECK_DEADLOCK FALSE
