\* One order of two contracts, submitted up to twice, with a crash and a lost
\* reply, handlers overlapping.
SPECIFICATION Spec
CONSTANTS
  o1 = o1
  o2 = o2
  Orders = {o1}
  Quantity <- OneOrder
  MaxQuantity = 2
  MaxAttempts = 2
  MaxCrashes = 1
  MaxLost = 1
  Overlap = TRUE
  Prices = {2, 5}
INVARIANTS
  FillsWithinOrder
  ProcessedFillsAreInPositions
  RepeatedFillNeedsCrash
  
  PositionsHoldRecordedFills
  LifecycleNotAheadOfBroker
CHECK_DEADLOCK FALSE
