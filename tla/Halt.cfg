SPECIFICATION HSpec
CONSTANTS
  o1 = o1
  Orders = {o1}
  Quantity <- TwoContracts
  MaxQuantity = 2
  MaxAttempts = 2
  MaxCrashes = 1
  MaxLost = 0
  Overlap = TRUE
CONSTRAINT NoSweepAfterCrash
INVARIANTS
  HaltLeaksOneOrder
  SweepMissesOnlyInFlight
CHECK_DEADLOCK FALSE
