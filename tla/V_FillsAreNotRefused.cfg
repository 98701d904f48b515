SPECIFICATION Spec
CONSTANTS
  o1 = o1
  o2 = o2
  Orders = {o1}
  Quantity <- OneOrder
  MaxQuantity = 2
  MaxAttempts = 1
  MaxCrashes = 0
  MaxLost = 0
  Overlap = FALSE
  Prices = {2, 5}
INVARIANTS
  FillsAreNotRefused
CHECK_DEADLOCK FALSE
