SPECIFICATION Spec
CONSTANTS
  p1 = p1
  p2 = p2
  LimitPrice = 0
  Targets = 2
  Starts <- OneAndTwo
  Courses <- ReverseOrAdd
  Prefixes = {p1, p2}
  Readings <- BenignOnly
  Limits <- OnePerWindow
  MaxQuantity = 2
  MaxPlans = 2
  MaxCrashes = 0
  MaxLost = 0
INVARIANTS
  PositionsWithinLimit
CHECK_DEADLOCK FALSE
