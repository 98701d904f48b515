\* One plan, and a crash that may lose it.
SPECIFICATION FairSpec
CONSTANTS
  p1 = p1
  p2 = p2
  LimitPrice = 0
  Targets = 2
  Starts <- OneAndTwo
  Courses <- ReverseOrAdd
  Prefixes = {p1}
  Readings <- BenignOrWide
  Limits <- OnePerWindow
  MaxQuantity = 2
  MaxPlans = 1
  MaxCrashes = 1
  MaxLost = 1
PROPERTIES
  RebalanceEnds
CHECK_DEADLOCK FALSE
