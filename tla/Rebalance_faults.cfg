\* Two plans, the second possibly over open orders of the first.
SPECIFICATION Spec
CONSTANTS
  p1 = p1
  p2 = p2
  LimitPrice = 0
  Targets = 2
  Starts <- TwoAndOne
  Courses <- ReverseOrExceed
  Prefixes = {p1, p2}
  Readings <- BenignOnly
  Limits <- OnePerWindow
  MaxQuantity = 3
  MaxPlans = 2
  MaxCrashes = 0
  MaxLost = 1
INVARIANTS
  
  
  
  
  RateExceededWithinPhase
  
CHECK_DEADLOCK FALSE
