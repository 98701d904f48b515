SPECIFICATION Spec
CONSTANTS
  a1 = a1
  a2 = a2
  a3 = a3
  b1 = b1
  b2 = b2
  Missing = Missing
  Torn = Torn
  Builds = {b1, b2}
  Contracts = {a1, a2, a3}
  Days = {1, 2, 3, 4}
  Closes = {1, 3}
  Requests <- MCRequests
  Quotes <- MCQuotes
  Strays <- MCStrays
  Lookbacks = {1, 2, 3}
  Volatilities = {0, 3, 10}
  MaxRevisions = 1
  Digits = 3
  Places = 5
  Budget = 30
  MaxGross = 18
  MaxContracts = 8
SYMMETRY Symmetry
INVARIANTS
  TypeOK
  CacheKeepsFetched
  SeriesKeepsChanges
  TargetsWithinRisk
CHECK_DEADLOCK FALSE
