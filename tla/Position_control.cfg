SPECIFICATION FairSpec
CONSTANTS
  i1 = i1
  i2 = i2
  Instruments = {i1, i2}
  StartPositions <- LongAndShort
  MaxCommands = 2
INVARIANTS
  FlattenStaysOnCourse
  
  
PROPERTIES
  FlattenClosesOrReports
CHECK_DEADLOCK FALSE
