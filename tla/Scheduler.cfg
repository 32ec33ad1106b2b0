SPECIFICATION FairSpec
CONSTANTS
  Ids = {1, 2, 3}
  MaxTime = 5
  WheelSize = 2
  MaxDelta = 1
  Clients <- AllClients
PROPERTIES
  IsTimeline
  RunReturns
CHECK_DEADLOCK FALSE
