SPECIFICATION Spec
CONSTANTS
  Budget = 2
  IfNest = 2
  StackMax = 5
  Unroll = 7
  Designs <- OrderedDesigns
  MaxDepth = 1000
  RecordUntil = 4
  Horizon = 6
INVARIANTS
  FollowsSource
  NothingLost
CHECK_DEADLOCK FALSE
