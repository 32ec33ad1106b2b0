SPECIFICATION Spec
CONSTANTS
  CascadeMax = 16
  SettleMax = 16
  MaxDeltas = 20
  Sources <- Mixed
  Stimuli <- Bench
  Forced <- Overrides
  Names = {k1}
  Durations = {2}
  MaxCalls = 7
INVARIANTS
  TypeOK
  Settled
  RestoredAgrees
  ReportsCurrent
PROPERTY Cycle
CHECK_DEADLOCK FALSE
