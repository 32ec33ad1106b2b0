SPECIFICATION Spec
CONSTANTS
  None = None
  Signals = {a}
  Parts = {all}
  Values = {0, 1}
  Ranges <- WholeRanges
  Procs = {p, q}
  Effects = {"nonblocking", "delayed", "inertial"}
  Api = {}
  StmtDelays = {1}
  WireDelays = {2}
  Durations = {1, 2}
  MaxDeltas = 2
  RecordUntil = 30
  Horizon = 4
  MaxPending = 3
  MaxStamp = 4
  DeltaCap = 2
INVARIANTS NbaSourceOrder NoStalePulse
CHECK_DEADLOCK FALSE
