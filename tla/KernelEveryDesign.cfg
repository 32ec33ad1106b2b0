SPECIFICATION FairSpec
CONSTANTS
  None = None
  Signals = {a}
  Parts = {all}
  Values = {0, 1}
  Ranges <- WholeRanges
  Procs = {p}
  Effects = {"blocking", "nonblocking", "delayed", "direct", "wire", "net", "transport", "inertial", "stop", "finish"}
  Api = {"set", "continue"}
  StmtDelays = {0, 1}
  WireDelays = {1}
  Durations = {0, 1}
  MaxDeltas = 1
  RecordUntil = 30
  Horizon = 2
  MaxPending = 2
  MaxStamp = 2
  DeltaCap = 2
INVARIANTS NbaDeferred
PROPERTIES TimeMonotone RunReturns
CHECK_DEADLOCK FALSE
