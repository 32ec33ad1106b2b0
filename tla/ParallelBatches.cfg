SPECIFICATION Spec
CONSTANTS
  Signals <- ThreeSignals
  Procs = {p, q}
  Assigns = {a}
  ThreadCount = 2
  WorkerAssigns = FALSE
  DelayedAssigns = FALSE
  Queues <- OneLater
  MaxUnits = 2
  MaxUnseen = 1
INVARIANTS
  WriteRaceFree
  ProcessesTriggered
  QueueSorted
  AssignsEvaluated
SYMMETRY Symmetric
CHECK_DEADLOCK FALSE
