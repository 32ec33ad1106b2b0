SPECIFICATION Spec
CONSTANTS
  go = go
  clk = clk
  Signals = {clk}
  Events = {go}
  Statements <- SomeStatements
  Habits <- NoTriggers
  MaxArrivals = 3
  MaxNest = 2
  MaxChanges = 1
INVARIANTS NoneLost AllDueWoken NoMissedWait
PROPERTIES WokenByCause
