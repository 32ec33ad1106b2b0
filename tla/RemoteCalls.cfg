SPECIFICATION Spec
CONSTANTS
  Clients = {a}
  Asks <- Asked
  a = a
  MaxCalls <- Calls
  MaxConnects <- Connects
  MaxTimeouts <- Timeouts
  MaxKills = 1
INVARIANTS Paired Found
PROPERTY CallReturns
CHECK_DEADLOCK FALSE
