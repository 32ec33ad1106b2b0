SPECIFICATION FairSpec
CONSTANTS
  Leader = leader
  Workers = {w1, w2, w3}
  MayFail = TRUE
  MaySwitch = FALSE
INVARIANTS
  LeaderAlone
  OncePerPhase
  NoneLeftBehind
PROPERTIES
  PhaseEnds
CHECK_DEADLOCK FALSE
