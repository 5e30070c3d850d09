CONSTANTS
  CircuitLimit = 500
  Trails <- Renumbered
SPECIFICATION Spec
INVARIANT HopWalksEnd
CHECK_DEADLOCK FALSE
