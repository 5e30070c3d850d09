\* The limit of the code on the calls of circuit().
CONSTANTS
  CircuitLimit = 500
  Trails <- MCTrails
SPECIFICATION Spec
INVARIANTS
  TypeOK
  FlowConserved
  ReachabilityKept
  LoopsAreRight
  LeastProgressFound
CHECK_DEADLOCK FALSE
