\* Nine processes, root 4.
CONSTANTS
  N = 9
  Root = 4
SPECIFICATION Spec
INVARIANTS
  TypeOK
  EachContributionHeldOnce
PROPERTIES
  ImplementsGather
  EveryProcessReturns
CHECK_DEADLOCK FALSE
