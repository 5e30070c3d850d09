\* Four processes; one transition may be recorded during the analysis.
CONSTANTS
  N = 4
  Root = 0
  Trails <- MCTrails
  LateNames <- MCLateNames
  LateBudget = 1
SPECIFICATION SafeSpec
INVARIANTS
  TypeOK
  PhasesMatch
  SameVectorEverywhere
  TableIsPartition
  EdgesSummed
  RangeSetsNeverOverlap
PROPERTY ImplementsTreeReduction
CHECK_DEADLOCK FALSE
