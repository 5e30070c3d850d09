\* Three processes with one edge each, or without one.
CONSTANTS
  N = 3
  Root = 0
  Trails <- MCShortTrails
  LateNames <- MCLateNames
  LateBudget = 0
SPECIFICATION Spec
PROPERTY AnalysisEnds
CHECK_DEADLOCK FALSE
