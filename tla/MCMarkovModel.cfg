\* Three states, up to five transitions and a limit of eight calls.
CONSTANTS
  a = a
  b = b
  c = c
  Unset = Unset
  States <- MCStates
  RecurLimit = 8
  MaxTransitions = 5
SPECIFICATION Spec
INVARIANTS
  TypeOK
  PathsAreReal
  SearchIsExhaustive
  SumAtMostOne
PROPERTY CutFindsNothing
SYMMETRY Symmetry
CHECK_DEADLOCK FALSE
