\* Nine tasks: sets of up to five ranges.
CONSTANTS
  MaxTask = 8
  Operands <- MCOperands
SPECIFICATION FairSpec
INVARIANTS
  TypeOK
  CanonicalBetweenCalls
  SummariesAreRight
PROPERTIES
  ImplementsTaskSet
  CallsReturn
CHECK_DEADLOCK FALSE
