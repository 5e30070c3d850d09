\* Matrices of up to three states: pairs, and cycles of two and of three.
CONSTANT
  Dims = {1, 2, 3}
SPECIFICATION Spec
INVARIANTS
  TypeOK
  OnlyPlainLeft
PROPERTY ImplementsRanking
CHECK_DEADLOCK FALSE
