SPECIFICATION KeywordSpec
CONSTANTS
  NoType = NoType
  Go <- mcGo
  Scalar <- mcScalar
  Programs <- mcPanicking
CHECK_DEADLOCK FALSE
INVARIANTS
    NeverPanics
