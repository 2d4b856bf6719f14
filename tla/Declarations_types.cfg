SPECIFICATION KeywordSpec
CONSTANTS
  NoType = NoType
  Go <- mcGo
  Scalar <- mcScalar
  Programs <- mcPrograms
CHECK_DEADLOCK FALSE
INVARIANTS
    TargetsAreWhole
    NamedLikeAlias
    WordsAreAnswered
    KeywordsAgree
