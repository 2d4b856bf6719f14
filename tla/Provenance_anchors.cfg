CONSTANTS
    Declaration <- mcDeclaration
    Programs <- mcPrograms
    NoSource = NoSource
    Segment <- mcSegment
    Key <- mcKey
    Inputs = {}
    Rank <- mcRank
    GoName <- mcGoName
    Suffixed <- mcSuffixed
    MaxSuffix = 4
    OverBudget <- mcOverBudget
    SkipExtensions = FALSE
SPECIFICATION ScanSpec
INVARIANTS
    AnchorsMatchNodes
    JumpsAreTrue
    NamesAreDistinct
    RefsFollow
    ResultIsPure
