CONSTANTS
    Declaration <- mcDeclaration
    Programs <- mcNesting
    NoSource = NoSource
    Segment <- mcSegment
    Key <- mcKey
    Inputs = {}
    Rank <- mcRank
    GoName <- mcGoName
    Suffixed <- mcSuffixed
    MaxSuffix = 4
    OverBudget <- mcOverBudget
    SkipExtensions = FALSE
SPECIFICATION ScanSpec
INVARIANTS
    AnchorsResolve
