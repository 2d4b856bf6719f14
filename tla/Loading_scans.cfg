SPECIFICATION SpecAll
CONSTANTS
    Dotless <- MCDotless
    None = None
    Goroot <- MCGoroot
    MainRoot <- MCMainRoot
    VendorRoot <- MCVendorRoot
    Segments <- MCSegments
    Paths <- MCPaths
    Order <- MCOrder
    Scans <- MCScans
    Lines <- MCLines
    Tree <- MCTree
    KeyOrder <- MCKeyOrder
    MaxObserved = 1
    PatternsOf <- MCPatternsOf
    Accepted <- MCAccepted
CHECK_DEADLOCK FALSE
INVARIANTS
    ScannedIsRead
    AnnotatedIsRead
    DeclarationsAreFound
    OptionsAreAsked
    KeysAreAnswered
    StatusTells
