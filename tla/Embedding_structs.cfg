SPECIFICATION Spec
CONSTANTS
    Types <- MCTypes
    Root = "R"
    Names <- MCNames
    Leaf = Leaf
    None = None
    Programs <- MCPrograms
CHECK_DEADLOCK FALSE
INVARIANTS
    MembersAreWritten
    PromotedAndRequired
    ScopesAreRestored
