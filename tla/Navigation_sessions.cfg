SPECIFICATION Spec
CONSTANTS
    Rows <- mcRows
    Documents <- mcDocuments
    Sessions <- mcSessions
    Queries <- mcQueries
    MaxScans = 2
INVARIANTS
    PanesAreCurrent
PROPERTIES
    FollowersMirror
    CursorKeepsNode
