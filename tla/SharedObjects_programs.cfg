CONSTANTS
    Name = {"x", "y", "z"}
    Location = {"query", "path", "header", "body"}
    OpId = {"g", "p"}
    Path = {"/a", "/b"}
    Method = {"GET"}
    Inputs <- mcInputs
SPECIFICATION Spec
INVARIANTS
    FirstIsKept
    OperationsAreExact
    NothingIsLost
