CONSTANTS
    Key <- mcKey
    Name <- mcName
    Leaf <- mcLeaf
    Long <- mcLong
    Shared = {"P", "R"}
    Inputs <- mcInputs
SPECIFICATION Spec
INVARIANTS
    NothingDangles
    OnlyTheNeeded
