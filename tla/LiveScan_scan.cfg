CONSTANTS
    MaxEdits = 1
    MaxBurst = 2
    MaxToggles = 1
    MaxPresses = 2
    Broken <- mcBroken
    Unconvertible <- mcUnconvertible
SPECIFICATION Spec
CHECK_DEADLOCK FALSE
INVARIANTS
    NothingIsMissed
    YamlIsCurrent
PROPERTIES
    ChangesAreScanned
    YamlArrives
