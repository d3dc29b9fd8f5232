SPECIFICATION FairSpec
CONSTANTS
    NStages = 2
    Packages = {p1, p2}
    Callers = {c1}
    NoPackage = NoPackage
    AllocFails = FALSE
    Spurious = FALSE
PROPERTIES
    DestroyTerminates
CHECK_DEADLOCK FALSE
