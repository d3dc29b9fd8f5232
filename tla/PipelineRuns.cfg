SPECIFICATION FairSpec
CONSTANTS
    NStages = 3
    Packages = {p1, p2}
    Callers = {c1, c2}
    NoPackage = NoPackage
    AllocFails = TRUE
    Spurious = TRUE
INVARIANTS
    StagesAreFifo
    CountIsInFlight
    FreedIsUnused
PROPERTIES
    WaitMeansProcessed
    PackagesGetThrough
