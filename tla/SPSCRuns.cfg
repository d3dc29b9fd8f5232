SPECIFICATION FairSpec
CONSTANTS
    CAP = 4
    MaxPushes = 7
    Forces = "locked"
INVARIANTS
    NoDataRace
    BumpDropsOne
PROPERTIES
    IsForcedFifo
    EveryValuePassed
