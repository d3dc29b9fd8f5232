SPECIFICATION Spec
CONSTANTS
    CAP = 4
    MaxPushes = 6
    Forces = "unlocked"
INVARIANTS
    BumpDropsOne
