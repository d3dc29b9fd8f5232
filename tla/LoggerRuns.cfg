SPECIFICATION FairSpec
CONSTANTS
    Writers = {main, w1}
    Main = main
    Messages = {"ab", "abc", "twenty bytes of text"}
    Farewell = "."
    HeaderSize = 2
    Cap = 8
    FixedSize = 3
    Pooled = TRUE
    Racing = TRUE
    StackByte = {FALSE}
    Spurious = TRUE
INVARIANTS
    OutputIsAccepted
PROPERTIES
    EveryCallReturns
    AcceptedIsWritten
