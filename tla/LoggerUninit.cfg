SPECIFICATION FairSpec
CONSTANTS
    Writers = {main, w1}
    Main = main
    Messages = {"ab", "abc", "twenty bytes of text"}
    Farewell = "."
    HeaderSize = 2
    Cap = 8
    FixedSize = 3
    Pooled = FALSE
    Racing = FALSE
    StackByte = {FALSE, TRUE}
    Spurious = FALSE
PROPERTIES
    LogReturns
