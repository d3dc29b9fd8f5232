SPECIFICATION Spec
CONSTANTS
    Cap = 2
    Width = 4
    Producers = {p1, p2}
    Consumers = {c1, c2}
    MaxPushes = 9
INVARIANTS
    ExclusiveCell
PROPERTIES
    IsFifo
    AnswersAreTrue
