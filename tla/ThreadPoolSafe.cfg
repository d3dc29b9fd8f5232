SPECIFICATION Spec
CONSTANTS
    w1 = w1
    w2 = w2
    c1 = c1
    c2 = c2
    a = a
    b = b
    p = p
    q = q
    r = r
    NoTask = NoTask
    Workers = {w1, w2}
    Clients = {c1, c2}
    Tasks = {a, b, p, q, r}
    Detached = {a, r}
    Children <- ForkJoin
    AddPolicy <- ForkJoinPolicy
    QueueCap = 2
    Spurious = TRUE
SYMMETRY WorkerSymmetry
INVARIANTS
    TypeOK
    NoTaskLostOrDoubled
    ActiveIsCounted
    NoSleepOverTask
    DestroyIsClean
    NoJoinCycle
PROPERTIES
    WaitMeansDone
