SPECIFICATION FairSpec
CONSTANTS
    w1 = w1
    w2 = w2
    c1 = c1
    c2 = c2
    a = a
    b = b
    p = p
    q = q
    r = r
    NoTask = NoTask
    Workers = {w1, w2}
    Clients = {c1}
    Tasks = {a, b, p, q}
    Detached = {}
    Children <- TwoForks
    AddPolicy <- TwoForksPolicy
    QueueCap = 2
    Spurious = FALSE
INVARIANTS
    WaiterWillBeNotified
PROPERTIES
    AcceptedTasksRun
    EveryCallReturns
CHECK_DEADLOCK FALSE
