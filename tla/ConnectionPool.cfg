SPECIFICATION FairSpec
CONSTANTS
    t1 = t1
    t2 = t2
    t3 = t3
    c1 = c1
    c2 = c2
    c3 = c3
    o1 = o1
    Threads = {t1, t2, t3}
    Queues = {o1}
    Connections = {c1, c2, c3}
    max_count = 2
    MaxOps = 2
    MaxFailures = 1
    NULL = NULL
CHECK_DEADLOCK FALSE
INVARIANTS
    ExclusiveUse
PROPERTIES
    ImplementsBoundedPool
    ServedWhileConnected
