CONSTANTS
    c1 = c1  c2 = c2  s1 = s1  s2 = s2  x1 = x1  x2 = x2  x3 = x3
    NULL = NULL
    Clients = {c1, c2}
    Servers = {s1, s2}
    Connections <- MCConnections
    Keys = {1, 2, 3}
    ServerOf <- MCServerOf
    Requests <- MCRequests
    BackendNames = {"leveldb", "lmdb", "sqlite", "gdbm", "mongodb"}
    MaxRequests <- MCMaxRequests
    MaxCrashes = 1
SPECIFICATION Spec
INVARIANT GetsAreRegular
INVARIANT ListsAreAtomic
INVARIANT ConfirmedStays
INVARIANT IterationIsRegular
PROPERTY EveryRequestReturns
CHECK_DEADLOCK FALSE
