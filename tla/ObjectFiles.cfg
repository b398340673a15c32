CONSTANTS
    t1 = t1  t2 = t2  t3 = t3  p1 = p1  p2 = p2
    NULL = NULL
    Threads = {t1, t2, t3}
    Paths = {p1, p2}
    Below = {p2}
    Handles = {h1, h2, h3}
    Kinds = {"posix", "gio", "rados"}
    Requests <- MCRequests
    Width = 4
    MaxRequests <- MCMaxRequests
    MaxInterrupts = 1
SPECIFICATION Spec
INVARIANT HandlesAreExact
INVARIANT WorksOnTheNamedFile
INVARIANT TransferIsExact
INVARIANT ListingIsRegular
PROPERTY EveryMessageEnds
CHECK_DEADLOCK FALSE
