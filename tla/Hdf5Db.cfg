CONSTANTS
    p1 = p1  p2 = p2
    NULL = NULL
    Bits = 3
    Processes = {p1, p2}
    Scenarios <- MCScenarios
SPECIFICATION Spec
INVARIANT NamesAreUnique
INVARIANT LinksResolve
INVARIANT FileRefsExact
INVARIANT StatisticsCover
INVARIANT IterationIsExact
PROPERTY NewIsEmpty
CHECK_DEADLOCK FALSE
