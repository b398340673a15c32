SPECIFICATION Spec
CONSTANTS
    w1 = w1
    w2 = w2
    Workers = {w1, w2}
    Requests <- MCRequests
    Versions = {1, 2}
    Values = {1, 2}
    Deployments = {"local", "server"}
    MaxRequests <- MCMaxRequests
    MaxCrashes = 1
    NULL = NULL
CHECK_DEADLOCK FALSE
INVARIANTS
    OneTransaction
    ResultsAreTrue
    SchemaDescribesTable
PROPERTIES
    EveryExecReturns
