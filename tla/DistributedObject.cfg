SPECIFICATION Spec
CONSTANTS
    c1 = c1
    c2 = c2
    server_count = 2
    stripe_size = 2
    Clients = {c1, c2}
    Requests <- MCRequests
    Configurations <- MCConfigurations
    max_operation_size = 3
    MaxBytes = 5
    MaxRequests <- MCMaxRequests
    Faulty = {1}
    NULL = NULL
CHECK_DEADLOCK FALSE
INVARIANTS
    ReadsAreRegular
    CountsAreExact
PROPERTIES
    ActsAsOneArray
