CONSTANTS
    c1 = c1  c2 = c2
    NULL = NULL
    Clients = {c1, c2}
    server_count = 2
    stripe_size = 1
    kv_server_count = 2
    Home <- MCHome
    Names <- MCNames
    Scenarios <- MCScenarios
SPECIFICATION Spec
INVARIANT EntryHasObject
INVARIANT ItemsAreFiles
INVARIANT CollectionRefsExact
CHECK_DEADLOCK FALSE
