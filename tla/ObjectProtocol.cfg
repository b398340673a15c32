SPECIFICATION Spec
CONSTANTS
  Threads = {t1, t2}
  t1 = t1
  t2 = t2
  Connections = {c1, c2}
  c1 = c1
  c2 = c2
  Objects = {obj}
  obj = obj
  Requests <- MixedRequests
  max_operation_size = 2
  memory_chunk_size = 2
  MaxRequests = 2
  MayCrash = TRUE
  NULL = NULL
INVARIANTS
  RepliesFindTheirRequests
  StreamAligned
  ResultsAreTheServers
  ConfirmedInOrder
SYMMETRY Symmetry
CHECK_DEADLOCK FALSE
