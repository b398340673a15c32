SPECIFICATION FairSpec
CONSTANTS
  Threads = {t1, t2}
  t1 = t1
  t2 = t2
  Connections = {c1}
  c1 = c1
  Objects = {obj}
  obj = obj
  Requests <- LargeRequests
  max_operation_size = 3
  memory_chunk_size = 2
  MaxRequests = 2
  MayCrash = FALSE
  NULL = NULL
PROPERTIES
  EveryExecReturns
CHECK_DEADLOCK FALSE
