SPECIFICATION FairSpec
CONSTANTS
  t1 = t1
  t2 = t2
  o1 = o1
  o2 = o2
  o3 = o3
  o4 = o4
  o5 = o5
  o6 = o6
  w1 = w1
  w2 = w2
  Threads = {t1, t2}
  Workers = {w1, w2}
  Ops = {o1, o2, o3, o4, o5, o6}
  Calls <- FullCalls
  Parts <- FullParts
  MayFini = FALSE
  NULL = NULL
PROPERTIES
  EveryWaitReturns
CHECK_DEADLOCK FALSE
