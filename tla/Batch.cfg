SPECIFICATION Spec
CONSTANTS
  t1 = t1
  t2 = t2
  Threads = {t1, t2}
  b1 = b1
  Batches = {b1}
  f1 = f1
  f2 = f2
  ExecFuncs = {f1, f2}
  k1 = k1
  k2 = k2
  Keys = {k1, k2}
  Consistencies = {"IMMEDIATE", "SESSION", "EVENTUAL"}
  MaxOps = 4
  NULL = NULL
INVARIANTS
  ExecutedAsAdded
  SessionEndsWithBatch
  NoUseAfterFree
SYMMETRY Symmetry
