CONSTANTS
  b1 = b1
  b2 = b2
  base1 = base1
  m1 = m1
  m2 = m2
  f1 = f1
  f2 = f2
  t1 = t1
  t2 = t2
  t3 = t3
  t4 = t4
  t5 = t5
  t6 = t6
  t7 = t7
  t8 = t8
  arg1 = arg1
  arg2 = arg2
  None = None
  Path <- MCPath
  Data = {}
  Perm = {m1, m2}
  MaxTime = 0
  SnapshotModes = {"full"}
  Builder = {b1, b2}
  Job <- MCJobs
  BaseTree <- MCBaseTree
SPECIFICATION Spec
INVARIANTS CachedLayersAreRight KeysAgree LayersHoldOnlyChanges CacheIsFilled
PROPERTIES ImageIsMeant BuildsEnd
CHECK_DEADLOCK FALSE
