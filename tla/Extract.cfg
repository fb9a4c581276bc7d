CONSTANTS
  d1 = d1
  d2 = d2
  m1 = m1
  m2 = m2
  Path <- MCPath
  Data = {d1, d2}
  Perm = {m1, m2}
  MaxTime = 0
  Trees <- MCTrees
  Follows <- MCFollows
  Ignored <- MCIgnored
  Mounted <- MCMounted
  MaxLayers = 2
  ImageFSExtractRetry = 1
SPECIFICATION Spec
INVARIANTS ImageIsOnDisk RemovedIsGone MountsAreKept OnlyDisorderFails
CHECK_DEADLOCK FALSE
