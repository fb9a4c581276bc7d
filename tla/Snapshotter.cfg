CONSTANTS
  d1 = d1
  d2 = d2
  m1 = m1
  m2 = m2
  Path <- MCPath
  Data = {d1, d2}
  Perm = {m1, m2}
  MaxTime = 3
  SnapshotModes = {"full", "redo"}
  BaseTrees <- MCBaseTrees
  Ignored <- MCIgnored
  BadLinks = FALSE
  Daemon = TRUE
SPECIFICATION Spec
INVARIANTS ImageReproducesFS LostFilesComeBack MapNeverVouchesWrongly FailsOnlyOnRace
CHECK_DEADLOCK FALSE
