CONSTANTS
  None = None
  ToLower <- MCToLower
  ImageFS <- MCImageFS
  Build <- MCBuilds
SPECIFICATION Spec
INVARIANTS TargetIsMeant NothingIsMissing KeysTellBasesApart
CHECK_DEADLOCK FALSE
