CONSTANTS
  Key <- MCKey
  Value <- MCValue
  Empty = ""
  Builtin = {"P"}
  LabelName = {"x", "y"}
  Options <- MCOptions
  MetaArgs <- MCMetaArgs
  OptLabels <- MCOptLabels
  Images <- MCImages
  Froms <- MCFroms
  Lists <- MCLists
  ShellLen <- MCShellLen
  ScratchEnv <- MCScratchEnv
  Signals <- MCSignals
  MaxStages = 2
  Unset = Unset
  Nil = Nil
SPECIFICATION Spec
INVARIANTS SeenIsMeant MetadataIsMeant CommandsAreMeant
CHECK_DEADLOCK FALSE
