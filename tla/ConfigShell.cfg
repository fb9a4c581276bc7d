CONSTANTS
  Key <- MCKey
  Value <- MCValue
  Empty = ""
  Builtin = {"P"}
  LabelName = {"x", "y"}
  Options <- MCOptions
  MetaArgs <- MCMetaArgs
  OptLabels <- MCOptLabels
  Images <- MCImages
  Froms <- MCFroms
  Lists <- MCLists
  ShellLen <- RoomyShellLen
  ScratchEnv <- MCScratchEnv
  Signals <- MCSignals
  MaxStages = 2
  Unset = Unset
  Nil = Nil
SPECIFICATION Spec
INVARIANTS CommandsAreMeant
CHECK_DEADLOCK FALSE
