CONSTANTS
  Path <- MCPath
  Data <- MCData
  Perm <- MCPerm
  MaxTime = 0
  Walk <- MCWalk
  ContextRoot <- MCContextRoot
  StageRoot <- MCStageRoot
  Ignored <- MCIgnored
  Bases <- MCBases
  Contexts <- MCContexts
  Commands <- MCCommands
  Passwd <- MCPasswd
  PasswdFile <- MCPasswdFile
  Archives <- MCArchives
  Remote <- MCRemote
  MaxBuilds = 3
  None = None
SPECIFICATION Spec
INVARIANTS LayerIsComplete RestIsKept LayerHoldsOnlyCopies CopiedIsInImage
CHECK_DEADLOCK FALSE
