CONSTANTS
  Path <- MCPath
  Data <- MCData
  Perm <- MCPerm
  MaxTime = 0
  Walk <- MCWalk
  ContextRoot <- MCContextRoot
  StageRoot <- MCStageRoot
  Ignored <- MCIgnored
  Bases <- MCBases
  Contexts <- RenamedContexts
  Commands <- MCCommands
  Passwd <- MCPasswd
  PasswdFile <- MCPasswdFile
  Archives <- MCArchives
  Remote <- MCRemote
  MaxBuilds = 3
  None = None
SPECIFICATION Spec
INVARIANT CopiedIsInImage
CHECK_DEADLOCK FALSE
