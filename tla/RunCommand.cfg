CONSTANTS
  Name <- MCName
  Shell = "sh"
  Priority <- MCPriority
  Alias <- MCAlias
  Assignment = {"A=1"}
  Prefix = {"env", "exec"}
  Builtin = {"cd"}
  Script <- MCScripts
  User = {"", "root", "www-data", "app", "1000"}
  Number <- MCNumber
  HostPasswd <- MCHostPasswd
  BasePasswd <- MCBasePasswd
  HomeIsSet = {FALSE}
  KernelFS = {"proc", "dev"}
  BaseNames <- MCBase
  None = None
  MaxRuns = 2
  MaxStarts = 2
SPECIFICATION Spec
INVARIANTS ProotIsWhole SelfExeServesToolchain RunsAsUser
PROPERTY QuietAfterRun
CHECK_DEADLOCK FALSE
