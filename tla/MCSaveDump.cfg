CONSTANTS
  Configs <- AllConfigs
  Dirs <- MCDirs
  Part <- MCPart
SPECIFICATION Spec
INVARIANTS
  ExitStatusTellsErrors
  SuccessMeansDump
  ReadmeDescribesDump
PROPERTIES
  CopiedMailIsTrue
