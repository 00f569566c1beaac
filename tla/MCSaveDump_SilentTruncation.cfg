CONSTANTS
  Configs <- StopOnly
  Dirs <- MCDirs
  Part <- MCPart
SPECIFICATION Spec
INVARIANT ReportedDumpIsWhole
