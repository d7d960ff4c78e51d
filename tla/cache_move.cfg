SPECIFICATION Spec
CONSTANTS
  Dirs <- MCDirs
  Default <- MCDefault
  None = None
  FileDir = None
  Blocks <- MCBlocks
  Names = {"offsd", "offs-daemon"}
  Hosts = {"posix", "windows"}
INVARIANTS
  NoBlockLost
  MoveExcludesDaemon
PROPERTIES
  MovedDaemonRunsFromDest
  MoveReturns
