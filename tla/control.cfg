SPECIFICATION Spec
CONSTANTS
  Clis = {c1}
  Pids = {p1, p2}
  Words <- MCWords
  Sockets = {"--unix a", "--unix b"}
  DefaultSocket = "--unix a"
  Typeable <- MCTypeable
  MaxArgs = 2
  None = None
  Platforms = {"linux", "macos", "windows"}
  Units = {None, "offsd", "offs-daemon"}
  WaitPolls = 1
  ProbePolls = 1
  MaxCommands = 2
CHECK_DEADLOCK FALSE
INVARIANTS
  AtMostOneDaemon
  RestartKeepsDaemon
PROPERTIES
  SuccessIsOwnChild
  CommandsReturn
