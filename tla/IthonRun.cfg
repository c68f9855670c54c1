SPECIFICATION FairSpec
CONSTANTS
  a = a
  b = b
  lib = lib
  home = home
  NULL = NULL
  Modules = {a, b}
  Dirs = {lib, home}
  SearchPath <- MCSearchPath
  ProgramDir = home
  Files <- MCFiles
  Sources <- MCSources
  Commands = {"none", "option", "py", "-c", "pi"}
  Receipts = {TRUE, FALSE}
  MaxEdits = 1
INVARIANTS CheckedBeforeRun ReceiptsHonest IthonFirst LoadsMatchModules
PROPERTIES RunEnds
CHECK_DEADLOCK FALSE
