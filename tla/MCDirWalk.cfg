SPECIFICATION FairSpec
CONSTANTS
  Names = {"a", "b", "x"}
  Depth = 2
  Later = Later
  Trees <- MCTrees
  ArgLists <- MCArgLists
  FileNames = {"a", "b"}
  DirNames = {"a", "b"}
  ArgsIn <- MCArgsIn
  FdLimit = 6
  Faults = {"savedir", "lstat", "chdir", "fchdir", "opendir", "file", "utime", "unknown", "malloc", "dotdot"}
  MaxFaults = 1
  Now = Later
CHECK_DEADLOCK FALSE
INVARIANTS
  TypeOK
  InPlace
  SuccessMeansAllVisited
  NeverTooOften
  FailuresReach
  TimesKept
PROPERTIES
  Ends
