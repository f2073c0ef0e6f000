SPECIFICATION Spec
CONSTANTS
  Names = {"a", "b", "x"}
  Depth = 2
  Later = Later
  Trees <- MCTrees
  ArgLists <- MCDotOnly
  FileNames = {"a", "b"}
  DirNames = {"a", "b"}
  ArgsIn <- MCArgsIn
  FdLimit = 3
  Faults = {}
  MaxFaults = 0
  Now = Later
CHECK_DEADLOCK FALSE
INVARIANT AllVisited
