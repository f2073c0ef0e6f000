SPECIFICATION FairSpec
CONSTANTS
  Bases = {"f"}
  MinLines = 0
  MaxLines = 2
  MCBackups = {"off", "none", "simple", "numbered", "existing"}
  Flags = {TRUE, FALSE}
  Radix = 2
  MaxDigits = 2
  Entries <- MCEntries
  Again = FALSE
  Lines <- MCLines
  Matching <- MCMatching
  NulLines <- MCNulLines
  Subst <- MCSubst
  Files <- MCFiles
  Contents <- MCContents
  OptionSets <- MCOptions
  SimpleSuffix <- MCSuffix
  Faults = {"open", "read", "regex", "listdir", "backup", "realloc", "tmpfull", "reopen", "write", "tempread", "flush"}
  MaxFaults = 1
  MaxCalls = 2
  MaxRuns = 1
  MaxVersion = 2
  MaxDepth = 0
CHECK_DEADLOCK FALSE
INVARIANTS
  TypeOK
  TornHasBackup
  ExitReportsError
  NoStreamLeft
PROPERTIES
  SuccessMeansReplaced
  BinaryUntouched
  ImplementsSafeRewrite
  EveryRunEnds
