SPECIFICATION FairSpec
CONSTANTS
  ShortOptions <- short_options
  LongOptions <- long_options
  BackupTypes <- backup_args
  ArgLists <- MCArgLists
  Environments <- MCEnvironments
  EntryNames <- MCEntryNames
  Wild <- MCWild
  Fnmatch <- MCFnmatch
  Faults = {"malloc"}
  MaxMixed = 3
  MaxLong = 5
  MaxFilters = 3
CHECK_DEADLOCK FALSE
INVARIANTS
  TypeOK
  ScansInOrder
  OutcomeRight
  NamesQualify
PROPERTIES
  Decides
