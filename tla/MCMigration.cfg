SPECIFICATION FairSpec
CONSTANTS
  p1 = p1
  p2 = p2
  Proc <- MCProc
  N = 2
  MaxStarts = 3
INVARIANTS LockIsTrue ChangelogIsTrue PrefixIsReplaced
PROPERTIES MigrateReturns
CHECK_DEADLOCK FALSE
