\* Every install an earlier version may have left, starts cut short at any step.
SPECIFICATION Spec
CONSTANTS
  a = a
  b = b
  Servers = {a, b}
  StartFiles <- MCFiles
\* The user need not start the program again.
CHECK_DEADLOCK FALSE
INVARIANT TypeOK
INVARIANT NothingLost
INVARIANT ShownIsSaved
INVARIANT NamesRun
PROPERTY SameServers
PROPERTY SecondRunQuiet
