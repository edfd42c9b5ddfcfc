\* A file the user may not read, where an import wants to write.
SPECIFICATION Spec
CONSTANTS
  a = a
  b = b
  Servers = {a, b}
  StartFiles <- ForeignEnv
\* The user need not start the program again.
CHECK_DEADLOCK FALSE
PROPERTY LockedStays
