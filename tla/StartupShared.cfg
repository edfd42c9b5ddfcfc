\* A file of the administrator, in the old format.
SPECIFICATION Spec
CONSTANTS
  a = a
  b = b
  Servers = {a, b}
  StartFiles <- SharedUpgrade
\* The user need not start the program again.
CHECK_DEADLOCK FALSE
PROPERTY SharedStays
