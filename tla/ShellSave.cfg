\* A failed save from the form.
SPECIFICATION Spec
CONSTANTS
  a = a
  b = b
  e = e
  s1 = s1
  s2 = s2
  bad = bad
  NoName = NoName
  EnvName = e
  Names <- MCNames
  Settings = {s1, bad}
  BadSettings = {bad}
  StartStores <- EditStores
  UpdateEnabled = FALSE
  MaxAttempts = 1
  StartNotices = {0}
  MaxNotices = 1
  MaxOps = 1
\* The program stops when the user quits.
CHECK_DEADLOCK FALSE
INVARIANT SavedOrTold
