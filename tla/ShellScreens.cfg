\* Every overlay over every other one, and edits, deletions, renames, probes and failed
\* saves, over lists of zero to two servers, with or without a session.
SPECIFICATION Spec
CONSTANTS
  a = a
  b = b
  e = e
  s1 = s1
  s2 = s2
  bad = bad
  NoName = NoName
  EnvName = e
  Names <- MCNames
  Settings = {s1, bad}
  BadSettings = {bad}
  StartStores <- EditStores
  UpdateEnabled = TRUE
  MaxAttempts = 1
  StartNotices = {0, 2}
  MaxNotices = 2
  MaxOps = 2
\* The program stops when the user quits.
CHECK_DEADLOCK FALSE
INVARIANT TypeOK
INVARIANT NoticesMoveOn
INVARIANT SpinnersBacked
INVARIANT ListConsistent
INVARIANT KeysFollowScreen
