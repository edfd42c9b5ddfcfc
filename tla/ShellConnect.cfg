\* Three attempts over two servers and the environment's: supersede, cancel,
\* fail and switch in every order; no server is edited.
SPECIFICATION FairSpec
CONSTANTS
  a = a
  b = b
  e = e
  s1 = s1
  s2 = s2
  bad = bad
  NoName = NoName
  EnvName = e
  Names <- MCNames
  Settings = {s1, bad}
  BadSettings = {bad}
  StartStores <- ConnectStores
  UpdateEnabled = FALSE
  MaxAttempts = 3
  StartNotices = {0}
  MaxNotices = 1
  MaxOps = 0
\* The program stops when the user quits.
CHECK_DEADLOCK FALSE
INVARIANT NoForeignData
INVARIANT OneLiveManager
INVARIANT NeverStranded
PROPERTY SwitchOnlyWhenAsked
PROPERTY SlotSpec
PROPERTY AttemptSettles
PROPERTY ManagersReleased
