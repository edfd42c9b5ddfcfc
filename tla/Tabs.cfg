\* The other tabs of a session, two answers under way at a time.
CONSTANTS
  Databases = {"app", "postgres"}
  AdminDB = "postgres"
  None = "none"
  Tables = {"orders", "users"}
  TablesIn <- MCTablesIn
  Pids = {101, 102}
  Gucs = {"max_connections", "server_version", "work_mem"}
  GucOrder <- MCGucOrder
  Internal = {"server_version"}
  Restarts = {"max_connections"}
  Values = {"default", "high", "wrong unit"}
  Default = "default"
  Typed <- MCTyped
  Taken <- MCTaken
  Sql <- MCSql
  Jobs <- MCJobs
  MaxCmds = 2
  MaxFaults = 1
  MaxOthers = 1
  MaxLoads = 2
SPECIFICATION Spec
INVARIANTS TypeOK ShownIsAskedFor WorkIsTold
PROPERTIES ConfirmedWrites ActsOnWhatIsNamed
\* Commands end, and the bounds end the others.
CHECK_DEADLOCK FALSE
