\* Texts of which the lexical rules do not see what they do.
CONSTANTS
  Databases = {"app", "postgres"}
  AdminDB = "postgres"
  None = "none"
  Tables = {"orders", "users"}
  TablesIn <- MCTablesIn
  Pids = {101, 102}
  Gucs = {"max_connections", "server_version", "work_mem"}
  GucOrder <- MCGucOrder
  Internal = {"server_version"}
  Restarts = {"max_connections"}
  Values = {"default", "high", "wrong unit"}
  Default = "default"
  Typed <- MCTyped
  Taken <- MCTaken
  Sql <- MCHiddenSql
  Jobs <- MCHiddenJobs
  MaxCmds = 2
  MaxFaults = 0
  MaxOthers = 0
  MaxLoads = 2
SPECIFICATION Spec
PROPERTIES ConfirmedWrites
\* Commands end, and the bounds end the others.
CHECK_DEADLOCK FALSE
