\* A reset and an access report that answers after it.
CONSTANTS
  Roles = {"alice", "bob", "postgres"}
  Me = "postgres"
  Databases = {"app", "postgres"}
  AdminDB = "postgres"
  Objects = {"data", "seq", "later"}
  Kind <- MCKind
  Nowhere = "nowhere"
  Attributes = {"SUPERUSER", "BYPASSRLS"}
  Powers = {"SUPERUSER", "BYPASSRLS"}
  RoleOrder <- MCRoleOrder
  DatabaseOrder <- MCDatabaseOrder
  StartServers <- MCStartServers
  Jobs <- MCPasswordJobs
  MaxCmds = 2
  MaxLists = 1
  MaxFaults = 0
  MaxOthers = 1
SPECIFICATION Spec
INVARIANT PasswordReachesUser
\* Commands end, and the bounds end the others.
CHECK_DEADLOCK FALSE
