\* Two forced drops, the second one of the successor of the first.
CONSTANTS
  Roles = {"alice", "bob", "postgres"}
  Me = "postgres"
  Databases = {"app", "postgres"}
  AdminDB = "postgres"
  Objects = {"data", "seq", "later"}
  Kind <- MCKind
  Nowhere = "nowhere"
  Attributes = {"SUPERUSER", "BYPASSRLS"}
  Powers = {"SUPERUSER", "BYPASSRLS"}
  RoleOrder <- MCRoleOrder
  DatabaseOrder <- MCDatabaseOrder
  StartServers <- MCStartServers
  Jobs <- MCDataJobs
  MaxCmds = 2
  MaxLists = 1
  MaxFaults = 0
  MaxOthers = 0
SPECIFICATION Spec
PROPERTY NoObjectLost
\* Commands end, and the bounds end the others.
CHECK_DEADLOCK FALSE
