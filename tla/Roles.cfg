\* The Roles tab: two commands at a time, somebody else at work, one statement that fails.
CONSTANTS
  Roles = {"alice", "bob", "postgres"}
  Me = "postgres"
  Databases = {"app", "postgres"}
  AdminDB = "postgres"
  Objects = {"data", "seq", "later"}
  Kind <- MCKind
  Nowhere = "nowhere"
  Attributes = {"SUPERUSER", "BYPASSRLS"}
  Powers = {"SUPERUSER", "BYPASSRLS"}
  RoleOrder <- MCRoleOrder
  DatabaseOrder <- MCDatabaseOrder
  StartServers <- MCStartServers
  Jobs <- MCJobs
  MaxCmds = 2
  MaxLists = 1
  MaxFaults = 1
  MaxOthers = 1
SPECIFICATION Spec
INVARIANTS TypeOK RevokedIsGone ReportIsWhole
PROPERTIES RunsAsConfirmed OwnedSurvives PasswordWorks
\* Commands end, and the bounds end the others.
CHECK_DEADLOCK FALSE
