\* A grant and a revoke while the access of their role is read.
CONSTANTS
  Roles = {"alice", "postgres"}
  Me = "postgres"
  Databases = {"postgres"}
  AdminDB = "postgres"
  Objects = {}
  Kind <- MCKind
  Nowhere = "nowhere"
  Attributes = {}
  Powers = {}
  RoleOrder <- MCTwoRoles
  DatabaseOrder <- MCOneDatabase
  StartServers <- MCTwoServers
  Jobs <- MCReportJobs
  MaxCmds = 3
  MaxLists = 1
  MaxFaults = 0
  MaxOthers = 0
SPECIFICATION Spec
INVARIANT HeldIsReported
\* Commands end, and the bounds end the others.
CHECK_DEADLOCK FALSE
