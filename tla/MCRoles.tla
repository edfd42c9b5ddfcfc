------------------------------ MODULE MCRoles ------------------------------
(* Two roles next to the administrator, two databases, two tables.          *)
EXTENDS RolesTab

MCRoleOrder == <<"alice", "bob", "postgres">>
MCDatabaseOrder == <<"app", "postgres">>
MCKind == [o \in Objects |-> IF o = "seq" THEN "sequence" ELSE "table"]

Empty ==
  [roles |-> Roles, attrs |-> [r \in Roles |-> IF r = Me THEN Attributes ELSE {}],
   pwd |-> [r \in Roles |-> 0], owner |-> [d \in Databases |-> Me],
   at |-> [o \in Objects |-> Nowhere], of |-> [o \in Objects |-> Me], acl |-> {}, held |-> {}]
MCOneDatabase == <<"postgres">>
\* Bob owns the database, alice and the administrator a table each.
InUse ==
  [Empty EXCEPT !.owner["app"] = "bob",
                !.at = [o \in Objects |-> IF o = "later" THEN Nowhere ELSE "app"],
                !.of = [o \in Objects |-> IF o = "data" THEN "bob" ELSE Me]]
\* Alice has the whole schema.
Given ==
  [InUse EXCEPT !.acl = {<<"seq", "alice">>, <<"data", "alice">>},
                !.held = {"app"} \X {"alice"} \X {"usage", "table", "sequence"}]
MCStartServers == {InUse, Given}

MCJobs ==
  {{"reset", "access", "limit", "faults"}, {"reset", "limit", "elsewhere"},
   {"attrs", "alters"}, {"attrs", "drop", "faults"},
   {"drop", "create", "find"}, {"drop", "move", "refresh"},
   {"grant", "access", "faults"}, {"revoke", "creates", "faults"}, {"revoke", "grant"},
   {"force-drop", "creates", "faults"}, {"force-drop", "create", "faults"}}
MCPasswordJobs == {{"reset", "access"}}
MCReportJobs == {{"grant", "revoke", "access"}}
MCTwoRoles == <<"alice", "postgres">>
\* Alice may use the schema.
MCTwoServers == {[Empty EXCEPT !.held = {<<"postgres", "alice", "usage">>}]}
MCDataJobs == {{"force-drop", "move"}}
=============================================================================
