------------------------------ MODULE RolesTab ------------------------------
(***************************************************************************)
(* The Roles tab (ui/roles.go) with the commands it starts: the lists of   *)
(* statements of execStatements, ForceDropRole over every database, and    *)
(* RoleAccess.  A step is one message handled by the tab or one statement  *)
(* of a command.  What a modal asks about is part of the modal: the code's *)
(* pending fields are set when one opens and read before the next one      *)
(* does, except pendingPwdRole and newPassword, which outlive theirs.      *)
(***************************************************************************)
EXTENDS RoleServer

CONSTANTS
  RoleOrder, DatabaseOrder,   \* admin.go reads roles and databases by name
  StartServers,               \* servers a behaviour may begin with
  Jobs,                       \* bound: the operations one behaviour uses
  MaxCmds,                    \* bound: commands started
  MaxLists,                   \* bound: role lists read and not yet applied
  MaxFaults,                  \* bound: connections and statements that fail
  MaxOthers                   \* bound: changes by somebody else

ASSUME TabConstants ==
  /\ RoleOrder \in Seq(Roles) /\ DatabaseOrder \in Seq(Databases)
  /\ \A r \in Roles : \E k \in DOMAIN RoleOrder : RoleOrder[k] = r
  /\ \A d \in Databases : \E k \in DOMAIN DatabaseOrder : DatabaseOrder[k] = d
  /\ StartServers \subseteq Servers
  \* The role that is connected is there, and privileges are on what is there.
  /\ \A s \in StartServers : Me \in s.roles /\ \A p \in s.acl : s.at[p[1]] # Nowhere
  /\ {MaxCmds, MaxLists, MaxFaults, MaxOthers} \subseteq Nat

VARIABLES
  srv,                 \* the server
  roles, dbNames,      \* the lists as last loaded
  cursor,              \* row of the table, from 1
  asked, lists,        \* a load asked for, the lists that were read for one
  modal, alert,        \* what is open; the alert opens over anything
  pendingPwdRole, newPassword,
  cmds,                \* the commands, in the order they were started
  job, faults, others, \* bounds
  kept,                \* history: what a command's role has had since it began
  revoked,             \* history: schemas revoked from a role, not granted since
  mixed,               \* history: a reset that overlapped another change of a role
  unread               \* history: passwords that were set and not read yet

ui == <<roles, dbNames, cursor, modal, alert, pendingPwdRole, newPassword>>
loads == <<asked, lists>>
history == <<revoked, mixed, unread>>
bounds == <<job, faults, others>>
vars == <<srv, ui, loads, cmds, bounds, kept, history>>

Ids == 1 .. MaxCmds
Rows == [name : Roles, attrs : SUBSET Attributes]
NoRole == [name |-> Me, attrs |-> {}]
Closed == [kind |-> "none"]
NoAlert == [kind |-> "none", role |-> Me, pwd |-> 0, dbs |-> {}]
Unused == [pc |-> "unused", act |-> "none", role |-> Me]
Over == [Unused EXCEPT !.pc = "over"]

Active(c) == c.pc \notin {"unused", "over"}
ForcedDrop(c) == Active(c) /\ c.act = "force-drop"
Probe(c) == Active(c) /\ c.act = "access"
Ended(c) == c.pc \in {"answered", "failed"}
\* The commands that change a role or its password.
Changes == {"create role", "drop role", "reset password", "force-drop"}

\* What the access report looks at, in this order: the databases, then in each one
\* its schema and its tables.
DatabaseAccess(s, d, r) == s.owner[d] = r \/ \E w \in OnDatabase : <<d, r, w>> \in s.held
SchemaAccess(s, d, r) == <<d, r, "usage">> \in s.held
TableAccess(s, d, r) == \E o \in OfKind(s, d, "table") : <<o, r>> \in s.acl

Levels == {"database", "schema", "tables"}
HasAccess(s, d, r, level) ==
  \/ level \in {"database", "any"} /\ DatabaseAccess(s, d, r)
  \/ level \in {"schema", "any"} /\ SchemaAccess(s, d, r)
  \/ level \in {"tables", "any"} /\ TableAccess(s, d, r)
Granted(s, r) ==
  {g \in Databases \X (Levels \union {"any"}) : HasAccess(s, g[1], r, g[2])}

\* What a command must take care of: the objects of the doomed role, the access of
\* the probed one.
Concern(s, c) ==
  IF ForcedDrop(c) THEN {o \in Objects : s.of[o] = c.role /\ s.at[o] # Nowhere}
  ELSE IF Probe(c) THEN Granted(s, c.role) ELSE {}

ServerBecomes(s) ==
  /\ srv' = s
  /\ kept' = [i \in Ids |-> kept[i] \intersect Concern(s, cmds[i])]
SameServer == UNCHANGED <<srv, kept>>

----------------------------------------------------------------------------
(* Lists.                                                                  *)

ListRoles(s) ==
  LET Row(r) == [name |-> r, attrs |-> s.attrs[r]]
      names == Only(RoleOrder, s.roles)
  IN [k \in DOMAIN names |-> Row(names[k])]

HasRole(name) == \E k \in DOMAIN roles : roles[k].name = name
IsSelected == cursor \in DOMAIN roles
Selected == IF IsSelected THEN roles[cursor] ELSE NoRole

Fault == "faults" \in job /\ faults < MaxFaults /\ faults' = faults + 1

\* Loads that nobody read for yet are one.
ReadRoles ==
  /\ asked /\ Cardinality(lists) < MaxLists
  /\ asked' = FALSE
  /\ lists' = lists \union {ListRoles(srv)}
  /\ UNCHANGED <<ui, cmds, bounds, history>> /\ SameServer

LoadFails ==
  /\ asked /\ Fault
  /\ asked' = FALSE
  /\ UNCHANGED <<lists, ui, cmds, job, others, history>> /\ SameServer

\* As if the cursor stayed where it was.
KeptCursor(l, c) == {c}
\* A cursor below the new list goes to its end or to its top: the table moves
\* it first in some versions, and else the tab does.
CursorIn(l, c) == IF c \in DOMAIN l THEN {c} ELSE {1, Len(l)}
RolesMsg ==
  \E l \in lists :
    /\ roles' = l /\ lists' = lists \ {l}
    /\ cursor' \in CursorIn(l, cursor)
    /\ UNCHANGED <<asked, dbNames, modal, alert, pendingPwdRole, newPassword, cmds, bounds, history>>
    /\ SameServer

DatabasesMsg ==
  /\ dbNames = {} /\ dbNames' = Databases
  /\ UNCHANGED <<roles, cursor, modal, alert, pendingPwdRole, newPassword, loads, cmds, bounds, history>>
  /\ SameServer

----------------------------------------------------------------------------
(* Starting a command.                                                     *)

NextId == 1 + Cardinality({i \in Ids : cmds[i] # Unused})
Overlaps(c) ==
  /\ c.act \in Changes
  /\ \E j \in Ids : /\ Active(cmds[j]) /\ cmds[j].act \in Changes
                   /\ "reset password" \in {c.act, cmds[j].act}

Start(c) ==
  /\ NextId \in Ids
  /\ cmds' = [cmds EXCEPT ![NextId] = c]
  /\ kept' = [kept EXCEPT ![NextId] = Concern(srv, c)]
  /\ mixed' = (mixed \/ Overlaps(c))
  /\ UNCHANGED <<srv, loads, bounds, revoked, unread>>

Statements(act, r, on) ==
  [pc |-> "pool", act |-> act, role |-> r, target |-> on.target, todo |-> on.list, clears |-> {}]
ForceDrop(doomed, successor) ==
  [pc |-> "pool", act |-> "force-drop", role |-> doomed, to |-> successor, dbs |-> <<>>]
RoleAccess(r) == [pc |-> "pool", act |-> "access", role |-> r, dbs |-> <<>>, found |-> {}]

----------------------------------------------------------------------------
(* Keys.  The alert takes them first, then whichever modal is open.        *)

HasKeys(kind) == alert.kind = "none" /\ modal.kind = kind
ListKey(op) == HasKeys("none") /\ op \in job
\* A modal opens or closes and no command starts.
Show(m) ==
  /\ modal' = m
  /\ UNCHANGED <<roles, dbNames, cursor, alert, pendingPwdRole, newPassword, loads, cmds, bounds, history>>
  /\ SameServer
\* A modal closes and its command starts.
Submit(c) ==
  /\ modal' = Closed
  /\ Start(c)
  /\ UNCHANGED <<roles, dbNames, cursor, alert, pendingPwdRole, newPassword>>

Finders == {"find", "pick db"}
Cancel == alert.kind = "none" /\ modal # Closed /\ Show(Closed)

\* The finder is drawn over an alert that takes the keys.
CloseAlert ==
  /\ alert.kind # "none"
  /\ alert' = NoAlert
  /\ unread' = IF alert.kind = "password" /\ modal.kind \notin Finders
                THEN unread \ {<<alert.role, alert.pwd>>} ELSE unread
  /\ UNCHANGED <<roles, dbNames, cursor, modal, pendingPwdRole, newPassword, loads, cmds, bounds,
                 revoked, mixed>>
  /\ SameServer

MoveCursor ==
  /\ ListKey("move") /\ IsSelected
  /\ cursor' \in {cursor - 1, cursor + 1} \intersect DOMAIN roles
  /\ UNCHANGED <<roles, dbNames, modal, alert, pendingPwdRole, newPassword, loads, cmds, bounds, history>>
  /\ SameServer

Refresh ==
  /\ ListKey("refresh") /\ ~asked
  /\ asked' = TRUE
  /\ UNCHANGED <<ui, lists, cmds, bounds, history>> /\ SameServer

OpenFinder == ListKey("find") /\ roles # <<>> /\ Show([kind |-> "find", items |-> Len(roles)])

\* The finder answers with the place its item had in the list it was opened on.
PickRole ==
  /\ HasKeys("find")
  /\ \E k \in 1 .. modal.items : cursor' = IF k \in DOMAIN roles THEN k ELSE cursor
  /\ modal' = Closed
  /\ UNCHANGED <<roles, dbNames, alert, pendingPwdRole, newPassword, loads, cmds, bounds, history>>
  /\ SameServer

OpenRoleMenu ==
  /\ \E op \in {"reset", "limit", "attrs", "access"} : ListKey(op)
  /\ IsSelected /\ Show([kind |-> "menu", role |-> Selected.name])
\* The menu acts on the role selected by then.
MenuKey(op) == HasKeys("menu") /\ op \in job

OpenCreateForm == ListKey("create") /\ Show([kind |-> "create"])
CreateRoleYes ==
  /\ HasKeys("create")
  /\ \E name \in Roles, on \in SUBSET (Attributes \ Powers) :
       Submit(Statements("create role", name, On(AdminDB, <<CreateRole(name, on)>>)))

AskDropRole == ListKey("drop") /\ IsSelected /\ Show([kind |-> "drop", role |-> Selected.name])
\* As if yes went to the row under the cursor.
DropSelected(m) == Selected.name
\* The role a confirmation names.
Named(m) == m.role
DropRoleYes ==
  /\ HasKeys("drop")
  /\ Submit(Statements("drop role", Named(modal), On(AdminDB, <<DropRole(Named(modal))>>)))

AskResetPassword ==
  /\ MenuKey("reset") /\ IsSelected
  /\ modal' = [kind |-> "reset", role |-> Selected.name]
  /\ pendingPwdRole' = Selected.name
  /\ mixed' = (mixed \/ \E i \in Ids : Active(cmds[i]) /\ cmds[i].act = "reset password")
  /\ UNCHANGED <<roles, dbNames, cursor, alert, newPassword, loads, cmds, bounds, revoked, unread>>
  /\ SameServer
\* Each password is new: the number of its command.
ResetPasswordYes ==
  /\ HasKeys("reset")
  /\ modal' = Closed /\ newPassword' = NextId
  /\ Start(Statements("reset password", pendingPwdRole,
                      On(AdminDB, <<SetPassword(pendingPwdRole, NextId)>>)))
  /\ UNCHANGED <<roles, dbNames, cursor, alert, pendingPwdRole>>

OpenConnLimitForm ==
  MenuKey("limit") /\ IsSelected /\ Show([kind |-> "limit", role |-> Selected.name])
ConnLimitYes ==
  /\ HasKeys("limit")
  /\ Submit(Statements("set connection limit", modal.role, On(AdminDB, <<SetLimit(modal.role)>>)))

OpenAccess ==
  MenuKey("access") /\ IsSelected /\ Submit(RoleAccess(Selected.name))

OpenAttrsForm ==
  MenuKey("attrs") /\ IsSelected /\ Show([kind |-> "attrs", role |-> Selected.name])
\* What differs is decided against the list as it is by now.
AttrsYes ==
  /\ HasKeys("attrs")
  /\ \E want \in SUBSET Attributes :
       LET have == Selected.attrs
           list == BuildAlterRoleAttrs(modal.role, have, want)
       IN IF Selected.name # modal.role \/ list = <<>> THEN Show(Closed)
          ELSE IF Escalates(want, have)
               THEN Show([kind |-> "escalate", role |-> modal.role, list |-> list])
               ELSE Submit(Statements("alter role", modal.role, On(AdminDB, list)))
\* The name of the role has been typed.
EscalateYes ==
  /\ HasKeys("escalate")
  /\ Submit(Statements("alter role", modal.role, On(AdminDB, modal.list)))

StartGrantFlow ==
  \E op \in {"grant", "revoke"} :
    /\ ListKey(op) /\ IsSelected /\ dbNames # {}
    /\ Show([kind |-> "pick db", role |-> Selected.name, verb |-> op])
PickDB ==
  /\ HasKeys("pick db")
  /\ \E d \in dbNames :
       Show([kind |-> "scope", role |-> modal.role, verb |-> modal.verb, db |-> d])
OpenGrantConfirm ==
  /\ HasKeys("scope")
  /\ \E scope \in IF modal.verb = "revoke" THEN Scopes \ {"owner"} ELSE Scopes :
       Show([kind |-> "grant", role |-> modal.role, verb |-> modal.verb, db |-> modal.db,
             schema |-> scope = "schema",
             on |-> IF modal.verb = "revoke" THEN BuildRevoke(scope, modal.db, modal.role)
                    ELSE BuildGrant(scope, modal.db, modal.role)])
GrantYes ==
  /\ HasKeys("grant")
  /\ Submit([Statements("grant", modal.role, modal.on) EXCEPT
               !.clears = IF modal.verb = "revoke" /\ modal.schema
                          THEN {<<modal.db, modal.role>>} ELSE {}])

OpenForceDropForm ==
  ListKey("force-drop") /\ IsSelected /\ Show([kind |-> "force", role |-> Selected.name])
\* The name of the role has been typed; the successor must be in the list.
ForceDropYes ==
  /\ HasKeys("force")
  /\ \E successor \in {r \in Roles \ {modal.role} : HasRole(r)} :
       Submit(ForceDrop(modal.role, successor))

----------------------------------------------------------------------------
(* execStatements.                                                         *)

Becomes(i, c) == cmds' = [cmds EXCEPT ![i] = c]
CommandFrame == UNCHANGED <<ui, loads, job, others, mixed>>

\* Any command may find no connection, or run into its deadline; for all but a
\* forced drop one statement that fails comes to the same.
CommandFails(i) ==
  /\ Active(cmds[i]) /\ ~Ended(cmds[i]) /\ Fault
  /\ Becomes(i, [cmds[i] EXCEPT !.pc = "failed"])
  /\ CommandFrame /\ SameServer /\ UNCHANGED <<revoked, unread>>

HasStatements(i) == Active(cmds[i]) /\ ~ForcedDrop(cmds[i]) /\ ~Probe(cmds[i])

GetPool(i) ==
  /\ cmds[i].pc = "pool"
  /\ Becomes(i, [cmds[i] EXCEPT !.pc = IF HasStatements(i) THEN "run"
                                      ELSE IF Probe(cmds[i]) THEN "levels" ELSE "owned"])
  /\ CommandFrame /\ SameServer /\ UNCHANGED <<faults, revoked, unread>>

\* The schemas a statement gives something on again.
Gives(q, d) == IF q.op \in {"grant here", "grant all"} THEN {<<d, q.role>>} ELSE {}
StillClears(given) ==
  [j \in Ids |-> IF HasStatements(j) THEN [cmds[j] EXCEPT !.clears = @ \ given] ELSE cmds[j]]

\* The server takes the statement; it may have done so and the answer not come.
RunStatement(i) ==
  LET c == cmds[i]
      q == Head(c.todo)
      ends == Len(c.todo) = 1
      given == Gives(q, c.target)
  IN /\ HasStatements(i) /\ c.pc = "run" /\ Accepts(srv, q)
     /\ ServerBecomes(After(srv, q, c.target))
     /\ unread' = IF q.op = "password" THEN unread \union {<<q.role, q.pwd>>} ELSE unread
     /\ \/ /\ cmds' = [StillClears(given) EXCEPT
                         ![i].todo = Tail(@), ![i].pc = IF ends THEN "answered" ELSE @]
           /\ revoked' = (revoked \ given) \union (IF ends THEN c.clears ELSE {})
           /\ UNCHANGED faults
        \/ /\ cmds' = [StillClears(given) EXCEPT ![i].pc = "failed"]
           /\ revoked' = revoked \ given
           /\ Fault
     /\ CommandFrame

RefuseStatement(i) ==
  /\ HasStatements(i) /\ cmds[i].pc = "run" /\ ~Accepts(srv, Head(cmds[i].todo))
  /\ Becomes(i, [cmds[i] EXCEPT !.pc = "failed"])
  /\ CommandFrame /\ SameServer /\ UNCHANGED <<faults, revoked, unread>>

----------------------------------------------------------------------------
(* ForceDropRole.  What fails on one database is a warning.                *)

At(i, pc) == ForcedDrop(cmds[i]) /\ cmds[i].pc = pc
\* One step of the command with the statement it runs, which may be refused or
\* fail: then the command goes on as failed says.
Attempt(i, q, d, done, failed) ==
  /\ \/ /\ Accepts(srv, q) /\ ServerBecomes(After(srv, q, d)) /\ Becomes(i, done)
        /\ UNCHANGED faults
     \/ /\ ~Accepts(srv, q) /\ SameServer /\ Becomes(i, failed) /\ UNCHANGED faults
     \/ /\ Fault /\ SameServer /\ Becomes(i, failed)
  /\ CommandFrame /\ UNCHANGED <<revoked, unread>>
Learn(i, c) ==
  Becomes(i, c) /\ CommandFrame /\ SameServer /\ UNCHANGED <<faults, revoked, unread>>

NextOwned(c, list) == [c EXCEPT !.dbs = list, !.pc = IF list = <<>> THEN "dbs" ELSE "own"]
NextDatabase(c) == [c EXCEPT !.dbs = Tail(@), !.pc = "visit"]

DatabasesOwnedBy(i) ==
  /\ At(i, "owned")
  /\ LET mine == {d \in Databases : srv.owner[d] = cmds[i].role}
     IN Learn(i, NextOwned(cmds[i], Only(DatabaseOrder, mine)))
AlterOwner(i) ==
  /\ At(i, "own")
  /\ LET c == cmds[i]
         next == NextOwned(c, Tail(c.dbs))
     IN Attempt(i, OwnDatabase(Head(c.dbs), c.to), AdminDB, next, next)
ConnectableDatabases(i) ==
  At(i, "dbs") /\ Learn(i, [cmds[i] EXCEPT !.dbs = DatabaseOrder, !.pc = "visit"])
VisitDatabase(i) ==
  /\ At(i, "visit") /\ cmds[i].dbs # <<>>
  /\ \/ Learn(i, [cmds[i] EXCEPT !.pc = "reassign"])
     \/ /\ Fault /\ Becomes(i, NextDatabase(cmds[i]))
        /\ CommandFrame /\ SameServer /\ UNCHANGED <<revoked, unread>>
\* As if a REASSIGN that failed were a warning only.
DropAnyway(c) == [c EXCEPT !.pc = "drop owned"]
\* A database where REASSIGN failed is left.
NotReassigned(c) == NextDatabase(c)
\* As if REASSIGN went through the pool of the first steps.
InAdminDB(c) == AdminDB
\* REASSIGN runs in the database that is visited, as DROP OWNED does.
ReassignedIn(c) == Head(c.dbs)
ReassignOwned(i) ==
  /\ At(i, "reassign")
  /\ LET c == cmds[i]
     IN Attempt(i, Reassign(c.role, c.to), ReassignedIn(c),
                [c EXCEPT !.pc = "drop owned"], NotReassigned(c))
DropWhatIsOwned(i) ==
  /\ At(i, "drop owned")
  /\ LET c == cmds[i]
     IN Attempt(i, DropOwned(c.role), Head(c.dbs), NextDatabase(c), NextDatabase(c))
DropTheRole(i) ==
  /\ At(i, "visit") /\ cmds[i].dbs = <<>>
  /\ LET c == cmds[i]
     IN Attempt(i, DropRole(c.role), AdminDB, [c EXCEPT !.pc = "answered"],
                [c EXCEPT !.pc = "failed"])

----------------------------------------------------------------------------
(* RoleAccess.                                                             *)

ReadLevels(i) ==
  /\ Probe(cmds[i]) /\ cmds[i].pc = "levels"
  /\ LET r == cmds[i].role
     IN Learn(i, [cmds[i] EXCEPT
          !.pc = "schemas", !.dbs = DatabaseOrder,
          !.found = {d \in Databases : DatabaseAccess(srv, d, r)}])

\* As if the report went on with what was found in this database only.
FoundLast(c, more) == more
FoundToo(c, more) == c.found \union more
NextReport(c, more) ==
  [c EXCEPT !.found = FoundToo(c, more), !.dbs = Tail(@),
            !.pc = IF Len(c.dbs) = 1 THEN "answered" ELSE "schemas"]

\* A database that could not be read is reported as such.
Unreadable(i) ==
  /\ Fault /\ Becomes(i, NextReport(cmds[i], {Head(cmds[i].dbs)}))
  /\ CommandFrame /\ SameServer /\ UNCHANGED <<revoked, unread>>
ReadSchema(i) ==
  /\ Probe(cmds[i]) /\ cmds[i].pc = "schemas"
  /\ LET c == cmds[i]
         more == IF SchemaAccess(srv, Head(c.dbs), c.role) THEN {Head(c.dbs)} ELSE {}
     IN Unreadable(i) \/ Learn(i, [c EXCEPT !.found = FoundToo(c, more), !.pc = "tables"])
ReadTables(i) ==
  /\ Probe(cmds[i]) /\ cmds[i].pc = "tables"
  /\ LET c == cmds[i]
         more == IF TableAccess(srv, Head(c.dbs), c.role) THEN {Head(c.dbs)} ELSE {}
     IN Unreadable(i) \/ Learn(i, NextReport(c, more))

----------------------------------------------------------------------------
(* Answers.                                                                *)

Alert(kind, r, p, dbs) == [kind |-> kind, role |-> r, pwd |-> p, dbs |-> dbs]
Answer(i) ==
  /\ cmds' = [cmds EXCEPT ![i] = Over] /\ kept' = [kept EXCEPT ![i] = {}]
  /\ UNCHANGED <<srv, roles, dbNames, cursor, modal, pendingPwdRole, lists, bounds, history>>

\* As if any command's answer brought the new password up.
AnyAnswer(c) == TRUE
IsReset(c) == c.act = "reset password"

ExecMsg(i) ==
  /\ Ended(cmds[i]) /\ ~Probe(cmds[i]) /\ Answer(i)
  /\ IF cmds[i].pc = "failed"
     THEN alert' = Alert("error", cmds[i].role, 0, {}) /\ UNCHANGED <<newPassword, asked>>
     ELSE /\ asked' = TRUE
          /\ IF IsReset(cmds[i]) /\ newPassword # 0
             THEN alert' = Alert("password", pendingPwdRole, newPassword, {}) /\ newPassword' = 0
             ELSE UNCHANGED <<alert, newPassword>>

RoleAccessMsg(i) ==
  /\ Ended(cmds[i]) /\ Probe(cmds[i]) /\ Answer(i)
  /\ alert' = IF cmds[i].pc = "failed" THEN Alert("error", cmds[i].role, 0, {})
              ELSE Alert("access", cmds[i].role, 0, cmds[i].found)
  /\ UNCHANGED <<newPassword, asked>>

----------------------------------------------------------------------------
(* Others: another administrator, an application, the other tabs.          *)

SomebodyElse == others < MaxOthers /\ others' = others + 1
OtherFrame == UNCHANGED <<roles, dbNames, cursor, modal, pendingPwdRole, newPassword, lists,
                          cmds, job, faults, history>>

OtherAlters ==
  /\ "alters" \in job /\ SomebodyElse
  /\ \E r \in srv.roles \ {Me}, on \in SUBSET Attributes :
       on # srv.attrs[r] /\ ServerBecomes([srv EXCEPT !.attrs[r] = on])
  /\ OtherFrame /\ UNCHANGED <<alert, asked>>

OtherCreates ==
  /\ "creates" \in job /\ SomebodyElse
  /\ \E o \in ObjectsIn(srv, Nowhere), d \in Databases, r \in srv.roles :
       ServerBecomes(Created(srv, o, d, r))
  /\ OtherFrame /\ UNCHANGED <<alert, asked>>

\* The answer to a statement of another tab goes to every tab.
OtherExecMsg ==
  /\ "elsewhere" \in job /\ SomebodyElse
  /\ \/ alert' = Alert("error", Me, 0, {}) /\ UNCHANGED asked
     \/ asked' = TRUE /\ UNCHANGED alert
  /\ OtherFrame /\ SameServer

----------------------------------------------------------------------------

Init ==
  /\ srv \in StartServers /\ job \in Jobs
  /\ roles = <<>> /\ dbNames = {} /\ cursor = 1
  /\ asked = TRUE /\ lists = {}
  /\ modal = Closed /\ alert = NoAlert /\ pendingPwdRole = Me /\ newPassword = 0
  /\ cmds = [i \in Ids |-> Unused] /\ kept = [i \in Ids |-> {}]
  /\ faults = 0 /\ others = 0
  /\ revoked = {} /\ mixed = FALSE /\ unread = {}

OpensSomething ==
  \/ OpenFinder \/ OpenRoleMenu \/ OpenCreateForm \/ OpenConnLimitForm \/ OpenAttrsForm
  \/ AskDropRole \/ AskResetPassword \/ StartGrantFlow \/ PickDB \/ OpenGrantConfirm
  \/ OpenForceDropForm
StartsSomething ==
  \/ CreateRoleYes \/ DropRoleYes \/ ResetPasswordYes \/ ConnLimitYes \/ AttrsYes
  \/ EscalateYes \/ GrantYes \/ ForceDropYes \/ OpenAccess
ExecStep(i) == GetPool(i) \/ RunStatement(i) \/ RefuseStatement(i) \/ CommandFails(i)
ForceDropStep(i) ==
  \/ DatabasesOwnedBy(i) \/ AlterOwner(i) \/ ConnectableDatabases(i) \/ VisitDatabase(i)
  \/ ReassignOwned(i) \/ DropWhatIsOwned(i) \/ DropTheRole(i)
CommandStep(i) ==
  \/ ExecStep(i) \/ ForceDropStep(i) \/ ReadLevels(i) \/ ReadSchema(i) \/ ReadTables(i)
  \/ ExecMsg(i) \/ RoleAccessMsg(i)

Next ==
  \/ ReadRoles \/ LoadFails \/ RolesMsg \/ DatabasesMsg
  \/ Cancel \/ CloseAlert \/ MoveCursor \/ Refresh \/ PickRole
  \/ OpensSomething \/ StartsSomething
  \/ \E i \in Ids : CommandStep(i)
  \/ OtherAlters \/ OtherCreates \/ OtherExecMsg

Spec == Init /\ [][Next]_vars

----------------------------------------------------------------------------
(* Properties.                                                             *)

\* Where a command can be: before and after it, waiting for its pool, in one of its
\* statements, with its answer.
Stages ==
  {"unused", "over", "pool", "run", "owned", "own", "dbs", "visit", "reassign", "drop owned",
   "levels", "schemas", "tables", "answered", "failed"}

\* The state has its type; a modal names a role unless it is about none, and the
\* cursor is on a row whenever there is one (tbl, roles, the pending fields).
TypeOK ==
  /\ srv \in Servers
  /\ \A k \in DOMAIN roles : roles[k] \in Rows
  /\ cursor = 1 \/ cursor \in DOMAIN roles
  /\ "role" \in DOMAIN modal => modal.role \in Roles
  /\ alert.role \in Roles /\ alert.pwd \in 0 .. MaxCmds /\ alert.dbs \subseteq Databases
  /\ pendingPwdRole \in Roles /\ newPassword \in 0 .. MaxCmds
  /\ \A i \in Ids : cmds[i].role \in Roles /\ cmds[i].pc \in Stages

\* What starts on a yes is what the open modal names, whatever the table under it
\* has become since, and a statement that turns SUPERUSER or BYPASSRLS on comes from
\* a modal where the role's name was typed (pendingDropRole and its like, the check
\* of formAlterAttrs, Escalates, confirmEscalate).
Powerful(c) == \E k \in DOMAIN c.todo :
  c.todo[k].op \in {"alter role", "create role"} /\ c.todo[k].on \intersect Powers # {}
RunsAsConfirmed ==
  [][\A i \in Ids : cmds[i] = Unused /\ cmds'[i] # Unused =>
       /\ "role" \in DOMAIN modal /\ modal.kind # "menu" => cmds'[i].role = modal.role
       /\ "todo" \in DOMAIN cmds'[i] /\ Powerful(cmds'[i]) => modal.kind = "escalate"]_vars

\* Once a revoke on a schema was reported done the role has nothing there: not on
\* a table made while it ran, and by no default on one made later (BuildRevoke).
RevokedIsGone ==
  \A p \in revoked :
    /\ \A o \in ObjectsIn(srv, p[1]) : <<o, p[2]>> \notin srv.acl
    /\ \A w \in {"usage", "table", "sequence"} : <<p[1], p[2], w>> \notin srv.held

\* A forced drop does not drop an object that its role owned from the start of the
\* command on, whichever statements fail and whoever else is at work.
OwnedSurvives ==
  [][\A i \in Ids : ForcedDrop(cmds[i]) /\ cmds'[i] # cmds[i]
       => \A o \in kept[i] : srv'.at[o] # Nowhere]_vars

\* The report of a role's access leaves no database out where the role had access on
\* one level, the database, its schema or its tables, from the question to the answer:
\* a database that cannot be read counts as one (RoleAccess).
ReportIsWhole ==
  \A i \in Ids : Probe(cmds[i]) /\ cmds[i].pc = "answered" =>
    \A g \in kept[i] : g[2] \in Levels => g[1] \in cmds[i].found

\* "Databases where the role has nothing explicit are omitted" (RoleAccess), and no
\* others: wherever the role had some access all the time, the report says so.
HeldIsReported ==
  \A i \in Ids : Probe(cmds[i]) /\ cmds[i].pc = "answered" =>
    \A g \in kept[i] : g[1] \in cmds[i].found

\* The password on screen is the one the server has for the role it is shown for,
\* if no other change of a role's password or existence overlapped the reset
\* (execMsg, showNewPassword).
PasswordWorks ==
  [][alert'.kind = "password" /\ alert' # alert /\ ~mixed
       => srv.pwd[alert'.role] = alert'.pwd]_vars

\* A password that a reset set is on its way to the screen or on it until it is
\* read, also when no other change overlapped the reset: "the new one is shown once"
\* (askResetPassword).
PasswordReachesUser ==
  ~mixed => \A p \in unread :
    \/ <<alert.kind, alert.role, alert.pwd>> = <<"password", p[1], p[2]>>
    \/ \E i \in Ids : Active(cmds[i]) /\ cmds[i].act = "reset password" /\ cmds[i].role = p[1]

\* Nothing is dropped with its owner: "WITHOUT dropping data" (ForceDropRole).
NoObjectLost ==
  [][\A o \in Objects : srv.at[o] # Nowhere => srv'.at[o] # Nowhere]_vars
=============================================================================
