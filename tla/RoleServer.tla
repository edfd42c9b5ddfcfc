----------------------------- MODULE RoleServer -----------------------------
(***************************************************************************)
(* Roles, what they own and what they were granted, as a server keeps      *)
(* them, and the lists of statements that db/admin.go builds.  Tables and  *)
(* sequences of the public schemas are objects.  Which privileges a preset *)
(* grants is left out: REVOKE ALL takes every one of them, so one preset   *)
(* stands for the three on a schema.                                       *)
(***************************************************************************)
EXTENDS Naturals, Sequences, FiniteSets, Lists

CONSTANTS
  Roles, Me,              \* names of roles; the role pgtower is connected as
  Databases, AdminDB,
  Objects, Kind,          \* tables and sequences; which of the two each is
  Nowhere,                \* where an object is that does not exist
  Attributes, Powers      \* LOGIN and the like; SUPERUSER and BYPASSRLS

Kinds == {"table", "sequence"}

ASSUME ServerConstants ==
  /\ Me \in Roles /\ AdminDB \in Databases /\ Nowhere \notin Databases
  /\ Kind \in [Objects -> Kinds]
  /\ Powers \subseteq Attributes

\* What a role may hold on a database, on its schema and, as a default, on what
\* is created in it later.
Holdings == {"connect", "create", "usage", "table", "sequence"}
OnDatabase == {"connect", "create"}

Servers ==
  [roles : SUBSET Roles, attrs : [Roles -> SUBSET Attributes], pwd : [Roles -> Nat],
   owner : [Databases -> Roles], at : [Objects -> Databases \union {Nowhere}],
   of : [Objects -> Roles], acl : SUBSET (Objects \X Roles),
   held : SUBSET (Databases \X Roles \X Holdings)]

----------------------------------------------------------------------------
(* Statements.  A statement on a schema is about the one of the database it *)
(* runs in; the others name what they are about.                           *)

CreateRole(r, on) == [op |-> "create role", role |-> r, on |-> on]
DropRole(r) == [op |-> "drop role", role |-> r]
AlterRole(r, on, off) == [op |-> "alter role", role |-> r, on |-> on, off |-> off]
SetPassword(r, p) == [op |-> "password", role |-> r, pwd |-> p]
SetLimit(r) == [op |-> "limit", role |-> r]
Grant(d, r, w) == [op |-> "grant", db |-> d, role |-> r, what |-> w]
Revoke(d, r, w) == [op |-> "revoke", db |-> d, role |-> r, what |-> w]
GrantUsage(r) == [op |-> "grant here", role |-> r, what |-> "usage"]
RevokeUsage(r) == [op |-> "revoke here", role |-> r, what |-> "usage"]
GrantLater(r, k) == [op |-> "grant here", role |-> r, what |-> k]
RevokeLater(r, k) == [op |-> "revoke here", role |-> r, what |-> k]
GrantAll(r, k) == [op |-> "grant all", role |-> r, kind |-> k]
RevokeAll(r, k) == [op |-> "revoke all", role |-> r, kind |-> k]
OwnDatabase(d, r) == [op |-> "own", db |-> d, role |-> r]
Reassign(r, to) == [op |-> "reassign", role |-> r, to |-> to]
DropOwned(r) == [op |-> "drop owned", role |-> r]

ObjectsIn(s, d) == {o \in Objects : s.at[o] = d}
Owned(s, r, d) == {o \in ObjectsIn(s, d) : s.of[o] = r}
OfKind(s, d, k) == {o \in ObjectsIn(s, d) : Kind[o] = k}

\* What keeps a role from being dropped.
Dependents(s, r) ==
  {d \in Databases : s.owner[d] = r \/ Owned(s, r, d) # {}}
    \union {h[1] : h \in {g \in s.held : g[2] = r}}
    \union {s.at[p[1]] : p \in {q \in s.acl : q[2] = r}}

\* Whether the server takes the statement.
Accepts(s, q) ==
  /\ IF q.op = "create role" THEN q.role \notin s.roles ELSE q.role \in s.roles
  /\ q.op = "reassign" => q.to \in s.roles
  /\ q.op = "drop role" => q.role # Me /\ Dependents(s, q.role) = {}

\* REASSIGN OWNED moves what is in the database, and the databases themselves.
Reassigned(s, r, to, d) ==
  [s EXCEPT !.of = [o \in Objects |-> IF o \in Owned(s, r, d) THEN to ELSE s.of[o]],
            !.owner = [e \in Databases |-> IF s.owner[e] = r THEN to ELSE s.owner[e]]]

\* DROP OWNED drops what is left in the database and takes back what was granted
\* in it or on any database.
WithoutOwned(s, r, d) ==
  [s EXCEPT
     !.at = [o \in Objects |-> IF o \in Owned(s, r, d) THEN Nowhere ELSE s.at[o]],
     !.acl = {p \in s.acl : p[1] \notin Owned(s, r, d) /\ (p[2] = r => s.at[p[1]] # d)},
     !.held = {h \in s.held : h[2] = r => h[1] # d /\ h[3] \notin OnDatabase}]

\* The server after a statement that ran in database d; a connection limit changes
\* nothing that is kept here.
After(s, q, d) ==
  CASE q.op = "create role" ->
         [s EXCEPT !.roles = @ \union {q.role}, !.attrs[q.role] = q.on, !.pwd[q.role] = 0]
    [] q.op = "drop role" -> [s EXCEPT !.roles = @ \ {q.role}]
    [] q.op = "alter role" -> [s EXCEPT !.attrs[q.role] = (@ \union q.on) \ q.off]
    [] q.op = "password" -> [s EXCEPT !.pwd[q.role] = q.pwd]
    [] q.op = "grant" -> [s EXCEPT !.held = @ \union ({q.db} \X {q.role} \X q.what)]
    [] q.op = "revoke" -> [s EXCEPT !.held = @ \ ({q.db} \X {q.role} \X q.what)]
    [] q.op = "grant here" -> [s EXCEPT !.held = @ \union {<<d, q.role, q.what>>}]
    [] q.op = "revoke here" -> [s EXCEPT !.held = @ \ {<<d, q.role, q.what>>}]
    [] q.op = "grant all" -> [s EXCEPT !.acl = @ \union (OfKind(s, d, q.kind) \X {q.role})]
    [] q.op = "revoke all" -> [s EXCEPT !.acl = @ \ (OfKind(s, d, q.kind) \X {q.role})]
    [] q.op = "own" -> [s EXCEPT !.owner[q.db] = q.role]
    [] q.op = "reassign" -> Reassigned(s, q.role, q.to, d)
    [] q.op = "drop owned" -> WithoutOwned(s, q.role, d)
    [] OTHER -> s

\* An object that somebody creates, with the default privileges for what
\* pgtower's own role creates.
Created(s, o, d, r) ==
  [s EXCEPT !.at[o] = d, !.of[o] = r,
            !.acl = @ \union {<<o, e>> : e \in {g \in Roles : r = Me /\ <<d, g, Kind[o]>> \in s.held}}]

----------------------------------------------------------------------------
(* The lists of admin.go, with the database they run in.                   *)

Scopes == {"connect", "database", "owner", "schema"}
On(d, list) == [target |-> d, list |-> list]

BuildGrant(scope, d, r) ==
  CASE scope = "connect" -> On(AdminDB, <<Grant(d, r, {"connect"})>>)
    [] scope = "database" -> On(AdminDB, <<Grant(d, r, OnDatabase)>>)
    [] scope = "owner" -> On(AdminDB, <<OwnDatabase(d, r)>>)
    [] scope = "schema" ->
         On(d, <<GrantUsage(r), GrantAll(r, "table"), GrantAll(r, "sequence"),
                 GrantLater(r, "table"), GrantLater(r, "sequence")>>)

\* As if the objects came first and the defaults after them.
RevokeObjectsFirst(scope, d, r) ==
  CASE scope = "connect" -> On(AdminDB, <<Revoke(d, r, {"connect"})>>)
    [] scope = "database" -> On(AdminDB, <<Revoke(d, r, OnDatabase)>>)
    [] scope = "owner" -> On(AdminDB, <<>>)
    [] scope = "schema" ->
         On(d, <<RevokeAll(r, "table"), RevokeAll(r, "sequence"),
                 RevokeLater(r, "table"), RevokeLater(r, "sequence"), RevokeUsage(r)>>)

\* Ownership is a transfer and has no counterpart.
BuildRevoke(scope, d, r) ==
  CASE scope = "connect" -> On(AdminDB, <<Revoke(d, r, {"connect"})>>)
    [] scope = "database" -> On(AdminDB, <<Revoke(d, r, OnDatabase)>>)
    [] scope = "owner" -> On(AdminDB, <<>>)
    [] scope = "schema" ->
         On(d, <<RevokeLater(r, "table"), RevokeLater(r, "sequence"),
                 RevokeAll(r, "table"), RevokeAll(r, "sequence"), RevokeUsage(r)>>)

\* As if BYPASSRLS and SUPERUSER were noticed only together.
EscalatesWithAll(want, have) == Powers \subseteq want \ have

\* Whether going from have to want gives a role power over every row.
Escalates(want, have) == (want \ have) \intersect Powers # {}

\* Only the attributes that differ; no statement when none does.
BuildAlterRoleAttrs(r, have, want) ==
  IF have = want THEN <<>> ELSE <<AlterRole(r, want \ have, have \ want)>>
=============================================================================
