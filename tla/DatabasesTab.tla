---------------------------- MODULE DatabasesTab ----------------------------
(***************************************************************************)
(* The Databases tab (ui/databases.go): the list of databases, the tables  *)
(* of the one that was entered, a table's description, and the data table  *)
(* (ui/datatable.go, ui/grid.go), whose loads carry a token.  What a list  *)
(* or a grid shows remembers where it was read.                            *)
(***************************************************************************)
EXTENDS TabCommands

CONSTANTS
  None,         \* no database, no table
  MaxLoads      \* bound: loads of the data table

ASSUME DatabasesConstants == None \notin Databases \union Tables /\ MaxLoads \in Nat

VARIABLES
  databases,    \* the view
  browser       \* its data table

databasesVars == <<databases, browser>>

Places == [db : Databases, name : Tables]
Nowhere == [db |-> None, sql |-> Empty]
NoModal == [kind |-> "none"]

DatabasesCapturing ==
  \/ databases.modal # NoModal \/ databases.alert
  \/ databases.mode = "data" /\ browser.mode # "grid"

ViewBecomes(v) == databases' = v /\ UNCHANGED browser
BrowserBecomes(b) == browser' = b /\ UNCHANGED databases

\* The alert takes the keys first, then whichever modal is open.
ModalKey(kind) == ~databases.alert /\ databases.modal.kind = kind /\ UNCHANGED world
ListKey(op, mode) == op \in job /\ databases.mode = mode /\ ModalKey("none")
Open(m) == ViewBecomes([databases EXCEPT !.modal = m]) /\ Send({})
Closed(v) == [v EXCEPT !.modal = NoModal]

----------------------------------------------------------------------------
(* The list of databases.                                                  *)

SelectedDB == databases.list[databases.cursor]
IsDatabase == databases.cursor \in DOMAIN databases.list
SelectedTable == databases.tables[databases.row].name
IsTable == databases.row \in DOMAIN databases.tables

Reloading(v) == [v EXCEPT !.loading = TRUE, !.err = FALSE]
RefreshDatabases ==
  /\ ListKey("refresh", "dbs")
  /\ ViewBecomes(Reloading(databases)) /\ Send({LoadDatabases})

MoveDatabase ==
  /\ ListKey("databases", "dbs") /\ databases.list # <<>>
  /\ \E c \in Moves(databases.list, databases.cursor) :
       ViewBecomes([databases EXCEPT !.cursor = c])
  /\ Send({})

\* The tables of the database before go at once.
EnterDatabase ==
  /\ ListKey("databases", "dbs") /\ IsDatabase
  /\ ViewBecomes([Reloading(databases) EXCEPT !.selected = SelectedDB, !.mode = "tables",
                                              !.tables = <<>>, !.row = 0])
  /\ Send({LoadTables(SelectedDB)})

OpenCreateDB == ListKey("create", "dbs") /\ Open([kind |-> "create"])
SubmitCreateDB ==
  /\ ModalKey("create")
  /\ \E d \in Databases : ViewBecomes(Closed(databases)) /\ Send({CreateDatabase(d)})

\* The confirmation wants the name to be typed.
AskDropDB ==
  /\ ListKey("drop", "dbs") /\ IsDatabase
  /\ ViewBecomes([databases EXCEPT !.pendingDrop = SelectedDB,
                                   !.modal = [kind |-> "drop", token |-> SelectedDB]])
  /\ Send({})
\* As if yes went to the row under the cursor.
DropSelected(v) == IF v.cursor \in DOMAIN v.list THEN v.list[v.cursor] ELSE v.pendingDrop
\* The database that was selected when the confirmation opened.
DropAsked(v) == v.pendingDrop
DropDBYes ==
  /\ ModalKey("drop")
  /\ ViewBecomes(Closed(databases)) /\ Send({DropDatabase(DropAsked(databases))})

----------------------------------------------------------------------------
(* The finder, over either list, answers with a place in the list it was   *)
(* opened on.                                                              *)

OpenFinder ==
  \/ ListKey("find", "dbs") /\ databases.list # <<>>
     /\ Open([kind |-> "find", items |-> Len(databases.list)])
  \/ ListKey("find", "tables") /\ databases.tables # <<>>
     /\ Open([kind |-> "find", items |-> Len(databases.tables)])
PickFound ==
  /\ ModalKey("find")
  /\ \E k \in 1 .. databases.modal.items :
       ViewBecomes(
         IF databases.mode = "dbs" /\ k \in DOMAIN databases.list
         THEN [Closed(databases) EXCEPT !.cursor = k]
         ELSE IF databases.mode = "tables" /\ k \in DOMAIN databases.tables
              THEN [Closed(databases) EXCEPT !.row = k]
              ELSE Closed(databases))
  /\ Send({})
CancelModal ==
  /\ ~databases.alert /\ databases.modal # NoModal /\ UNCHANGED world
  /\ ViewBecomes(Closed(databases)) /\ Send({})
CloseAlert ==
  /\ databases.alert /\ UNCHANGED world
  /\ ViewBecomes([databases EXCEPT !.alert = FALSE]) /\ Send({})

----------------------------------------------------------------------------
(* The tables of a database, and the description of one.                   *)

MoveTable ==
  /\ ListKey("databases", "tables") /\ databases.tables # <<>>
  /\ \E c \in Moves(databases.tables, databases.row) : ViewBecomes([databases EXCEPT !.row = c])
  /\ Send({})
RefreshTables ==
  /\ ListKey("refresh", "tables")
  /\ ViewBecomes(Reloading(databases)) /\ Send({LoadTables(databases.selected)})
LeaveTables ==
  /\ ListKey("databases", "tables")
  /\ ViewBecomes([databases EXCEPT !.mode = "dbs", !.err = FALSE]) /\ Send({})

Describe ==
  /\ ListKey("describe", "tables") /\ IsTable
  /\ ViewBecomes([databases EXCEPT !.mode = "describe", !.describing = TRUE,
                                   !.described = SelectedTable])
  /\ Send({DescribeTable(databases.selected, SelectedTable)})
LeaveDescription ==
  /\ ListKey("describe", "describe")
  /\ ViewBecomes([databases EXCEPT !.mode = "tables"]) /\ Send({})

----------------------------------------------------------------------------
(* The data table.                                                         *)

DataKey(op, mode) == ListKey(op, "data") /\ browser.mode = mode
\* As if a load took the token before it is counted up.
OldToken(b) == b.token
NextToken(b) == b.token + 1
\* Another load: only its answer counts from now on.
Loading(b, q) ==
  [b EXCEPT !.token = @ + 1, !.sql = q, !.loading = TRUE, !.err = FALSE, !.mode = "grid"]
Load(b, q) ==
  /\ b.token < MaxLoads
  /\ browser' = Loading(b, q) /\ Send({LoadTableData(b.db, q, NextToken(b))})

OpenTable ==
  /\ ListKey("data", "tables") /\ IsTable
  /\ Load([browser EXCEPT !.db = databases.selected, !.table = SelectedTable],
          SelectAll(SelectedTable))
  /\ databases' = [databases EXCEPT !.mode = "data"]
LeaveTable ==
  /\ DataKey("data", "grid")
  /\ ViewBecomes([databases EXCEPT !.mode = "tables"]) /\ Send({})
ResetData ==
  /\ DataKey("reset", "grid")
  /\ Load(browser, SelectAll(browser.table)) /\ UNCHANGED databases

OpenSearch ==
  /\ DataKey("search", "grid") /\ browser.grid # Nowhere
  /\ BrowserBecomes([browser EXCEPT !.mode = "search"]) /\ Send({})
\* No term: the whole table.
SearchColumn ==
  /\ DataKey("search", "search")
  /\ \E q \in {SelectAll(browser.table), SelectLike(browser.table)} : Load(browser, q)
  /\ UNCHANGED databases
OpenQueryBar ==
  /\ DataKey("bar", "grid")
  /\ BrowserBecomes([browser EXCEPT !.mode = "query"]) /\ Send({})
\* Anything but a read stays in the bar.
RunQueryBar ==
  /\ DataKey("bar", "query")
  /\ \E q \in Typable \ {Empty} : Classify(q) = "Safe" /\ Load(browser, q)
  /\ UNCHANGED databases
LeaveField ==
  /\ \E mode \in {"search", "query"} : DataKey("data", mode)
  /\ BrowserBecomes([browser EXCEPT !.mode = "grid"]) /\ Send({})

\* As if rows could be copied while others are loading.
CopyAnyTime(b) == ~b.err /\ b.grid # Nowhere
\* Whether a cell may be copied: not from the rows of the table before.
Copyable(b) == ~b.loading /\ ~b.err /\ b.grid # Nowhere

----------------------------------------------------------------------------
(* Answers.                                                                *)

ListDatabases(a) ==
  IF ~a.ok THEN ViewBecomes([databases EXCEPT !.loading = FALSE, !.err = TRUE])
  ELSE \E c \in CursorIn(a.rows, databases.cursor) :
         ViewBecomes([databases EXCEPT !.loading = FALSE, !.err = FALSE, !.list = a.rows,
                                       !.cursor = c])

\* As if any list of tables would do.
AnyTables(a) == TRUE
\* A list of the tables of another database is dropped.
OfSelected(a) == a.cmd.db = databases.selected
TablesMsg(a) ==
  IF ~OfSelected(a) THEN UNCHANGED databasesVars
  ELSE ViewBecomes(
         IF a.ok THEN [databases EXCEPT !.loading = FALSE, !.err = FALSE, !.tables = a.rows,
                                        !.row = IF a.rows = <<>> THEN 0 ELSE 1]
         ELSE [databases EXCEPT !.loading = FALSE, !.err = TRUE])

\* Whichever description arrives is shown; one that failed leaves the title.
DescribeMsg(a) ==
  ViewBecomes([databases EXCEPT !.describing = FALSE,
                                !.described = IF a.ok THEN a.cmd.table ELSE @])

\* As if rows of an earlier load were taken too.
AnyToken(a) == TRUE
Current(a) == a.cmd.token = browser.token
TableDataMsg(a) ==
  IF ~Current(a) THEN UNCHANGED databasesVars
  ELSE BrowserBecomes(
         [browser EXCEPT !.loading = FALSE, !.err = ~a.ok,
                         !.grid = IF a.ok THEN [db |-> a.cmd.db, sql |-> a.cmd.sql] ELSE @])

\* A failure opens the alert; anything else reads the list again.
ExecMsg(a) == ViewBecomes([databases EXCEPT !.alert = IF a.ok THEN @ ELSE TRUE])
Reloads(a) == IF a.ok THEN {LoadDatabases} ELSE {}

DatabasesInit ==
  /\ databases = [mode |-> "dbs", list |-> <<>>, cursor |-> 1, tables |-> <<>>, row |-> 1,
                  selected |-> None, loading |-> "databases" \in job, err |-> FALSE,
                  describing |-> FALSE, described |-> None, modal |-> NoModal, alert |-> FALSE,
                  pendingDrop |-> None]
  /\ browser = [db |-> None, table |-> None, mode |-> "grid", loading |-> FALSE, err |-> FALSE,
                token |-> 0, sql |-> Empty, grid |-> Nowhere]

DatabasesKeys ==
  \/ RefreshDatabases \/ MoveDatabase \/ EnterDatabase
  \/ OpenCreateDB \/ SubmitCreateDB \/ AskDropDB \/ DropDBYes
  \/ OpenFinder \/ PickFound \/ CancelModal \/ CloseAlert
  \/ MoveTable \/ RefreshTables \/ LeaveTables \/ Describe \/ LeaveDescription
  \/ OpenTable \/ LeaveTable \/ ResetData \/ OpenSearch \/ SearchColumn
  \/ OpenQueryBar \/ RunQueryBar \/ LeaveField
=============================================================================
