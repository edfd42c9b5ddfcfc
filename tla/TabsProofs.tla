----------------------------- MODULE TabsProofs -----------------------------
(***************************************************************************)
(* What the tables of the Databases tab show is what was asked for, and    *)
(* what the tabs start was consented to: text that writes was confirmed,   *)
(* what is dropped or terminated is what the question named.  For any      *)
(* databases, tables, backends, texts (of which the lexical rules see what *)
(* they do, where that matters) and number of commands under way.          *)
(***************************************************************************)
EXTENDS Tabs, TLAPS

----------------------------------------------------------------------------
(* Bags: what is in the bag of commands after a step.                      *)

LEMMA Removed == ASSUME NEW b, NEW e PROVE DOMAIN BagRemove(b, e) \subseteq DOMAIN b
BY DEF BagRemove

LEMMA Added == ASSUME NEW b, NEW e PROVE DOMAIN BagAdd(b, e) = DOMAIN b \union {e}
BY DEF BagAdd

LEMMA Joined == ASSUME NEW b, NEW s PROVE DOMAIN (b (+) SetToBag(s)) = DOMAIN b \union s
BY DEF (+), SetToBag

LEMMA Listing ==
  ASSUME NEW s, NEW l \in SetToSeqs(s), NEW k \in DOMAIN l PROVE l[k] \in s
BY DEF SetToSeqs

LEMMA Sends ==
  ASSUME NEW cs, Send(cs)
  PROVE  DOMAIN pending' = DOMAIN pending \union cs /\ answers' = answers
BY Joined DEF Send, Start

LEMMA Replies ==
  ASSUME NEW a, NEW cs, Reply(a, cs)
  PROVE  /\ DOMAIN pending' = DOMAIN pending \union cs
         /\ DOMAIN answers' \subseteq DOMAIN answers
BY Joined, Removed DEF Reply, Start

----------------------------------------------------------------------------
(* The invariant.  A load of the data table that carries the token of now  *)
(* is of the table and the text of now, wherever it is under way; an       *)
(* answer lists the tables of the database it was asked about.             *)

BrowserFields == {"db", "table", "mode", "loading", "err", "token", "sql", "grid"}
DatabasesFields ==
  {"mode", "list", "cursor", "tables", "row", "selected", "loading", "err", "describing",
   "described", "modal", "alert", "pendingDrop"}
Shapes ==
  /\ DOMAIN browser = BrowserFields /\ browser.token \in Nat
  /\ DOMAIN databases = DatabasesFields

CurrentLoad(c) ==
  /\ "kind" \in DOMAIN c
  /\ c.kind = "data" =>
       /\ c.token \in Nat /\ c.token <= browser.token
       /\ c.token = browser.token => c.db = browser.db /\ c.sql = browser.sql
ListsAsked(a) ==
  a.cmd.kind = "tables" /\ a.ok => \A k \in DOMAIN a.rows : a.rows[k].db = a.cmd.db

PendingOK == \A c \in DOMAIN pending : CurrentLoad(c)
AnswersOK == \A a \in DOMAIN answers : CurrentLoad(a.cmd) /\ ListsAsked(a)
TablesOK == \A k \in DOMAIN databases.tables : databases.tables[k].db = databases.selected
RowsOK == Copyable(browser) => browser.grid = [db |-> browser.db, sql |-> browser.sql]

IInv == Shapes /\ PendingOK /\ AnswersOK /\ TablesOK /\ RowsOK

----------------------------------------------------------------------------
(* Every other tab starts commands that load no rows.                      *)

Plain(cs) == \A c \in cs : "kind" \in DOMAIN c /\ c.kind # "data"
SameLoad == browser'.token = browser.token /\ browser'.db = browser.db /\ browser'.sql = browser.sql

LEMMA PlainSend ==
  ASSUME IInv, NEW cs, Plain(cs), Send(cs), SameLoad
  PROVE  PendingOK' /\ AnswersOK'
<1>1. DOMAIN pending' = DOMAIN pending \union cs /\ answers' = answers
  BY Sends
<1> QED BY <1>1 DEF IInv, PendingOK, AnswersOK, CurrentLoad, ListsAsked, SameLoad, Plain

LEMMA PlainReply ==
  ASSUME IInv, NEW a, NEW cs, Plain(cs), Reply(a, cs), SameLoad
  PROVE  PendingOK' /\ AnswersOK'
<1>1. /\ DOMAIN pending' = DOMAIN pending \union cs
      /\ DOMAIN answers' \subseteq DOMAIN answers
  BY Replies
<1> QED BY <1>1 DEF IInv, PendingOK, AnswersOK, CurrentLoad, ListsAsked, SameLoad, Plain

LEMMA SendKeeps ==
  ASSUME IInv, NEW cs, Plain(cs), Send(cs), UNCHANGED databasesVars
  PROVE  IInv'
<1>1. SameLoad
  BY DEF SameLoad, databasesVars
<1> QED BY <1>1, PlainSend DEF IInv, Shapes, TablesOK, RowsOK, Copyable, databasesVars

LEMMA ReplyKeeps ==
  ASSUME IInv, NEW a, NEW cs, Plain(cs), Reply(a, cs), UNCHANGED databasesVars
  PROVE  IInv'
<1>1. SameLoad
  BY DEF SameLoad, databasesVars
<1> QED BY <1>1, PlainReply DEF IInv, Shapes, TablesOK, RowsOK, Copyable, databasesVars

LEMMA LoadsPlain == ASSUME NEW t \in TabNames PROVE Plain(Loads(t))
BY DEF Plain, Loads, TabNames, DashboardLoads, TuningLoads, LoadTuning, LoadAllSettings,
       LoadDashboard, Tick, LoadDatabases, LoadLocks, LoadSessions

----------------------------------------------------------------------------
(* Commands.                                                               *)

LEMMA DoneKeeps ==
  ASSUME IInv, NEW c \in DOMAIN pending, NEW ok, NEW rows, Done(c, ok, rows),
         ListsAsked([cmd |-> c, ok |-> ok, rows |-> rows]), UNCHANGED databasesVars
  PROVE  IInv'
<1> DEFINE a == [cmd |-> c, ok |-> ok, rows |-> rows]
<1>1. DOMAIN pending' \subseteq DOMAIN pending
  BY Removed DEF Done
<1>2. DOMAIN answers' = DOMAIN answers \union {a}
  BY Added DEF Done
<1>3. a.cmd = c
  OBVIOUS
<1> HIDE DEF a
<1>4. PendingOK' /\ AnswersOK'
  BY <1>1, <1>2, <1>3 DEF IInv, PendingOK, AnswersOK, CurrentLoad, ListsAsked, databasesVars, a
<1> QED BY <1>4 DEF IInv, Shapes, TablesOK, RowsOK, Copyable, databasesVars

LEMMA CommandKeeps == ASSUME IInv, CommandStep PROVE IInv'
<1> UNCHANGED databasesVars
  BY DEF CommandStep
<1>1. ASSUME NEW c \in DOMAIN pending, RunCommand(c) PROVE IInv'
  <2>1. PICK rows \in Rows(c) : Done(c, TRUE, rows)
    BY <1>1 DEF RunCommand
  <2>2. c.kind = "tables" => rows \in SetToSeqs(TableRows(c.db))
    BY DEF Rows
  <2>3. c.kind = "tables" => \A k \in DOMAIN rows : rows[k] \in TableRows(c.db)
    BY <2>2, Listing
  <2>4. ASSUME NEW d, NEW r \in TableRows(d) PROVE r.db = d
    BY DEF TableRows
  <2>5. ListsAsked([cmd |-> c, ok |-> TRUE, rows |-> rows])
    BY <2>3, <2>4 DEF ListsAsked
  <2> QED BY <2>1, <2>5, DoneKeeps
<1>2. ASSUME NEW c \in DOMAIN pending, RefuseCommand(c) \/ FailCommand(c) PROVE IInv'
  <2>1. Done(c, FALSE, <<>>)
    BY <1>2 DEF RefuseCommand, FailCommand
  <2>2. ListsAsked([cmd |-> c, ok |-> FALSE, rows |-> <<>>])
    BY DEF ListsAsked
  <2> QED BY <2>1, <2>2, DoneKeeps
<1>3. ASSUME NEW c \in DOMAIN pending, AlterSystem(c) PROVE IInv'
  <2> DEFINE r == [c EXCEPT !.step = "reload"]
  <2>1. "kind" \in DOMAIN c /\ c.kind = "setting"
    BY <1>3 DEF AlterSystem, IInv, PendingOK, CurrentLoad
  <2>2. "kind" \in DOMAIN r /\ r.kind = "setting"
    BY <2>1
  <2>3. pending' = BagAdd(BagRemove(pending, c), r) /\ answers' = answers
    BY <1>3, Zenon DEF AlterSystem
  <2> HIDE DEF r
  <2>4. DOMAIN pending' \subseteq DOMAIN pending \union {r} /\ answers' = answers
    <3>1. DOMAIN BagAdd(BagRemove(pending, c), r) = DOMAIN BagRemove(pending, c) \union {r}
      BY Added
    <3>2. DOMAIN BagRemove(pending, c) \subseteq DOMAIN pending
      BY Removed
    <3> QED BY <2>3, <3>1, <3>2
  <2>5. PendingOK' /\ AnswersOK'
    BY <2>2, <2>4 DEF IInv, PendingOK, AnswersOK, CurrentLoad, ListsAsked, databasesVars
  <2> QED BY <2>5 DEF IInv, Shapes, TablesOK, RowsOK, Copyable, databasesVars
<1>4. ASSUME ReadConfig \/ SomebodyElse PROVE IInv'
  <2>1. UNCHANGED commands
    BY <1>4 DEF ReadConfig, SomebodyElse
  <2> QED BY <2>1 DEF commands, databasesVars, IInv, Shapes, PendingOK, AnswersOK, CurrentLoad,
                      ListsAsked, TablesOK, RowsOK, Copyable
<1> QED BY <1>1, <1>2, <1>3, <1>4 DEF CommandStep

----------------------------------------------------------------------------
(* The keys and the answers of the other tabs.                             *)

LEMMA PlainCommands ==
  /\ Plain({}) /\ Plain({LoadDatabases}) /\ Plain({LoadSessions}) /\ Plain({LoadLocks})
  /\ Plain({LoadDashboard}) /\ Plain({LoadDashboard, Tick}) /\ Plain(TuningLoads)
  /\ Plain({LoadAllSettings})
  /\ \A d, q : Plain({RunQuery(d, q)})
  /\ \A d : Plain({LoadTables(d)}) /\ Plain({CreateDatabase(d)}) /\ Plain({DropDatabase(d)})
  /\ \A d, t : Plain({DescribeTable(d, t)})
  /\ \A op, p : Plain({SessionAction(op, p)})
  /\ \A n, v : Plain({ApplySetting(n, v)})
BY DEF Plain, LoadDatabases, LoadSessions, LoadLocks, LoadDashboard, Tick, TuningLoads,
       LoadTuning, LoadAllSettings, RunQuery, LoadTables, CreateDatabase, DropDatabase,
       DescribeTable, SessionAction, ApplySetting

SendsPlain == \E cs : Plain(cs) /\ Send(cs)

LEMMA QuietSend == ASSUME IInv, SendsPlain, UNCHANGED databasesVars PROVE IInv'
BY SendKeeps DEF SendsPlain

LEMMA QueryKeysSend == ASSUME QueryKeys PROVE SendsPlain
<1>1. CASE FocusEditor \/ LeaveEditor \/ TypeText
  BY <1>1, PlainCommands DEF FocusEditor, LeaveEditor, TypeText, SendsPlain
<1>2. CASE Submit
  <2>1. PICK d, q : Send({RunQuery(d, q)}) \/ Send({})
    BY <1>2 DEF Submit
  <2> QED BY <2>1, PlainCommands DEF SendsPlain
<1>3. CASE Explain \/ ConfirmYes
  <2>1. PICK d, q : Send({RunQuery(d, q)})
    BY <1>3 DEF Explain, ConfirmYes
  <2> QED BY <2>1, PlainCommands DEF SendsPlain
<1>4. CASE TypeAnswer \/ CancelPending
  BY <1>4, PlainCommands DEF TypeAnswer, CancelPending, SendsPlain
<1>5. CASE OpenTarget
  BY <1>5, PlainCommands DEF OpenTarget, SendsPlain
<1>6. CASE TypeFilter \/ MoveTarget \/ PickTarget \/ CancelTarget
  BY <1>6, PlainCommands DEF TypeFilter, MoveTarget, PickTarget, CancelTarget, SendsPlain
<1> QED BY <1>1, <1>2, <1>3, <1>4, <1>5, <1>6 DEF QueryKeys

LEMMA MonitorKeysSend ==
  ASSUME SessionsKeys \/ RefreshDashboard \/ RefreshLocks PROVE SendsPlain
<1>1. CASE RefreshSessions \/ MoveSession \/ FindSession \/ PickSession \/ ConfirmOn
  BY <1>1, PlainCommands DEF RefreshSessions, MoveSession, FindSession, PickSession, ConfirmOn,
                             SendsPlain
<1>2. CASE SessionYes
  BY <1>2, PlainCommands DEF SessionYes, SendsPlain
<1>3. CASE SessionNo \/ CloseSessionAlert \/ RefreshDashboard \/ RefreshLocks
  BY <1>3, PlainCommands DEF SessionNo, CloseSessionAlert, RefreshDashboard, RefreshLocks,
                             SendsPlain
<1> QED BY <1>1, <1>2, <1>3 DEF SessionsKeys

LEMMA SettingsKeysSend == ASSUME SettingsKeys PROVE SendsPlain
<1>1. CASE RefreshTuning \/ OpenSettings \/ OpenAdvisor \/ MoveSetting
  BY <1>1, PlainCommands DEF RefreshTuning, OpenSettings, OpenAdvisor, MoveSetting, SendsPlain
<1>2. CASE StartFilter \/ TypeNameFilter \/ LeaveFilter
  BY <1>2, PlainCommands DEF StartFilter, TypeNameFilter, LeaveFilter, SendsPlain
<1>3. CASE SubmitSettingEdit \/ ResetSetting
  <2>1. PICK n, v : Send({ApplySetting(n, v)})
    BY <1>3 DEF SubmitSettingEdit, ResetSetting, Apply
  <2> QED BY <2>1, PlainCommands DEF SendsPlain
<1>4. CASE OpenSettingEdit \/ CancelSettingEdit \/ CannotChange
  BY <1>4, PlainCommands DEF OpenSettingEdit, CancelSettingEdit, CannotChange, SendsPlain
<1> QED BY <1>1, <1>2, <1>3, <1>4 DEF SettingsKeys

LEMMA OtherKeysKeep ==
  ASSUME IInv, QueryTabKey \/ MonitorTabKey \/ SettingsTabKey PROVE IInv'
<1>1. CASE QueryTabKey
  BY <1>1, QueryKeysSend, QuietSend DEF QueryTabKey
<1>2. CASE MonitorTabKey
  BY <1>2, MonitorKeysSend, QuietSend DEF MonitorTabKey
<1>3. CASE SettingsTabKey
  BY <1>3, SettingsKeysSend, QuietSend DEF SettingsTabKey
<1> QED BY <1>1, <1>2, <1>3

LEMMA OtherAnswersKeep ==
  ASSUME IInv, NEW a, QueryTabAnswer(a) \/ MonitorTabAnswer(a) \/ SettingsTabAnswer(a)
  PROVE  IInv'
<1>1. UNCHANGED databasesVars
  BY DEF QueryTabAnswer, MonitorTabAnswer, SettingsTabAnswer
<1>2. PICK cs : Plain(cs) /\ Reply(a, cs)
  BY PlainCommands DEF QueryTabAnswer, MonitorTabAnswer, SettingsTabAnswer, AfterTick, AfterApply
<1> QED BY <1>1, <1>2, ReplyKeeps

LEMMA SwitchKeeps == ASSUME IInv, SwitchTo PROVE IInv'
<1>1. PICK t \in TabNames :
        /\ Send(Loads(t))
        /\ databases' = IF t = "databases" THEN Reloading(databases) ELSE databases
        /\ browser' = browser
  BY DEF SwitchTo
<1>2. PendingOK' /\ AnswersOK'
  BY <1>1, LoadsPlain, PlainSend DEF SameLoad
<1>3. Shapes' /\ TablesOK' /\ RowsOK'
  BY <1>1 DEF IInv, Shapes, DatabasesFields, TablesOK, RowsOK, Copyable, Reloading
<1> QED BY <1>2, <1>3 DEF IInv

----------------------------------------------------------------------------
(* The keys of the Databases tab.                                          *)

\* A key that leaves the tables and the rows alone.
SameTables(v) ==
  DOMAIN v = DatabasesFields /\ v.tables = databases.tables /\ v.selected = databases.selected
SameRows(b) ==
  DOMAIN b = BrowserFields /\ \A f \in BrowserFields \ {"mode"} : b[f] = browser[f]
Aside == SendsPlain /\ SameTables(databases') /\ SameRows(browser')

LEMMA AsideKeeps == ASSUME IInv, Aside PROVE IInv'
<1>1. SameLoad /\ browser'.loading = browser.loading /\ browser'.err = browser.err
        /\ browser'.grid = browser.grid
  BY DEF Aside, SameRows, SameLoad, BrowserFields
<1>2. PendingOK' /\ AnswersOK'
  BY <1>1, PlainSend DEF Aside, SendsPlain
<1>3. Shapes'
  BY <1>1 DEF Aside, SameRows, SameTables, IInv, Shapes, SameLoad
<1>4. TablesOK'
  BY DEF Aside, SameTables, IInv, TablesOK
<1>5. RowsOK'
  BY <1>1 DEF IInv, RowsOK, Copyable, SameLoad
<1> QED BY <1>2, <1>3, <1>4, <1>5 DEF IInv

LEMMA SameRowsHolds == ASSUME IInv, UNCHANGED browser PROVE SameRows(browser')
BY DEF IInv, Shapes, SameRows

LEMMA ListKeysAside ==
  ASSUME IInv,
         \/ RefreshDatabases \/ MoveDatabase \/ OpenCreateDB \/ SubmitCreateDB \/ AskDropDB
         \/ DropDBYes \/ OpenFinder \/ PickFound \/ CancelModal \/ CloseAlert
  PROVE  Aside
<1> USE DEF IInv, Shapes, SameTables, DatabasesFields, ViewBecomes
<1>0. UNCHANGED browser => SameRows(browser')
  BY SameRowsHolds
<1>1. CASE RefreshDatabases
  BY <1>0, <1>1, PlainCommands DEF RefreshDatabases, Reloading, Aside, SendsPlain
<1>2. CASE MoveDatabase
  BY <1>0, <1>2, PlainCommands DEF MoveDatabase, Aside, SendsPlain
<1>3. CASE OpenCreateDB
  BY <1>0, <1>3, PlainCommands DEF OpenCreateDB, Open, Aside, SendsPlain
<1>4. CASE SubmitCreateDB
  BY <1>0, <1>4, PlainCommands DEF SubmitCreateDB, Closed, Aside, SendsPlain
<1>5. CASE AskDropDB
  BY <1>0, <1>5, PlainCommands DEF AskDropDB, Aside, SendsPlain
<1>6. CASE DropDBYes
  BY <1>0, <1>6, PlainCommands DEF DropDBYes, Closed, Aside, SendsPlain
<1>7. CASE OpenFinder
  BY <1>0, <1>7, PlainCommands DEF OpenFinder, Open, Aside, SendsPlain
<1>8. CASE PickFound
  BY <1>0, <1>8, PlainCommands DEF PickFound, Closed, Aside, SendsPlain
<1>9. CASE CancelModal
  BY <1>0, <1>9, PlainCommands DEF CancelModal, Closed, Aside, SendsPlain
<1>10. CASE CloseAlert
  BY <1>0, <1>10, PlainCommands DEF CloseAlert, Aside, SendsPlain
<1> QED BY <1>1, <1>2, <1>3, <1>4, <1>5, <1>6, <1>7, <1>8, <1>9, <1>10

LEMMA TableKeysAside ==
  ASSUME IInv,
         \/ MoveTable \/ RefreshTables \/ LeaveTables \/ Describe \/ LeaveDescription
         \/ LeaveTable \/ OpenSearch \/ OpenQueryBar \/ LeaveField
  PROVE  Aside
<1> USE DEF IInv, Shapes, SameTables, DatabasesFields, ViewBecomes
<1>0. UNCHANGED browser => SameRows(browser')
  BY SameRowsHolds
<1>1. CASE MoveTable
  BY <1>0, <1>1, PlainCommands DEF MoveTable, Aside, SendsPlain
<1>2. CASE RefreshTables
  BY <1>0, <1>2, PlainCommands DEF RefreshTables, Reloading, Aside, SendsPlain
<1>3. CASE LeaveTables
  BY <1>0, <1>3, PlainCommands DEF LeaveTables, Aside, SendsPlain
<1>4. CASE Describe
  BY <1>0, <1>4, PlainCommands DEF Describe, Aside, SendsPlain
<1>5. CASE LeaveDescription
  BY <1>0, <1>5, PlainCommands DEF LeaveDescription, Aside, SendsPlain
<1>6. CASE LeaveTable
  BY <1>0, <1>6, PlainCommands DEF LeaveTable, Aside, SendsPlain
<1>7. CASE OpenSearch \/ OpenQueryBar \/ LeaveField
  <2>1. PICK m \in {"search", "query", "grid"} :
          BrowserBecomes([browser EXCEPT !.mode = m]) /\ Send({})
    BY <1>7 DEF OpenSearch, OpenQueryBar, LeaveField
  <2>2. SameRows(browser')
    BY <2>1 DEF BrowserBecomes, SameRows, BrowserFields
  <2>3. SameTables(databases')
    BY <2>1 DEF BrowserBecomes
  <2> QED BY <2>1, <2>2, <2>3, PlainCommands DEF Aside, SendsPlain
<1> QED BY <1>1, <1>2, <1>3, <1>4, <1>5, <1>6, <1>7

\* Entering a database clears the tables of the one before.
LEMMA EnterKeeps == ASSUME IInv, EnterDatabase PROVE IInv'
<1>1. SameLoad /\ UNCHANGED browser
  BY DEF EnterDatabase, ViewBecomes, SameLoad
<1>2. PendingOK' /\ AnswersOK'
  BY <1>1, PlainSend, PlainCommands DEF EnterDatabase
<1>3. databases'.tables = <<>> /\ DOMAIN databases' = DatabasesFields
  BY DEF EnterDatabase, ViewBecomes, Reloading, IInv, Shapes, DatabasesFields
<1>4. TablesOK'
  BY <1>3 DEF TablesOK
<1> QED BY <1>1, <1>2, <1>3, <1>4 DEF IInv, Shapes, RowsOK, Copyable

\* A load takes the next token: no command under way has it.
LEMMA LoadKeeps ==
  ASSUME IInv, NEW b, NEW q, DOMAIN b = BrowserFields, b.token = browser.token, Load(b, q),
         SameTables(databases')
  PROVE  IInv'
<1>1. /\ DOMAIN browser' = BrowserFields /\ browser'.token = browser.token + 1
      /\ browser'.db = b.db /\ browser'.sql = q /\ browser'.loading = TRUE
  BY DEF Load, Loading, BrowserFields
<1>2. PICK c : /\ DOMAIN pending' = DOMAIN pending \union {c} /\ answers' = answers
               /\ "kind" \in DOMAIN c
               /\ c.token = browser.token + 1 /\ c.db = b.db /\ c.sql = q
  <2> DEFINE r == LoadTableData(b.db, q, NextToken(b))
  <2>1. DOMAIN pending' = DOMAIN pending \union {r} /\ answers' = answers
    BY Sends DEF Load
  <2>2. "kind" \in DOMAIN r /\ r.token = browser.token + 1 /\ r.db = b.db /\ r.sql = q
    BY DEF LoadTableData, NextToken
  <2> HIDE DEF r
  <2> QED BY <2>1, <2>2
<1>3. browser.token \in Nat
  BY DEF IInv, Shapes
<1>4. PendingOK'
  BY <1>1, <1>2, <1>3 DEF IInv, PendingOK, CurrentLoad
<1>5. AnswersOK'
  BY <1>1, <1>2, <1>3 DEF IInv, AnswersOK, CurrentLoad, ListsAsked
<1>6. Shapes' /\ RowsOK' /\ TablesOK'
  BY <1>1, <1>3 DEF IInv, Shapes, RowsOK, Copyable, TablesOK, SameTables
<1> QED BY <1>4, <1>5, <1>6 DEF IInv

LEMMA LoadKeysKeep ==
  ASSUME IInv, OpenTable \/ ResetData \/ SearchColumn \/ RunQueryBar PROVE IInv'
<1>1. SameTables(databases')
  BY DEF IInv, Shapes, SameTables, DatabasesFields, OpenTable, ResetData, SearchColumn, RunQueryBar
<1>2. CASE OpenTable
  <2> DEFINE b == [browser EXCEPT !.db = databases.selected, !.table = SelectedTable]
  <2>1. DOMAIN b = BrowserFields /\ b.token = browser.token
    BY DEF IInv, Shapes, BrowserFields
  <2>2. Load(b, SelectAll(SelectedTable))
    BY <1>2 DEF OpenTable
  <2> QED BY <1>1, <2>1, <2>2, LoadKeeps
<1>3. CASE ResetData \/ SearchColumn \/ RunQueryBar
  <2>1. PICK q : Load(browser, q)
    BY <1>3 DEF ResetData, SearchColumn, RunQueryBar
  <2>2. DOMAIN browser = BrowserFields
    BY DEF IInv, Shapes
  <2> QED BY <1>1, <2>1, <2>2, LoadKeeps
<1> QED BY <1>2, <1>3

LEMMA DatabasesKeysKeep == ASSUME IInv, DatabasesTabKey PROVE IInv'
BY ListKeysAside, TableKeysAside, AsideKeeps, EnterKeeps, LoadKeysKeep
   DEF DatabasesTabKey, DatabasesKeys

----------------------------------------------------------------------------
(* The answers that the Databases tab takes.                               *)

\* Whatever an answer does to the view, the commands stay as they are.
LEMMA ListKeeps == ASSUME IInv, NEW a, DatabasesAnswer(a) PROVE IInv'
<1>1. SameLoad /\ UNCHANGED browser
  BY DEF DatabasesAnswer, ListDatabases, ViewBecomes, SameLoad
<1>2. PendingOK' /\ AnswersOK'
  BY <1>1, PlainReply, PlainCommands DEF DatabasesAnswer
<1>3. SameTables(databases')
  BY DEF DatabasesAnswer, ListDatabases, ViewBecomes, IInv, Shapes, SameTables, DatabasesFields
<1> QED BY <1>1, <1>2, <1>3 DEF IInv, Shapes, RowsOK, Copyable, TablesOK, SameTables

LEMMA TableAnswersKeep ==
  ASSUME IInv, NEW a \in DOMAIN answers, DatabasesTabAnswer(a) PROVE IInv'
<1> USE DEF IInv, Shapes
<1>0. PICK cs : Plain(cs) /\ Reply(a, cs)
  BY PlainCommands DEF DatabasesTabAnswer, Reloads
<1>1. CASE Answered("tables", a) /\ TablesMsg(a)
  <2>1. SameLoad /\ UNCHANGED browser
    BY <1>1 DEF TablesMsg, ViewBecomes, databasesVars, SameLoad
  <2>2. DOMAIN databases' = DatabasesFields
    BY <1>1 DEF TablesMsg, ViewBecomes, databasesVars, DatabasesFields
  <2>3. databases'.selected = databases.selected
    BY <1>1 DEF TablesMsg, ViewBecomes, databasesVars, DatabasesFields
  <2>4. databases'.tables = databases.tables
          \/ (databases'.tables = a.rows /\ a.ok /\ OfSelected(a))
    BY <1>1 DEF TablesMsg, ViewBecomes, databasesVars, DatabasesFields
  <2>5. TablesOK'
    BY <1>1, <2>3, <2>4 DEF Answered, OfSelected, AnswersOK, ListsAsked, TablesOK
  <2>6. PendingOK' /\ AnswersOK'
    BY <1>0, <2>1, PlainReply
  <2> QED BY <2>1, <2>2, <2>5, <2>6 DEF RowsOK, Copyable
<1>2. CASE DescribeMsg(a) \/ ExecMsg(a)
  <2>1. SameLoad /\ UNCHANGED browser
    BY <1>2 DEF DescribeMsg, ExecMsg, ViewBecomes, SameLoad
  <2>2. SameTables(databases')
    BY <1>2 DEF DescribeMsg, ExecMsg, ViewBecomes, SameTables, DatabasesFields
  <2>3. PendingOK' /\ AnswersOK'
    BY <1>0, <2>1, PlainReply
  <2> QED BY <2>1, <2>2, <2>3 DEF RowsOK, Copyable, TablesOK, SameTables
<1>3. CASE Answered("data", a) /\ TableDataMsg(a)
  <2>1. SameLoad /\ DOMAIN browser' = BrowserFields /\ UNCHANGED databases
    BY <1>3 DEF TableDataMsg, BrowserBecomes, databasesVars, SameLoad, BrowserFields
  <2>2. PendingOK' /\ AnswersOK'
    BY <1>0, <2>1, PlainReply
  <2>3. ASSUME Current(a), a.ok PROVE RowsOK'
    <3>1. a.cmd.db = browser.db /\ a.cmd.sql = browser.sql
      BY <1>3, <2>3 DEF Answered, Current, AnswersOK, CurrentLoad
    <3>2. browser'.grid = [db |-> a.cmd.db, sql |-> a.cmd.sql]
      BY <1>3, <2>3 DEF TableDataMsg, BrowserBecomes, BrowserFields
    <3> QED BY <2>1, <3>1, <3>2 DEF RowsOK, SameLoad
  <2>4. ASSUME Current(a), ~a.ok PROVE RowsOK'
    <3>1. browser'.err
      BY <1>3, <2>4 DEF TableDataMsg, BrowserBecomes, BrowserFields
    <3> QED BY <3>1 DEF RowsOK, Copyable
  <2>5. ASSUME ~Current(a) PROVE RowsOK'
    BY <1>3, <2>5 DEF TableDataMsg, databasesVars, RowsOK, Copyable
  <2> QED BY <2>1, <2>2, <2>3, <2>4, <2>5 DEF TablesOK, SameLoad
<1> QED BY <1>1, <1>2, <1>3 DEF DatabasesTabAnswer

----------------------------------------------------------------------------

LEMMA InitHolds == ASSUME Init PROVE IInv
<1>1. Shapes /\ TablesOK /\ RowsOK
  BY DEF Init, DatabasesInit, Shapes, BrowserFields, DatabasesFields, TablesOK, RowsOK, Copyable
<1>2. AnswersOK
  BY DEF Init, EmptyBag, SetToBag, AnswersOK
<1>3. PICK s : pending = SetToBag(s) /\ Plain(s)
  <2>1. ASSUME NEW t \in TabNames
        PROVE  Plain(IF t = "dashboard" THEN {LoadDashboard, Tick} ELSE Loads(t))
    BY LoadsPlain, PlainCommands
  <2> DEFINE Opened(t) == IF t = "dashboard" THEN {LoadDashboard, Tick} ELSE Loads(t)
             s == UNION {Opened(t) : t \in TabNames \intersect job}
  <2>2. Plain(s)
    BY <2>1 DEF Plain
  <2>3. pending = SetToBag(s)
    BY DEF Init
  <2> QED BY <2>2, <2>3
<1>4. PendingOK
  BY <1>3 DEF SetToBag, Plain, PendingOK, CurrentLoad
<1> QED BY <1>1, <1>2, <1>4 DEF IInv

LEMMA NextKeeps == ASSUME IInv, [Next]_vars PROVE IInv'
<1>1. CASE SwitchTo
  BY <1>1, SwitchKeeps
<1>2. CASE QueryTabKey \/ MonitorTabKey \/ SettingsTabKey
  BY <1>2, OtherKeysKeep
<1>3. CASE DatabasesTabKey
  BY <1>3, DatabasesKeysKeep
<1>4. CASE CommandStep
  BY <1>4, CommandKeeps
<1>5. ASSUME NEW a \in DOMAIN answers, Answer(a) PROVE IInv'
  BY <1>5, ListKeeps, TableAnswersKeep, OtherAnswersKeep DEF Answer
<1>6. CASE UNCHANGED vars
  BY <1>6 DEF vars, commands, databasesVars, IInv, Shapes, PendingOK, AnswersOK, CurrentLoad,
              ListsAsked, TablesOK, RowsOK, Copyable
<1> QED BY <1>1, <1>2, <1>3, <1>4, <1>5, <1>6 DEF Next

\* The tables on the screen are of the database that was entered, and rows that may
\* be copied are of the table in the title and of the text in the bar, whatever
\* answers were late (databases.go tablesMsg, datatable.go tableDataMsg and y).
THEOREM ScreenIsAskedFor == Spec => []ShownIsAskedFor
<1>1. IInv => ShownIsAskedFor
  BY DEF IInv, TablesOK, RowsOK, ShownIsAskedFor
<1> QED BY <1>1, InitHolds, NextKeeps, PTL DEF Spec
----------------------------------------------------------------------------
(* Bags, counted.                                                          *)

Counted(b) == \A c \in DOMAIN b : b[c] \in Nat \ {0}

LEMMA RemovedCount ==
  ASSUME NEW b, Counted(b), NEW e, NEW c
  PROVE  Counted(BagRemove(b, e)) /\ Copies(c, BagRemove(b, e)) <= Copies(c, b)
BY DEF BagRemove, Counted, Copies

LEMMA AddedCount ==
  ASSUME NEW b, Counted(b), NEW e, NEW c
  PROVE  /\ Counted(BagAdd(b, e))
         /\ c # e => Copies(c, BagAdd(b, e)) = Copies(c, b)
BY DEF BagAdd, Counted, Copies

LEMMA JoinedCount ==
  ASSUME NEW b, Counted(b), NEW s, NEW c
  PROVE  /\ Counted(b (+) SetToBag(s))
         /\ c \notin s => Copies(c, b (+) SetToBag(s)) = Copies(c, b)
BY DEF (+), SetToBag, Counted, Copies

LEMMA CopiesCount == ASSUME NEW b, Counted(b), NEW c PROVE Copies(c, b) \in Nat
BY DEF Counted, Copies

----------------------------------------------------------------------------
(* The invariant: an open question is about what was remembered when it    *)
(* was asked.                                                              *)

QueryFields ==
  {"mode", "text", "pending", "danger", "typed", "target", "names", "filter", "cursor",
   "running", "err", "hasRes"}
SessionsFields ==
  {"list", "cursor", "modal", "alert", "pendingPid", "pendingOp", "loading"}

QueryAsked ==
  /\ DOMAIN query = QueryFields /\ query.text \in Sql /\ query.typed \in BOOLEAN
  /\ query.mode = "confirm" =>
       query.pending \in Sql /\ query.danger = Classify(query.pending)
  /\ query.danger = "Critical" /\ query.typed => readied = query.pending
DropAskedOf ==
  /\ DOMAIN databases = DatabasesFields
  /\ databases.modal.kind = "drop" => databases.modal.token = databases.pendingDrop
PidAsked ==
  /\ DOMAIN sessions = SessionsFields
  /\ sessions.modal.kind = "confirm" =>
       sessions.modal =
         [kind |-> "confirm", op |-> sessions.pendingOp, pid |-> sessions.pendingPid]

AInv == Counted(pending) /\ QueryAsked /\ DropAskedOf /\ PidAsked

\* What the lexical rules must see, of every text that may be entered: what wipes a
\* table is critical, what is safe only reads, EXPLAIN of it only reads.
RulesSee ==
  \A q \in Sql : /\ {"first", "does", "planned"} \subseteq DOMAIN q
                 /\ Wipes(q) => Classify(q) = "Critical"
                 /\ Classify(q) = "Safe" => ~Writes(q)
                 /\ q.planned \in {"nothing", "reads"}

\* Whether a command may be started now.
TextConsent(c) ==
  c.kind \in {"query", "data"} /\ Writes(c.sql) =>
    /\ c.kind = "query" /\ query.mode = "confirm" /\ c.sql = query.pending
    /\ Wipes(c.sql) => readied = c.sql
Consent(c) ==
  /\ RulesSee => TextConsent(c)
  /\ c.kind = "exec" /\ c.op = "drop" =>
       databases.modal.kind = "drop" /\ c.db = databases.modal.token
  /\ c.kind = "session action" =>
       sessions.modal = [kind |-> "confirm", op |-> c.op, pid |-> c.pid]

StepConsents == Counted(pending') /\ \A c \in DOMAIN pending' : Starts(c) => Consent(c)
Consents == \E cs : Send(cs) /\ \A c \in cs : Consent(c)

LEMMA SendConsents == ASSUME AInv, Consents PROVE StepConsents
<1>1. PICK cs : Send(cs) /\ \A c \in cs : Consent(c)
  BY DEF Consents
<1>2. pending' = pending (+) SetToBag(cs)
  BY <1>1 DEF Send, Start
<1>3. ASSUME NEW c, Starts(c), c \notin cs PROVE FALSE
  BY <1>2, <1>3, JoinedCount, CopiesCount DEF AInv, Starts
<1>4. Counted(pending')
  BY <1>2, JoinedCount DEF AInv
<1> QED BY <1>1, <1>3, <1>4 DEF StepConsents

LEMMA ReplyConsents ==
  ASSUME AInv, NEW a, NEW cs, Reply(a, cs), \A c \in cs : Consent(c) PROVE StepConsents
<1>2. pending' = pending (+) SetToBag(cs)
  BY DEF Reply, Start
<1>3. ASSUME NEW c, Starts(c), c \notin cs PROVE FALSE
  BY <1>2, <1>3, JoinedCount, CopiesCount DEF AInv, Starts
<1>4. Counted(pending')
  BY <1>2, JoinedCount DEF AInv
<1> QED BY <1>3, <1>4 DEF StepConsents

\* Loads, timers, creations and settings need no consent.
LEMMA FreeCommands ==
  /\ Consent(LoadDatabases) /\ Consent(LoadSessions) /\ Consent(LoadLocks)
  /\ Consent(LoadDashboard) /\ Consent(Tick) /\ Consent(LoadTuning) /\ Consent(LoadAllSettings)
  /\ \A d : Consent(LoadTables(d)) /\ Consent(CreateDatabase(d))
  /\ \A d, t : Consent(DescribeTable(d, t))
  /\ \A n, v : Consent(ApplySetting(n, v))
BY DEF Consent, TextConsent, LoadDatabases, LoadSessions, LoadLocks, LoadDashboard, Tick, LoadTuning,
       LoadAllSettings, LoadTables, CreateDatabase, DescribeTable, ApplySetting

LEMMA SafeQuery ==
  ASSUME NEW d, NEW q, RulesSee => ~Writes(q) PROVE Consent(RunQuery(d, q))
BY DEF Consent, TextConsent, RunQuery
LEMMA SafeLoad ==
  ASSUME NEW d, NEW q, NEW n, RulesSee => ~Writes(q) PROVE Consent(LoadTableData(d, q, n))
BY DEF Consent, TextConsent, LoadTableData

----------------------------------------------------------------------------
(* Keys of the Query tab.                                                  *)

LEMMA QueryKeysConsent ==
  ASSUME AInv, QueryKeys PROVE Consents /\ QueryAsked'
<1> USE DEF AInv, QueryAsked, QueryFields, QueryBecomes
<1>0. Send({}) => Consents
  BY DEF Consents
<1>1. CASE FocusEditor
  BY <1>0, <1>1 DEF FocusEditor
<1>2. CASE LeaveEditor
  BY <1>0, <1>2 DEF LeaveEditor
<1>3. CASE TypeText
  BY <1>0, <1>3 DEF TypeText, Typable
<1>4. CASE Submit
  <2>1. CASE Classify(query.text) = "Safe"
    <3>1. Send({RunQuery(query.target, query.text)})
            /\ query' = Running([query EXCEPT !.err = FALSE]) /\ UNCHANGED readied
      BY <1>4, <2>1 DEF Submit
    <3>2. Consents
      BY <2>1, <3>1, SafeQuery DEF RulesSee, Consents
    <3>3. QueryAsked'
      BY <3>1 DEF Running
    <3> QED BY <3>2, <3>3
  <2>2. CASE Classify(query.text) # "Safe"
    <3>1. /\ Send({}) /\ UNCHANGED readied
          /\ query' = Asking([query EXCEPT !.err = FALSE], Classify(query.text))
      BY <1>4, <2>2 DEF Submit
    <3>2. QueryAsked'
      BY <3>1 DEF Asking
    <3> QED BY <1>0, <3>1, <3>2
  <2> QED BY <2>1, <2>2
<1>5. CASE Explain
  <2>1. Send({RunQuery(query.target, Explained(query.text))})
    BY <1>5 DEF Explain
  <2>2. RulesSee => ~Writes(Explained(query.text))
    BY DEF RulesSee, Explained, Writes
  <2>3. Consents
    BY <2>1, <2>2, SafeQuery DEF Consents
  <2>4. QueryAsked'
    BY <1>5 DEF Explain, Running
  <2> QED BY <2>3, <2>4
<1>6. CASE TypeAnswer
  <2>1. QueryAsked'
    BY <1>6 DEF TypeAnswer
  <2> QED BY <1>0, <1>6, <2>1 DEF TypeAnswer
<1>7. CASE ConfirmYes
  <2>1. /\ query.mode = "confirm" /\ (query.danger = "Critical" => query.typed)
        /\ Send({RunQuery(query.target, query.pending)})
    BY <1>7 DEF ConfirmYes
  <2>2. RulesSee => (Wipes(query.pending) => readied = query.pending)
    BY <2>1 DEF RulesSee
  <2>3. Consent(RunQuery(query.target, query.pending))
    BY <2>1, <2>2 DEF Consent, TextConsent, RunQuery
  <2>4. QueryAsked'
    BY <1>7 DEF ConfirmYes, Running
  <2> QED BY <2>1, <2>3, <2>4 DEF Consents
<1>8. CASE CancelPending
  BY <1>0, <1>8 DEF CancelPending
<1>9. CASE OpenTarget
  <2>1. QueryAsked'
    BY <1>9 DEF OpenTarget, Filtered
  <2> QED BY <1>9, <2>1, FreeCommands DEF OpenTarget, Consents
<1>10. CASE TypeFilter
  BY <1>0, <1>10 DEF TypeFilter, Filtered
<1>11. CASE MoveTarget
  BY <1>0, <1>11 DEF MoveTarget
<1>12. CASE PickTarget
  BY <1>0, <1>12 DEF PickTarget
<1>13. CASE CancelTarget
  BY <1>0, <1>13 DEF CancelTarget
<1> QED BY <1>1, <1>2, <1>3, <1>4, <1>5, <1>6, <1>7, <1>8, <1>9, <1>10, <1>11, <1>12, <1>13
        DEF QueryKeys

----------------------------------------------------------------------------
(* Keys of the other tabs.                                                 *)

LEMMA ListKeysConsent ==
  ASSUME AInv,
         \/ RefreshDatabases \/ MoveDatabase \/ EnterDatabase \/ OpenCreateDB \/ SubmitCreateDB
         \/ AskDropDB \/ DropDBYes \/ OpenFinder \/ PickFound \/ CancelModal \/ CloseAlert
  PROVE  Consents /\ DropAskedOf'
<1> USE DEF AInv, DropAskedOf, DatabasesFields, ViewBecomes
<1>0. Send({}) => Consents
  BY DEF Consents
<1>1. CASE RefreshDatabases
  BY <1>1, FreeCommands DEF RefreshDatabases, Reloading, Consents
<1>2. CASE MoveDatabase
  BY <1>0, <1>2 DEF MoveDatabase
<1>3. CASE EnterDatabase
  BY <1>3, FreeCommands DEF EnterDatabase, Reloading, Consents
<1>4. CASE OpenCreateDB
  BY <1>0, <1>4 DEF OpenCreateDB, Open
<1>5. CASE SubmitCreateDB
  BY <1>5, FreeCommands DEF SubmitCreateDB, Closed, NoModal, Consents
<1>6. CASE AskDropDB
  BY <1>0, <1>6 DEF AskDropDB
<1>7. CASE DropDBYes
  <2>1. databases.modal.kind = "drop" /\ Send({DropDatabase(databases.pendingDrop)})
    BY <1>7 DEF DropDBYes, ModalKey, DropAsked
  <2>2. Consent(DropDatabase(databases.pendingDrop))
    BY <2>1 DEF Consent, TextConsent, DropDatabase
  <2>3. DropAskedOf'
    BY <1>7 DEF DropDBYes, Closed, NoModal
  <2> QED BY <2>1, <2>2, <2>3 DEF Consents
<1>8. CASE OpenFinder
  BY <1>0, <1>8 DEF OpenFinder, Open
<1>9. CASE PickFound
  <2>1. PICK k : databases' \in {[Closed(databases) EXCEPT !.cursor = k],
                                [Closed(databases) EXCEPT !.row = k], Closed(databases)}
    BY <1>9 DEF PickFound
  <2>2. DOMAIN databases' = DatabasesFields /\ databases'.modal = NoModal
    BY <2>1 DEF Closed
  <2> QED BY <1>0, <1>9, <2>2 DEF PickFound, NoModal
<1>10. CASE CancelModal
  BY <1>0, <1>10 DEF CancelModal, Closed, NoModal
<1>11. CASE CloseAlert
  BY <1>0, <1>11 DEF CloseAlert
<1> QED BY <1>1, <1>2, <1>3, <1>4, <1>5, <1>6, <1>7, <1>8, <1>9, <1>10, <1>11

\* The data table loads the whole table, a search in it, or a safe text.
LEMMA LoadConsents ==
  ASSUME NEW b, NEW q, RulesSee => ~Writes(q), Load(b, q) PROVE Consents
BY SafeLoad DEF Load, Consents

LEMMA TableKeysConsent ==
  ASSUME AInv,
         \/ MoveTable \/ RefreshTables \/ LeaveTables \/ Describe \/ LeaveDescription
         \/ OpenTable \/ LeaveTable \/ ResetData \/ OpenSearch \/ SearchColumn
         \/ OpenQueryBar \/ RunQueryBar \/ LeaveField
  PROVE  Consents /\ DropAskedOf'
<1> USE DEF AInv, DropAskedOf, DatabasesFields, ViewBecomes, BrowserBecomes
<1>0. Send({}) => Consents
  BY DEF Consents
<1>a. \A t : ~Writes(SelectAll(t)) /\ ~Writes(SelectLike(t))
  BY DEF Writes, SelectAll, SelectLike, Reading
<1>1. CASE MoveTable
  BY <1>0, <1>1 DEF MoveTable
<1>2. CASE RefreshTables
  BY <1>2, FreeCommands DEF RefreshTables, Reloading, Consents
<1>3. CASE LeaveTables
  BY <1>0, <1>3 DEF LeaveTables
<1>4. CASE Describe
  BY <1>4, FreeCommands DEF Describe, Consents
<1>5. CASE LeaveDescription
  BY <1>0, <1>5 DEF LeaveDescription
<1>6. CASE OpenTable
  <2>1. Consents
    BY <1>6, <1>a, LoadConsents DEF OpenTable
  <2>2. DropAskedOf'
    BY <1>6 DEF OpenTable
  <2> QED BY <2>1, <2>2
<1>7. CASE LeaveTable
  BY <1>0, <1>7 DEF LeaveTable
<1>8. CASE ResetData
  BY <1>8, <1>a, LoadConsents DEF ResetData
<1>9. CASE SearchColumn
  <2>1. PICK q \in {SelectAll(browser.table), SelectLike(browser.table)} : Load(browser, q)
    BY <1>9 DEF SearchColumn
  <2>2. ~Writes(q)
    BY <1>a
  <2> QED BY <1>9, <2>1, <2>2, LoadConsents DEF SearchColumn
<1>10. CASE RunQueryBar
  <2>1. PICK q \in Sql : Classify(q) = "Safe" /\ Load(browser, q)
    BY <1>10 DEF RunQueryBar, Typable
  <2> QED BY <1>10, <2>1, LoadConsents DEF RulesSee, RunQueryBar
<1>11. CASE OpenSearch \/ OpenQueryBar \/ LeaveField
  BY <1>0, <1>11 DEF OpenSearch, OpenQueryBar, LeaveField
<1> QED BY <1>1, <1>2, <1>3, <1>4, <1>5, <1>6, <1>7, <1>8, <1>9, <1>10, <1>11

LEMMA MonitorKeysConsent ==
  ASSUME AInv, SessionsKeys \/ RefreshDashboard \/ RefreshLocks PROVE Consents /\ PidAsked'
<1> USE DEF AInv, PidAsked, SessionsFields, SessionsBecome
<1>0. Send({}) => Consents
  BY DEF Consents
<1>1. CASE RefreshSessions
  BY <1>1, FreeCommands DEF RefreshSessions, Consents
<1>2. CASE MoveSession
  BY <1>0, <1>2 DEF MoveSession
<1>3. CASE FindSession
  BY <1>0, <1>3 DEF FindSession
<1>4. CASE PickSession
  <2>1. PICK k : sessions' = [sessions EXCEPT !.modal = NoQuestion, !.cursor = k]
    BY <1>4 DEF PickSession
  <2>2. PidAsked'
    BY <2>1 DEF NoQuestion
  <2> QED BY <1>0, <1>4, <2>2 DEF PickSession
<1>5. CASE ConfirmOn
  <2>1. PICK op : sessions' =
          [sessions EXCEPT !.pendingOp = op, !.pendingPid = SelectedPid,
                           !.modal = [kind |-> "confirm", op |-> op, pid |-> SelectedPid]]
    BY <1>5 DEF ConfirmOn
  <2>2. PidAsked'
    BY <2>1
  <2> QED BY <1>0, <1>5, <2>2 DEF ConfirmOn
<1>6. CASE SessionYes
  <2>1. /\ sessions.modal.kind = "confirm"
        /\ Send({SessionAction(sessions.pendingOp, sessions.pendingPid)})
    BY <1>6 DEF SessionYes, SessionKey, AskedPid
  <2>2. Consent(SessionAction(sessions.pendingOp, sessions.pendingPid))
    BY <2>1 DEF Consent, TextConsent, SessionAction
  <2>3. PidAsked'
    BY <1>6 DEF SessionYes, NoQuestion
  <2> QED BY <2>1, <2>2, <2>3 DEF Consents
<1>7. CASE SessionNo
  BY <1>0, <1>7 DEF SessionNo, NoQuestion
<1>8. CASE CloseSessionAlert
  BY <1>0, <1>8 DEF CloseSessionAlert
<1>9. CASE RefreshDashboard \/ RefreshLocks
  <2>1. Consents
    BY <1>9, FreeCommands DEF RefreshDashboard, RefreshLocks, Consents
  <2>2. PidAsked'
    BY <1>9 DEF RefreshDashboard, RefreshLocks, monitorVars, WatchBecomes
  <2> QED BY <2>1, <2>2
<1> QED BY <1>1, <1>2, <1>3, <1>4, <1>5, <1>6, <1>7, <1>8, <1>9 DEF SessionsKeys

LEMMA SettingsKeysConsent == ASSUME SettingsKeys PROVE Consents
<1>0. Send({}) => Consents
  BY DEF Consents
<1>1. CASE RefreshTuning
  BY <1>1, FreeCommands DEF RefreshTuning, TuningLoads, Consents
<1>2. CASE SubmitSettingEdit \/ ResetSetting
  <2>1. PICK n, v : Send({ApplySetting(n, v)})
    BY <1>2 DEF SubmitSettingEdit, ResetSetting, Apply
  <2> QED BY <2>1, FreeCommands DEF Consents
<1>3. CASE OpenSettings \/ OpenAdvisor \/ MoveSetting \/ StartFilter \/ TypeNameFilter \/ LeaveFilter
  BY <1>0, <1>3 DEF OpenSettings, OpenAdvisor, MoveSetting, StartFilter, TypeNameFilter, LeaveFilter
<1>4. CASE OpenSettingEdit \/ CancelSettingEdit \/ CannotChange
  BY <1>0, <1>4 DEF OpenSettingEdit, CancelSettingEdit, CannotChange
<1> QED BY <1>1, <1>2, <1>3, <1>4 DEF SettingsKeys

----------------------------------------------------------------------------
(* Steps.                                                                  *)

Kept == StepConsents /\ QueryAsked' /\ DropAskedOf' /\ PidAsked'

LEMMA QuerySame == ASSUME QueryAsked, UNCHANGED queryVars PROVE QueryAsked'
BY DEF QueryAsked, queryVars
LEMMA DropSame == ASSUME DropAskedOf, UNCHANGED databasesVars PROVE DropAskedOf'
BY DEF DropAskedOf, databasesVars
LEMMA PidSame == ASSUME PidAsked, UNCHANGED monitorVars PROVE PidAsked'
BY DEF PidAsked, monitorVars

LEMMA KeysConsent ==
  ASSUME AInv, QueryTabKey \/ DatabasesTabKey \/ MonitorTabKey \/ SettingsTabKey
  PROVE  Kept
<1> USE DEF AInv
<1>1. CASE QueryTabKey
  BY <1>1, QueryKeysConsent, SendConsents, DropSame, PidSame DEF QueryTabKey, Kept
<1>2. CASE DatabasesTabKey
  <2>1. Consents /\ DropAskedOf'
    BY <1>2, ListKeysConsent, TableKeysConsent DEF DatabasesTabKey, DatabasesKeys
  <2> QED BY <1>2, <2>1, SendConsents, QuerySame, PidSame DEF DatabasesTabKey, Kept
<1>3. CASE MonitorTabKey
  BY <1>3, MonitorKeysConsent, SendConsents, QuerySame, DropSame DEF MonitorTabKey, Kept
<1>4. CASE SettingsTabKey
  BY <1>4, SettingsKeysConsent, SendConsents, QuerySame, DropSame, PidSame DEF SettingsTabKey, Kept
<1> QED BY <1>1, <1>2, <1>3, <1>4

LEMMA LoadsConsent == ASSUME NEW t \in TabNames PROVE \A c \in Loads(t) : Consent(c)
BY FreeCommands DEF Loads, TabNames, DashboardLoads, TuningLoads

LEMMA SwitchConsents == ASSUME AInv, SwitchTo PROVE Kept
<1>1. PICK t \in TabNames :
        /\ Send(Loads(t))
        /\ databases' = IF t = "databases" THEN Reloading(databases) ELSE databases
        /\ sessions' = IF t = "sessions" THEN [sessions EXCEPT !.loading = TRUE] ELSE sessions
  BY DEF SwitchTo
<1>2. StepConsents
  BY <1>1, LoadsConsent, SendConsents DEF Consents
<1>3. QueryAsked'
  BY QuerySame DEF SwitchTo, AInv
<1>4. DropAskedOf'
  BY <1>1 DEF AInv, DropAskedOf, DatabasesFields, Reloading
<1>5. PidAsked'
  BY <1>1 DEF AInv, PidAsked, SessionsFields
<1> QED BY <1>2, <1>3, <1>4, <1>5 DEF Kept

LEMMA AnswersConsent == ASSUME AInv, NEW a, Answer(a) PROVE Kept
<1> USE DEF AInv
<1>1. PICK cs : Reply(a, cs) /\ \A c \in cs : Consent(c)
  <2>1. \/ Reply(a, {}) \/ Reply(a, Reloads(a)) \/ Reply(a, {LoadSessions})
        \/ Reply(a, AfterTick) \/ Reply(a, AfterApply(a))
    BY DEF Answer, DatabasesAnswer, DatabasesTabAnswer, QueryTabAnswer, MonitorTabAnswer,
           SettingsTabAnswer
  <2>2. \A s \in {{}, Reloads(a), {LoadSessions}, AfterTick, AfterApply(a)} :
          \A c \in s : Consent(c)
    BY FreeCommands DEF Reloads, AfterTick, AfterApply
  <2> QED BY <2>1, <2>2
<1>2. StepConsents
  BY <1>1, ReplyConsents
<1>3. QueryAsked'
  <2>1. CASE QueryMsg(a)
    BY <2>1 DEF QueryMsg, QueryBecomes, QueryAsked, QueryFields
  <2>2. CASE DatabaseNames(a)
    BY <2>2 DEF DatabaseNames, QueryBecomes, Filtered, QueryAsked, QueryFields, queryVars
  <2>3. CASE UNCHANGED queryVars
    BY <2>3, QuerySame
  <2> QED BY <2>1, <2>2, <2>3 DEF Answer, DatabasesAnswer, DatabasesTabAnswer, QueryTabAnswer,
          MonitorTabAnswer, SettingsTabAnswer
<1>4. DropAskedOf'
  <2> USE DEF DropAskedOf, DatabasesFields, ViewBecomes, BrowserBecomes, databasesVars
  <2>1. CASE ListDatabases(a)
    BY <2>1 DEF ListDatabases
  <2>2. CASE TablesMsg(a)
    BY <2>2 DEF TablesMsg
  <2>3. CASE DescribeMsg(a) \/ ExecMsg(a)
    BY <2>3 DEF DescribeMsg, ExecMsg
  <2>4. CASE TableDataMsg(a)
    BY <2>4 DEF TableDataMsg
  <2>5. CASE UNCHANGED databasesVars
    BY <2>5
  <2> QED BY <2>1, <2>2, <2>3, <2>4, <2>5 DEF Answer, DatabasesAnswer, DatabasesTabAnswer,
          QueryTabAnswer, MonitorTabAnswer, SettingsTabAnswer
<1>5. PidAsked'
  <2> USE DEF PidAsked, SessionsFields, SessionsBecome, WatchBecomes, monitorVars
  <2>1. CASE SessionsMsg(a)
    BY <2>1 DEF SessionsMsg
  <2>2. CASE SessionActionMsg(a)
    BY <2>2 DEF SessionActionMsg
  <2>3. CASE DashboardMsg(a) \/ TickMsg(a) \/ LocksMsg(a)
    BY <2>3 DEF DashboardMsg, TickMsg, LocksMsg
  <2>4. CASE UNCHANGED monitorVars
    BY <2>4
  <2> QED BY <2>1, <2>2, <2>3, <2>4 DEF Answer, DatabasesAnswer, DatabasesTabAnswer,
          QueryTabAnswer, MonitorTabAnswer, SettingsTabAnswer
<1> QED BY <1>2, <1>3, <1>4, <1>5 DEF Kept

\* A command that runs starts none, but for the second step of a setting.
LEMMA CommandConsents == ASSUME IInv, AInv, CommandStep PROVE Kept
<1>1. QueryAsked' /\ DropAskedOf' /\ PidAsked'
  BY QuerySame, DropSame, PidSame DEF CommandStep, AInv
<1>2. ASSUME NEW c, pending' = BagRemove(pending, c) PROVE StepConsents
  <2>1. Counted(pending')
    BY <1>2, RemovedCount DEF AInv
  <2>2. ASSUME NEW d, Starts(d) PROVE FALSE
    BY <1>2, <2>1, <2>2, RemovedCount, CopiesCount DEF AInv, Starts
  <2> QED BY <2>1, <2>2 DEF StepConsents
<1>3. ASSUME NEW c \in DOMAIN pending, AlterSystem(c) PROVE StepConsents
  <2> DEFINE r == [c EXCEPT !.step = "reload"]
             less == BagRemove(pending, c)
  <2>1. "kind" \in DOMAIN c /\ c.kind = "setting"
    BY <1>3 DEF AlterSystem, IInv, PendingOK, CurrentLoad
  <2>2. r.kind = "setting"
    BY <2>1
  <2>3. pending' = BagAdd(less, r)
    BY <1>3, Zenon DEF AlterSystem
  <2>4. Counted(less) /\ \A d : Copies(d, less) <= Copies(d, pending)
    BY RemovedCount DEF AInv
  <2> HIDE DEF r, less
  <2>5. Counted(pending') /\ \A d : d # r => Copies(d, pending') = Copies(d, less)
    BY <2>3, <2>4, AddedCount
  <2>6. ASSUME NEW d, Starts(d) PROVE d = r
    BY <2>4, <2>5, <2>6, CopiesCount DEF AInv, Starts
  <2>7. \A d : d = r => Consent(d)
    BY <2>2 DEF Consent, TextConsent
  <2> QED BY <2>5, <2>6, <2>7 DEF StepConsents
<1>4. ASSUME ReadConfig \/ SomebodyElse PROVE StepConsents
  <2>1. pending' = pending
    BY <1>4 DEF ReadConfig, SomebodyElse, commands
  <2> QED BY <2>1, CopiesCount DEF StepConsents, Starts, AInv
<1>5. ASSUME NEW c, RunCommand(c) \/ RefuseCommand(c) \/ FailCommand(c)
      PROVE  pending' = BagRemove(pending, c)
  BY <1>5 DEF RunCommand, RefuseCommand, FailCommand, Done
<1> QED BY <1>1, <1>2, <1>3, <1>4, <1>5 DEF CommandStep, Kept

----------------------------------------------------------------------------

LEMMA InitAsked == ASSUME Init, Empty \in Sql PROVE AInv
<1>1. Counted(pending)
  BY DEF Init, SetToBag, Counted
<1>2. QueryAsked
  BY DEF Init, QueryInit, QueryAsked, QueryFields
<1>3. DropAskedOf
  BY DEF Init, DatabasesInit, DropAskedOf, DatabasesFields, NoModal
<1>4. PidAsked
  BY DEF Init, MonitorInit, PidAsked, SessionsFields, NoQuestion
<1> QED BY <1>1, <1>2, <1>3, <1>4 DEF AInv

LEMMA StepKept == ASSUME IInv, AInv, [Next]_vars PROVE Kept
<1>1. CASE UNCHANGED vars
  <2>1. UNCHANGED <<pending, queryVars, databasesVars, monitorVars>>
    BY <1>1 DEF vars, commands
  <2> QED BY <2>1, QuerySame, DropSame, PidSame, CopiesCount DEF Kept, StepConsents, Starts, AInv
<1> QED BY <1>1, KeysConsent, SwitchConsents, AnswersConsent, CommandConsents DEF Next

LEMMA KeptMeans == ASSUME Kept PROVE AInv'
BY DEF Kept, StepConsents, AInv

LEMMA BothHold == Spec => [](IInv /\ AInv)
<1>1. Init => IInv /\ AInv
  BY InitHolds, InitAsked, CommandConstants
<1>2. IInv /\ AInv /\ [Next]_vars => IInv' /\ AInv'
  BY NextKeeps, StepKept, KeptMeans
<1> QED BY <1>1, <1>2, PTL DEF Spec

\* Text that writes runs after its confirmation only, what wipes a table after yes
\* was typed for that text, whatever answers took the focus in between, if the
\* lexical rules see what the texts do (query.go submit, explain, handleConfirmKey;
\* datatable.go handleQueryKey).
THEOREM WritesWereConfirmed == ASSUME RulesSee PROVE Spec => ConfirmedWrites
<1>1. ASSUME IInv, AInv, [Next]_vars
      PROVE  \A c \in DOMAIN pending' :
               c.kind \in {"query", "data"} /\ Starts(c) /\ Writes(c.sql) =>
                 /\ c.kind = "query" /\ query.mode = "confirm" /\ c.sql = query.pending
                 /\ Wipes(c.sql) => readied = c.sql
  BY RulesSee, <1>1, StepKept DEF Kept, StepConsents, Consent, TextConsent
<1> QED BY <1>1, BothHold, PTL DEF Spec, ConfirmedWrites

\* What is dropped, cancelled or terminated is what the open question names, whatever
\* lists arrived under it (databases.go pendingDropDB, sessions.go pendingPID).
THEOREM NamedIsMeant == Spec => ActsOnWhatIsNamed
<1>1. ASSUME IInv, AInv, [Next]_vars
      PROVE  \A c \in DOMAIN pending' : Starts(c) =>
               /\ c.kind = "exec" /\ c.op = "drop" =>
                    databases.modal.kind = "drop" /\ c.db = databases.modal.token
               /\ c.kind = "session action" =>
                    sessions.modal = [kind |-> "confirm", op |-> c.op, pid |-> c.pid]
  BY <1>1, StepKept DEF Kept, StepConsents, Consent
<1> QED BY <1>1, BothHold, PTL DEF Spec, ActsOnWhatIsNamed
=============================================================================
