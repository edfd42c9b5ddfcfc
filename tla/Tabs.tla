-------------------------------- MODULE Tabs --------------------------------
(***************************************************************************)
(* The tabs of a session together: keys go to the tab on the screen, the   *)
(* answers of commands to every tab, and a tab that is opened reads its    *)
(* data again (Model.Update, handleKey and switchTo in ui/model.go).       *)
(***************************************************************************)
EXTENDS QueryTab, DatabasesTab, MonitorTabs, SettingsTab

VARIABLE active      \* the tab on the screen

vars == <<world, commands, queryVars, databasesVars, monitorVars, settingsVars, active>>

TabNames == {"dashboard", "databases", "query", "locks", "sessions", "tuning"}

\* The commands that opening a tab starts.
Loads(t) ==
  CASE t = "dashboard" -> DashboardLoads(watch)
    [] t = "databases" -> {LoadDatabases}
    [] t = "locks" -> {LoadLocks}
    [] t = "sessions" -> {LoadSessions}
    [] t = "tuning" -> TuningLoads
    [] t = "query" -> {}

Captured ==
  CASE active = "query" -> QueryCapturing
    [] active = "databases" -> DatabasesCapturing
    [] active = "sessions" -> SessionsCapturing
    [] active = "tuning" -> SettingsCapturing
    [] OTHER -> FALSE

SwitchTo ==
  /\ ~Captured
  /\ \E t \in (TabNames \intersect job) \ {active} :
       /\ active' = t /\ Send(Loads(t))
       /\ databases' = IF t = "databases" THEN Reloading(databases) ELSE databases
       /\ sessions' = IF t = "sessions" THEN [sessions EXCEPT !.loading = TRUE] ELSE sessions
       /\ watch' = IF t = "dashboard" THEN [watch EXCEPT !.started = TRUE]
                   ELSE IF t = "locks" THEN [watch EXCEPT !.loading = TRUE] ELSE watch
       /\ settings' = IF t = "tuning" THEN [settings EXCEPT !.advErr = FALSE, !.setErr = FALSE]
                      ELSE settings
  /\ UNCHANGED <<world, queryVars, browser, tangled>>

QueryTabKey == active = "query" /\ QueryKeys /\ UNCHANGED <<active, databasesVars, monitorVars, settingsVars>>
DatabasesTabKey ==
  active = "databases" /\ DatabasesKeys /\ UNCHANGED <<active, queryVars, monitorVars, settingsVars>>
MonitorTabKey ==
  /\ \/ active = "sessions" /\ SessionsKeys
     \/ active = "dashboard" /\ RefreshDashboard
     \/ active = "locks" /\ RefreshLocks
  /\ UNCHANGED <<active, queryVars, databasesVars, settingsVars>>
SettingsTabKey ==
  /\ active = "tuning" /\ SettingsKeys
  /\ UNCHANGED <<active, queryVars, databasesVars, monitorVars>>

----------------------------------------------------------------------------
(* Answers go to every tab, which takes what it knows.                     *)

Answered(kind, a) == a.cmd.kind = kind /\ UNCHANGED <<world, active>>

DatabasesAnswer(a) ==
  /\ Answered("databases", a) /\ ListDatabases(a) /\ DatabaseNames(a)
  /\ Reply(a, {}) /\ UNCHANGED <<monitorVars, settingsVars>>
DatabasesTabAnswer(a) ==
  /\ \/ Answered("tables", a) /\ TablesMsg(a) /\ Reply(a, {})
     \/ Answered("describe", a) /\ DescribeMsg(a) /\ Reply(a, {})
     \/ Answered("data", a) /\ TableDataMsg(a) /\ Reply(a, {})
     \/ Answered("exec", a) /\ ExecMsg(a) /\ Reply(a, Reloads(a))
  /\ UNCHANGED <<queryVars, monitorVars, settingsVars>>
QueryTabAnswer(a) ==
  /\ Answered("query", a) /\ QueryMsg(a) /\ Reply(a, {})
  /\ UNCHANGED <<databasesVars, monitorVars, settingsVars>>
MonitorTabAnswer(a) ==
  /\ \/ Answered("sessions", a) /\ SessionsMsg(a) /\ Reply(a, {})
     \/ Answered("session action", a) /\ SessionActionMsg(a) /\ Reply(a, {LoadSessions})
     \/ Answered("dashboard", a) /\ DashboardMsg(a) /\ Reply(a, {})
     \/ Answered("tick", a) /\ TickMsg(a) /\ Reply(a, AfterTick)
     \/ Answered("locks", a) /\ LocksMsg(a) /\ Reply(a, {})
  /\ UNCHANGED <<queryVars, databasesVars, settingsVars>>
SettingsTabAnswer(a) ==
  /\ \/ Answered("tuning", a) /\ TuningMsg(a) /\ Reply(a, {})
     \/ Answered("settings", a) /\ AllSettingsMsg(a) /\ Reply(a, {})
     \/ Answered("setting", a) /\ SettingApplyMsg(a) /\ Reply(a, AfterApply(a))
  /\ UNCHANGED <<queryVars, databasesVars, monitorVars>>

Answer(a) ==
  \/ DatabasesAnswer(a) \/ DatabasesTabAnswer(a) \/ QueryTabAnswer(a) \/ MonitorTabAnswer(a)
  \/ SettingsTabAnswer(a)

CommandStep ==
  /\ \/ \E c \in DOMAIN pending : RunCommand(c) \/ AlterSystem(c) \/ RefuseCommand(c) \/ FailCommand(c)
     \/ ReadConfig \/ SomebodyElse
  /\ UNCHANGED <<queryVars, databasesVars, monitorVars, settingsVars, active>>

----------------------------------------------------------------------------

\* A session that has just been connected: every tab was opened once.
Init ==
  /\ CommandsInit /\ QueryInit /\ DatabasesInit /\ MonitorInit /\ SettingsInit
  /\ active \in TabNames \intersect job
  /\ answers = EmptyBag
  /\ pending = SetToBag(
       UNION {IF t = "dashboard" THEN {LoadDashboard, Tick} ELSE Loads(t) : t \in TabNames \intersect job})

Next ==
  \/ SwitchTo \/ QueryTabKey \/ DatabasesTabKey \/ MonitorTabKey \/ SettingsTabKey
  \/ CommandStep
  \/ \E a \in DOMAIN answers : Answer(a)

Spec == Init /\ [][Next]_vars

----------------------------------------------------------------------------
(* Properties.                                                             *)

\* The types of all that is kept; a cursor is on a row of its list or nowhere,
\* whatever list arrived under it (databases.go databasesMsg, sessions.go sessionsMsg).
TypeOK ==
  /\ server.dbs \in SUBSET Databases /\ server.pids \in SUBSET Pids
  /\ IsABag(pending) /\ IsABag(answers)
  /\ query \in QueryViews /\ readied \in Sql
  /\ databases.list \in Seq(Databases) /\ databases.tables \in Seq(Places)
  /\ databases.list # <<>> => databases.cursor \in 0 .. Len(databases.list)
  /\ databases.tables # <<>> => databases.row \in 0 .. Len(databases.tables)
  /\ browser.token \in 0 .. MaxLoads
  /\ sessions.list \in Seq(Pids)
  /\ sessions.list # <<>> => sessions.cursor \in 0 .. Len(sessions.list)
  /\ server.file \in [Gucs -> Values] /\ server.live \in [Gucs -> Values]
  /\ settings.list \in Seq(Gucs) /\ settings.form \in Gucs \union {NoForm}
  /\ Listed(settings) # <<>> => settings.cursor \in 0 .. Len(Listed(settings))
  /\ active \in TabNames

\* Text runs on the server only after the confirmation its effect asks for: what
\* writes was shown in the Query tab and confirmed, what wipes a table had yes
\* typed for that very text, even when a result of another run took the focus in
\* between.  The data table, which never asks, only reads (query.go submit,
\* explain, handleConfirmKey; datatable.go handleQueryKey).
Starts(c) == Copies(c, pending') > Copies(c, pending)
ConfirmedWrites ==
  [][\A c \in DOMAIN pending' :
       c.kind \in {"query", "data"} /\ Starts(c) /\ Writes(c.sql) =>
         /\ c.kind = "query" /\ query.mode = "confirm" /\ c.sql = query.pending
         /\ Wipes(c.sql) => readied = c.sql]_vars

\* What stands on the screen is what was asked for last: the tables are of the
\* database that was entered; whenever a cell may be copied, the rows are of the
\* table in the title and of the text in the bar, whatever answers were late
\* (databases.go tablesMsg, datatable.go tableDataMsg and y).
ShownIsAskedFor ==
  /\ \A k \in DOMAIN databases.tables : databases.tables[k].db = databases.selected
  /\ Copyable(browser) => browser.grid = [db |-> browser.db, sql |-> browser.sql]

\* What the screen says of work is true.  A spinner has a command behind it that
\* will stop it; the Dashboard that was started has exactly one timer however often
\* it is opened again: the screen neither hangs nor polls the server more and more.
\* A setting called applied has that value on the server, which runs with it or was
\* told to, or the line says that it takes a restart, unless the last two changes of
\* that setting overlapped (databases.go, datatable.go, sessions.go, locks.go Init
\* and Update; dashboard.go started; tuning.go settingApplyMsg, applySetting).
Applied(t) ==
  /\ server.file[t.name] = t.value
  /\ t.restart \/ server.signalled \/ server.live[t.name] = t.value
BeingSet(n) == \E c \in UnderwayNow : c.kind = "setting" /\ c.name = n
WorkIsTold ==
  /\ query.running => \E c \in UnderwayNow : c.kind = "query"
  /\ databases.loading =>
       Underway(LoadDatabases) \/ Underway(LoadTables(databases.selected))
  /\ databases.describing => \E c \in UnderwayNow : c.kind = "describe"
  /\ browser.loading => \E c \in UnderwayNow : c.kind = "data" /\ c.token = browser.token
  /\ sessions.loading => Underway(LoadSessions)
  /\ watch.loading => Underway(LoadLocks)
  /\ watch.started => Timers(pending, answers) = 1
  /\ settings.status.kind = "applied" =>
       \/ Applied(settings.status)
       \/ settings.status.name \in tangled \/ BeingSet(settings.status.name)

\* What is dropped, cancelled or terminated is what the confirmation names, though
\* lists that arrive while it is open move other rows under the cursor (databases.go
\* pendingDropDB, sessions.go pendingPID).
ActsOnWhatIsNamed ==
  [][\A c \in DOMAIN pending' : Starts(c) =>
       /\ c.kind = "exec" /\ c.op = "drop" =>
            databases.modal.kind = "drop" /\ c.db = databases.modal.token
       /\ c.kind = "session action" =>
            sessions.modal = [kind |-> "confirm", op |-> c.op, pid |-> c.pid]]_vars
=============================================================================
