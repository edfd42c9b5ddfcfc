# pgtower, specified

TLA+ modules that model pgtower (a terminal dashboard for PostgreSQL written in
Go with Bubble Tea), TLC configurations that check them on small instances, and
TLAPS proofs about them.  Paths below are relative to the repository; `ui/`,
`db/`, `config/` and `update/` stand for `src/internal/ui/` and so on.

## The system

pgtower is one process.  Bubble Tea calls `Model.Update` with one message at a
time: a key, a window size, or the result of a command.  Commands run in
goroutines of their own and talk to PostgreSQL; their results come back in any
order.  `Update` never blocks, so everything slow is a command, and every result
may describe a world that is gone.

| Part | Source | State it keeps | Operations |
|---|---|---|---|
| Root model | `ui/model.go`, `alert.go`, `confirm.go`, `menu.go`, `help.go` | live session, connect attempt, overlays, queue of notices | `Update`, `handleKey`, `connect`, `handleConnected`, `cancelConnect`, `notify`, `flushNotices` |
| Session | `ui/session.go` | manager, tabs, generation | `scope` tags the results, `close` in the background |
| Servers screen | `ui/servers.go`, `form.go` | cursor, form, deletion asked, probes | connect, add, edit, delete, default, probe |
| Server list | `config/config.go` | connections, default, environment's connection | `Initial`, `Resolve`, `Upsert`, `Remove`, `Save` |
| Update prompt | `ui/update_prompt.go` | menu, "Updating", result alert | check, install, never ask again |
| Connection pools | `db/db.go` | a pool per database under a mutex | `Pool`, `Close`, `NewManager` |
| pg_hba editor | `ui/tuning.go`, `ui/commands.go`, `db/hba.go` | content and rules read, the pending content | load, add, edit, delete, `ApplyHBAContent` |
| Settings, advisor | `ui/tuning.go`, `db/settings.go` | settings read, value typed | ALTER SYSTEM and reload, recommendations |
| Query tab | `ui/query.go`, `db/safety.go` | mode, statement, target, result | classify, confirm, run, explain |
| Databases tab, data table | `ui/databases.go`, `datatable.go`, `finder.go`, `grid.go` | level, current database and table, page token, pending drop | browse, describe, create, drop, find |
| Roles tab | `ui/roles.go`, `db/admin.go` | role, attributes, grant flow, password entry | create, alter, grant, forced drop |
| Sessions and Locks tabs | `ui/sessions.go`, `locks.go`, `db/sessions.go` | rows, captured pid | cancel, terminate |
| Dashboard | `ui/dashboard.go`, `db/queries.go`, `connections.go` | last samples, tick | refresh, verdicts |
| Configuration files | `config/migrate.go`, `location.go`, `legacy.go` | config.yml, .env, backups | import, save, relocate |
| Self-update, rename | `update/update.go`, `rename.go` | the executable, its temporary file, a symlink | check, download, replace, adopt the name |
| Text and cryptography | `db/connerr.go`, `password.go`, `scram.go`, `socket.go`, `idents.go`, `ui/styles.go`, `sanitize.go`, `clipboard.go`, `debug.go` | none | pure functions, rendering |

How they interact:

- the root model owns the session and the overlays; it wraps every command of a
  tab with `scope`, so that its result carries the session's generation, and
  drops a result of another generation (`ui/model.go:171`);
- every command of a session asks the session's `db.Manager` for a pool, and the
  background `Close` of a superseded session closes the pools under them;
- the Servers screen edits the store the root model holds and saves it to
  `config.yml`, and asks the root model to connect;
- an answer that writes (an `execMsg`) goes to every tab, a load only to the
  fields it fills;
- the program starts with the rename, the load and migration of the
  configuration, and the choice of the first server (`src/main.go`).

What is hard in it: answers that arrive after what they were asked for has
changed (superseded connects, previous sessions, deleted servers, content
already rewritten); overlays opened by messages over overlays opened by keys;
mutex, pools and the wait of `Close`; multi-statement changes of a server that
fail half-way; files replaced while the process may die.

What makes each part correct:

- **root model, session**: one manager in use, no data of another session, a
  switch only to the server last asked for and never under the user's hands, every spinner
  backed by work in progress, a way on from every state without a session,
  keys for the overlay that is drawn, no notice lost;
- **Servers screen, store**: the cursor on a row that exists, the default names
  a server, no two servers of one name, a failed save is told;
- **pools**: what the map hands out works, a query goes to the database of its
  step, no pool is left open without an owner, `Close` and the commands end;
- **pg_hba**: a change that fails, for its content or for a statement after the write,
  is undone; a success is in use; the old file is never lost before that; a change
  changes the chosen rule only, and nobody is locked out;
- **configuration files**: whatever a start does, and wherever it stops, no
  server is lost and the next start shows the same ones; no second import; files
  that are not this user's stay as they are;
- **self-update, rename**: there is always a program to start;
- **Query tab**: text that writes runs only after the confirmation its effect asks
  for, whatever answers came between; a spinner has a query behind it;
- **Databases tab, data table**: what is shown, and above all what may be copied,
  was read where the title says; what is dropped is what was named;
- **Roles tab**: a command does what was confirmed to the role that was named; a
  revoke leaves nothing; a forced drop keeps the data; a report leaves nothing out;
  a new password is the one on screen;
- **Sessions, Locks, Dashboard**: the backend terminated is the one named; one
  timer, never none, never two;
- **Settings**: what the status line calls applied is what the server runs with, was
  told to run with, or will after the restart the line mentions.

## Modules

### ConnectionSlot — the promise

The abstract specification of connecting: requests have numbers, at most one
manager is live, at most one request is awaited; the live manager is replaced
only by the awaited request's, and a manager is released only when it is
neither.  It knows nothing of dials, messages, screens or generations.

### ServerStore — `config.Store`

The operations of the server list as operators on a record: the saved
connections in order, the default, whether the environment gives one.  A
connection is a name and its settings; `Resolvable` says whether the settings
give a usable target.  `Saved` is what `Save` writes: a reserved name is not one
of the saved ones.

### Shell — the root model, the session, the Servers screen, the update prompt

| Variables | Code |
|---|---|
| `sess`, `gen`, `attempt`, `connecting` | `Model.sess`, `.gen`, `.attempt`, `.connecting` |
| `conn[a]` | attempt `a`: its goroutine (`dialing`), its `connectedMsg` (`up`, `err`), then its manager (`live`, `closing`, `closed`) |
| `results`, `shown` | `scopedMsg` values on their way; the managers whose data the tabs hold |
| `up`, `notices`, `sized` | which overlays are active; the queue; whether a window size came |
| `check`, `install` | the goroutines of the update prompt |
| `store`, `disk`, `told`, `unsavedErr` | `Model.store`, config.yml, and whether a failed save was reported |
| `cursor`, `editing`, `probes`, `probing` | `serversModal` |

One action is one call of `Update` or one step of a goroutine: `DialOK`,
`DialFails`, `SwitchSession`, `ConnectFailed`, `DropSuperseded` (the three
outcomes of `handleConnected`), `ApplyResult`, `DropStaleResult`, `WindowSize`,
the keys of every overlay, and the messages of the update prompt and the
probes.  `KeyOrder` and `DrawOrder` are the two priority lists of the code,
`handleKey`'s and `view`'s: `Owner` is who has the keys and
`Drawn` what is on screen.  `Notify` and `Flush` are `notify` and
`flushNotices`, `Connect` is `connect` with its early return for a connection
that does not resolve.

The tab under the overlays is a source of results and nothing more; a tab that
captures text takes some keys for itself, so these keys may or may not act.

### PoolManager — `db.Manager` and the commands that use it

A command follows a plan: ask for the pool of a database, run a query, go on.
`Manager.Pool` is split where it gives the mutex back: `PoolFound` or
`PoolMissing` under the mutex, `PoolOpened`, `OpenFails`, `PingAnswers`,
`PingFails` without it, `Insert` under it again.  `Manager.Close` keeps the
mutex from `CloseBegins` to `CloseEnds` while each pool waits for the
connections in use (`ClosePool`, `PoolDrained`).  `NewManager` is the initial
state.

### HbaEditor — pg_hba.conf

A file is a sequence of lines; a line is a comment, has an error, admits the
administrator, refuses the administrator, or is about somebody else.  The view's keys
(`OpenAdd`, `OpenEdit`, `AskDelete`, `SubmitForm`, `Confirm`, ...), `loadHBA`
(`ReadContent`, `ReadRules`, `HbaMsg`) and `ApplyHBAContent` statement by
statement (`ReadOld`, `WriteBackup`, `WriteNew`, `CheckRules`, `Reload`,
`VerifyLogin`, and the rollback `RestoreOld`, `ReloadOld`), each of which may
fail.  A failed write leaves the old file, an empty one or the new one, since
the shell behind COPY TO PROGRAM truncates before it writes.

Nothing keeps a second change from being confirmed while the first one runs
(`ui/tuning.go:205`), so two of them may interleave statement by statement.  Three
history variables let the properties say which changes they speak of: `mixed` are
those that ran while another one did, `torn` those whose write of pg_hba.conf or whose
way back failed, and `apply[a].was` is the file and the rules in use at the
confirmation.  No guard reads them.

### ConfigFiles — `config.Load` and `Store.Save`

| Variables | Code |
|---|---|
| `fs` | pgtower's and pgtui's directories: `config.yml`, `config.yaml`, `.env` (each a format, its servers, whose it is) and the backups |
| `step`, `pair`, `left` | where `Load` is: the pair of `relocateDirs`, the entries `mergeDir` has still to move |
| `path`, `servers`, `skipped` | `Store.Path`, `.Connections`, `.Skipped` |
| `raw`, `retire` | the file of format 1 being upgraded, the directory whose .env was imported |
| `failed`, `had`, `settled` | history, for the properties |

One action is one change of the file system: `MovePair`, `MergeEntry`,
`MergeEnds` (`relocateDirs`, `mergeDir`), `FindFile` (`findConfigFile` and the
reading part of `parseAndMigrate` and `importLegacyDotenv`), `BackUp`,
`WriteUpgrade`, `RetireEnv` (`commitMigration`), `Relocate` and
`RenameOriginal` (`relocateConfig`), `Save`.  Each may fail, and then goes where
the code goes; `ProcessEnds` may come after any of them.  `Shown(fs)` is not a
step of the code: it is the list that a start without failures arrives at, as a
function of the files, for the properties to compare with.

### Executable — `AdoptName` and `SelfUpdate`

The two names in the directory of the installation (`tower`, `tui`), the two
temporary files, and where the process is.  `MakeAlias`, `SwapAlias`,
`RenameExe`, `LinkOld` are `AdoptName`; `OpenTemp`, `Download`, `Verify`,
`Install` are `SelfUpdate`; `Stops` may come after any of them.  A checksum that
could not be fetched is passed over, as in the code, and remembered in
`unchecked`: the promise is about updates that found theirs.

### Startup — `main`

Composes the two: the program starts, adopts its name, then loads; saves and
updates come after.  An end of the process ends both.

### RoleServer — roles, objects, privileges; the lists of `db/admin.go`

The server as the Roles tab changes it: roles with attributes and a password, the
owner of every database and object, privileges on objects (`acl`), and what is held
on a database, on its schema and by default (`held`).  `Accepts` and `After` are
PostgreSQL's part, with the dependencies that make DROP ROLE fail, and external.
`BuildGrant`, `BuildRevoke`, `BuildAlterRoleAttrs` and `Escalates` are the code's:
lists of statements with the database they run in.  The three presets on a schema
differ in the privileges they name only; one stands for them.

### RolesTab — `ui/roles.go`, `execStatements`, `ForceDropRole`, `RoleAccess`

| Variables | Code |
|---|---|
| `roles`, `dbNames`, `cursor` | `rolesView.roles`, `.dbNames`, the cursor of `tbl` |
| `asked`, `lists` | `loadRoles` under way; its `rolesMsg` on the way |
| `modal`, `alert` | menu, form, confirm, finder or grant flow; the alert over it, with the pending fields as the modal's own |
| `pendingPwdRole`, `newPassword` | the same fields, which outlive their modal |
| `cmds` | each command with its statements still to run |
| `kept`, `revoked`, `mixed`, `unread` | history, for the properties |

A key is one action.  A command is run statement by statement: `RunStatement` for
`execStatements`, which stops at the first error; `DatabasesOwnedBy`, `AlterOwner`,
`ConnectableDatabases`, `VisitDatabase`, `ReassignOwned`, `DropWhatIsOwned`,
`DropTheRole` for `ForceDropRole`, which leaves a database where REASSIGN failed
and goes on; `ReadLevels`, `ReadSchema` and `ReadTables` for `RoleAccess`.  A statement may be
done and its answer not come.  Between any two of them another administrator alters
a role (`OtherAlters`), an application creates an object (`OtherCreates`), or
another tab's answer reaches this one (`OtherExecMsg`).

### Statements — `db/safety.go`

A text is what the lexical rules look at (the class of its first word, whether WHERE
occurs, whether a word that changes rows stands between spaces) and what running
it, or EXPLAIN before it, does.  `Classify` is the code's; what a text does is
chosen by the configuration.

### TabCommands — the commands of the other tabs and their answers

`pending` is the bag of commands that run, `answers` the bag of messages on the
way; `server` has the databases, the backends and the settings: what is written to
the file of ALTER SYSTEM, whether a reload was signalled, what the server runs with.
`RunCommand`, `RefuseCommand` and `FailCommand` are what may become of a command;
answers are handled in any order.  The command of a setting has two steps,
`AlterSystem` and then the reload, and the server reads its file later
(`ReadConfig`), without the settings that wait for a restart.  `CursorIn` is what `table.SetRows` with the views' clamping leaves of a
cursor.

### QueryTab, DatabasesTab, MonitorTabs, SettingsTab

| Variables | Code |
|---|---|
| `query` | `queryView`: mode, editor, `pending`, danger, target, the selector |
| `readied` | history: the text that `yes` was typed for |
| `databases` | `databasesView`: both lists and their cursors, `selected`, `pendingDropDB`, the modal |
| `browser` | `dataTable` with its grid: `token`, the text of the bar, and where the rows on it were read |
| `sessions`, `watch` | `sessionsView` with `pendingPID`; `dashboardView.started`, `locksView.loading` |
| `settings` | `tuningView`: its section, `setList`, `setView`, `setFilter`, `setForm`, `setEdit`, `setStatus`, the errors of its two loads |
| `tangled` | history: the settings whose last change overlapped the one before |

One action per key and per message; a list or a grid remembers where it was read, so
that the properties can compare it with the title.

### Tabs — the tabs together

Keys go to the tab on the screen, unless it captures them `SwitchTo` opens another
one with its loads, and the answer of a command goes to every tab that knows it (a list of
databases to the Databases tab and to the selector of the Query tab).  What the
generation drops is `Shell`'s: a behaviour of `Tabs` is one session.

### Lists

The loop that copies some elements of a slice, which several parts of the code
have, as `Only(s, K)`.  It takes a set where `SelectSeq` takes an operator, so that
one pair of theorems serves every module that deletes from a list.

### Definitions that begin "As if"

These are not part of the model: each is a definition of the model with a
plausible slip in it, and stands before the one it varies.  Replacing one by the
other must make a property fail; `PROJECT.json` lists the pairs.

## Runs

| Run | Checks | Shows |
|---|---|---|
| `ShellConnect` | `NoForeignData`, `OneLiveManager`, `NeverStranded`, `SwitchOnlyWhenAsked`, `SlotSpec`, `AttemptSettles`, `ManagersReleased` | three attempts over two servers and the environment's in every order: superseded, given up, failed, switched to |
| `ShellScreens` | `TypeOK`, `NoticesMoveOn`, `SpinnersBacked`, `KeysFollowScreen`, `ListConsistent` | every overlay over every other one; two edits, deletions, defaults or probes, with failed saves, over lists of zero to two servers |
| `Pools` | `TypeOK`, `MapHoldsOpenPools`, `RightDatabase`, `NoOtherLeak`, `EverybodyEnds` | a load and a forced drop that meet on a new database while the manager closes |
| `Hba` | `TypeOK`, `NeverLockedOut`, `RefusedIsUndone`, `OldFileKept`, `SuccessIsInUse`, `ApplyAnswered` | two changes, in sequence or overlapping; statements that fail at every place, the way back included. Only `ApplyAnswered` and the types speak of changes that overlap |
| `Startup` | `TypeOK`, `NothingLost`, `ShownIsSaved`, `NamesRun`, `SameServers`, `SecondRunQuiet` | twelve installs an earlier version or an administrator may have left; starts that stop, and changes that fail, at every step, any number of times |
| `Roles` | `TypeOK`, `RevokedIsGone`, `ReportIsWhole`, `RunsAsConfirmed`, `OwnedSurvives`, `PasswordWorks` | pairs of the tab's operations overlapping, with a statement that fails and somebody else at work |
| `Tabs` | `TypeOK`, `ShownIsAskedFor`, `WorkIsTold`, `ConfirmedWrites`, `ActsOnWhatIsNamed` | the other tabs with late, failed and reordered answers, lists that change under a question, and text of every class |
| `HbaStale` | `OneRuleChanges` | violated: see Findings |
| `StartupLocked` | `LockedStays` | violated |
| `RolesPassword` | `PasswordReachesUser` | violated |
| `RolesData` | `NoObjectLost` | violated |
| `QueryPlan` | `ConfirmedWrites` | violated |

### Bounds, and why they are enough

- `MaxAttempts` counts connect attempts, cancelled ones included.  Three give one
  live session, one superseded attempt and one awaited; a fourth repeats the
  relations among those.  `ShellScreens` has one, made by the start, an edit or a
  key, so that every screen is seen without a session, while one is on its way,
  after its failure and with it live.
- Servers: two in the list and the environment's; one of them does not resolve.
  `StartStores` also has the empty list, for the first server ever added.
- `MaxOps` = 2 edits or probes: one, and one that takes it back, reuses its
  name, meets its probe, or has the other outcome of `Save`.
- `StartNotices`: the start leaves no notice or two, one shown and one queued.
  `MaxNotices`: before the first window size, when notices can only queue, no key
  acts once that many wait; afterwards there is no bound.
- `Pools`: two commands suffice for the window between the look-up and the insert;
  three steps visit both databases and the first one again.
- `Hba`: two changes (`MaxChanges`), two statements that fail (`MaxFaults`) and a load
  that a key asks for (`MaxLoads`), of which three in all happen (`MaxEvents`): two
  changes, overlapping or not, with a failure in either or with a second load, which lets
  the content be older than the last change; or one change with a failure on the way out
  and one on the way back.  After the last change allowed nothing more is typed.
- `Startup` bounds nothing but its data: two servers (the list and the .env have
  one each, or the same one), and the twelve trees of `MCFiles`, which between
  them lead through every step: nothing at all; a .env alone; an upgrade with a
  .env; a commented-out template; a seed, a list, an unreadable file, another user's
  file and the administrator's on the new side, with a list or a .env on the old
  one; a `config.yaml`.  `settled` looks at any later start, so no number of starts
  is named.
- `Roles`: two commands (`MaxCmds`) overlap, or the second one takes over what the
  first left; one list on its way (`MaxLists`) is older than what a command
  did since; one failure and one change by somebody else.  `Jobs` names the
  operations a behaviour mixes: every pair that meets in a field, a list, a role or a
  schema.  Three roles are a doomed one, a successor and the administrator; two
  databases the one in use and the one pgtower is connected to; three objects a
  table and a sequence that exist and a table that does not yet.
- `Tabs`: two commands or answers under way (`MaxCmds`, the Dashboard's timer aside)
  are enough for one to overtake the other; two loads of the data table
  (`MaxLoads`) for an old token and a new one; two databases, tables and backends
  for the wrong one to exist; three settings, one of them fixed at compile time and
  one read at a restart only, with a value that the server refuses.  `MCSql` has a text of each class of `Classify`.
  `Jobs` mixes tabs that share a message or a modal.
- Deadlock is not checked: the user may quit, the commands end, and the bounds
  end a behaviour.

### Fairness, and why the code justifies it

- A dial ends: `NewManager` pings under a timeout.  A background `Close` ends
  once the queries it waits for do, which have timeouts of their own (`Pools`
  checks that it returns).  While the program runs, Bubble Tea receives every
  message sent.  So `DialOK \/ DialFails`, `ManagerClosed` and the handling of
  a `connectedMsg` are weakly fair, for each attempt.
- A command of `PoolManager` moves: its pings and its queries end by themselves
  or by their timeout, and the Go mutex does not starve a waiter.
- Every statement of `ApplyHBAContent` ends, at its deadline at the latest.
- `Roles` and `Tabs` assume no fairness and claim no liveness: `WorkIsTold` is
  about states, that whoever shows a spinner has a command under way whose answer
  will stop it, and that the line about a setting is true when it is shown.  That commands end is the business of their deadlines.
- No key is fair: the user may stop typing at any time.  Nothing else is assumed, not even
  that a manager is closed.

## Findings

Each is a violated run; the trace TLC prints is short.

1. **A stale rewrite of pg_hba.conf** (`ui/tuning.go:449`, `HbaStale`).  The second
   of two changes may be built from the content read before the first, and takes
   the first back.
2. **An import over another user's file** (`config/migrate.go:119`,
   `StartupLocked`).  `Save` never writes over a file that was skipped because it
   could not be read; the import of a .env does, and so does `mergeDir`, for which
   a file that cannot be read has no connections (`config/legacy.go:104`).
3. **A new password nobody sees** (`ui/roles.go:181`, `RolesPassword`).  "The new one
   is shown once", in an alert that the next answer replaces: a report of access asked
   for before the reset and answered after it.  Keys for a finder drawn over the
   alert close it as well.
4. **Data lost with a forced drop** (`db/admin.go:49`, `RolesData`).  "WITHOUT dropping data",
   but REASSIGN OWNED and DROP OWNED are two transactions.  In the trace alice is
   dropped with bob as her successor while bob is dropped too: what she had becomes
   his between his REASSIGN and his DROP OWNED.  `OwnedSurvives` is what does hold:
   objects owned from the start of the command on are safe.
5. **EXPLAIN that writes** (`ui/query.go:329`, `QueryPlan`).  `x` asks nothing, and
   `analyze delete from t` in the editor becomes EXPLAIN ANALYZE DELETE.  By the same
   property `with x as (delete from t returning *) select ...` is `Safe`, since
   `containsDML` looks for the word between spaces.

### Observations

Seen on the way.  Seven of them have a property and a configuration of their own,
which TLC violates: `ShellHelp`, `ShellSave`, `PoolsClose`, `HbaFailing`,
`HbaOverlap`, `StartupShared`, `RolesReport`.  They state what one would wish for, or bite rarely, and are kept
to be run by hand.

- `view` draws help before everything else while `handleKey` asks the update
  prompt first (`ui/model.go:463`): when the update check answers while help is open,
  keys go to a menu that is not on screen (`DrawnHasKeys`, against the comment at
  `ui/model.go:325`).  `KeysFollowScreen` says that this is the only such case: a window
  that a message opens while the help is read.
- The form of a server stores a failed save in itself and closes
  (`ui/servers.go:211`, `SavedOrTold`).
- A pool that was being made enters the map of a manager that has been closed
  (`db/db.go:90`, `CloseClosesAll`); and of two pools made at once for one database the
  map keeps the later one, and nothing closes the other.  `NoOtherLeak` says that no
  third way leads to a pool that is left open.
- "Any failure restores the backup and reloads, so a bad edit can't lock you out"
  (`db/hba.go:131`).  A write of pg_hba.conf that fails half-way is not rolled back
  (`db/hba.go:156`, `AnyFailureRestores`).  And of two changes under way one may read as
  the old file what the other one has written and will undo: its own rollback, coming
  later, brings that back, loads it, and the administrator is locked out without any
  statement failing (`CantLockYouOut`, `HbaOverlap`).  A rollback may also take back what
  the other change reported as applied, and the backup is one file for both.  It takes a
  second confirmation within the seconds the first change needs.
- A file of the first format on an administrator's path is rewritten with mode 0600
  when this user may write there (`config/migrate.go:99`, `SharedStays`).
- After a merge, a `config.yaml` that came from pgtui's directory is hidden by a
  `config.yml` the installer seeded, which is looked for first.  The trees of
  `MCFiles` have no such pair: `NothingLost` would hold and the list would be empty.
- `RoleAccess` reads the privileges on databases first, then those on schemas and
  tables in statements of their own (`db/admin.go:438`).  A role that is granted
  CONNECT after the first and loses the schema before the second had access all the
  time, and the report leaves the database out (`HeldIsReported`).  `ReportIsWhole`
  therefore speaks of access on one level; that the weaker form is needed came out
  of the proof, since two commands that overlap are too few to show it.
- The attributes form is filled from the list it was opened on, and the difference
  is taken against the list by the time it is submitted (`ui/roles.go:677`): what
  another administrator changed meanwhile is changed back.
- A second reset asked while the first is unanswered overwrites `pendingPwdRole`:
  the first password is shown for the second role (`mixed` keeps this apart).
- The finder answers with a place, and a list may have been reloaded under it
  (`ui/databases.go:205` and its like); nothing acts before naming its row again.
- A grant on a schema grants on what exists first and sets the defaults after: a table
  made in between has neither; and the defaults concern what pgtower's own role
  creates.  `RoleAccess` looks at neither sequences nor defaults.
- `queryMsg` and `describeMsg` carry no token: of two the later answer is shown,
  whichever was asked for last, and the first one stops the spinner of both
  (`ui/query.go:108`).  `WorkIsTold` asks for a command behind every spinner, not for a
  spinner before every command.  An error of the list of databases is shown in the
  pane of tables.  A pid may belong to another backend by the time it is
  terminated.  A search during a load builds on the columns of the rows before.

- `x` on a setting resets it at once, without a question.  When ALTER SYSTEM was done
  and the reload failed, the line reports the error and the list is not read again,
  though the value will be in force from the next reload on.  The list that is read
  after a change may still show the old value, since a reload is a signal.  Of two
  overlapping changes of one setting the line may name the earlier value.

## Proofs

Eight modules hold theorems: `ListProofs`; `ShellProofs`, `PoolProofs`, `HbaProofs`,
`StartupProofs`, `RolesProofs`; and for the other tabs `TabsProofs` and `WorkProofs`,
which extends it. tlapm checks them from nothing. Every invariant and every action
property of the passing runs is a theorem, and so is the refinement of `ConnectionSlot`;
only liveness is left to TLC.

They hold for any number of servers, attempts, databases, objects, commands, texts and
start trees, from the assumptions on the constants, which TLC evaluates on every run.
Most of these give types. Those that say more:

- `StoreConstants`: the settings that do not resolve are some of the settings, not all;
- `TabConstants`: the orders in which the server lists roles and databases have all of
  them; a start server has pgtower's own role, and privileges only on objects that
  exist;
- `CommandConstants`: the catalogs are finite, so that a list of them can arrive.

Some theorems have a hypothesis besides, and each hypothesis is the place where a
finding or a hazard bites:

| Theorem | Hypothesis | Where it fails |
|---|---|---|
| `ListAgrees` | the lists the program may start with have unique names and an existing default | a file edited by hand |
| `NothingIsLost` | `LockedAside`: no unreadable file of another user stands where a move or an import goes | finding 2 |
| `WritesWereConfirmed` | `RulesSee`: the lexical rules see what a text does | finding 5 |

All other theorems have none. The constants of `ShellScreens`, `Startup` and `Tabs` satisfy these hypotheses.

**Lists** (`OnlyKeeps`, `OnlyFinds`). What a loop keeps is in the set, is in the slice,
and is no longer than it; what is in both is kept. This is induction over the list. The
library's induction theorems take the formula as an operator, which the provers cannot;
so the proof takes the least number of a set, the lengths at which the claim fails, and
shows that there is a smaller one.

**Shell, the connection** (`SlotInvariant`, `DataOfThisServer`, `ManagerOfThisSession`,
`ImplementsSlot`). `NoForeignData` is not inductive: that the tabs hold the data of one
manager depends on the tags of results still on their way. `SlotInv` adds that attempts
above the latest number are untouched (`Fresh`), that the session's manager is the live
one and the generation the latest (`SessionLive`), and that a result of the present
generation comes from the present session's manager while none is of a later one
(`ResultsTagged`). Most actions leave this part of the state alone and share one lemma;
each of the others has a step of its own. The refinement maps `live` to the session's
manager, `want` to the current attempt while it is on its way, `held` to the managers
whose pools are open; every step is then a step of `ConnectionSlot` or leaves it
unchanged.

**Shell, the screens** (`NobodyStranded`, `SpinnersHaveWork`, `NoticesAreShown`,
`SwitchesWhenAsked`, `TheScreenHasTheKeys`, `ListAgrees`, `TypesOfTheShell`). `ScreenInv`
has one part for each thing an action may touch, so that an action is followed through
the parts it changes only: the connection (`SlotPart`: while a server is named as being
opened, its attempt is dialling or its message on its way), the tabs (`DataPart`), the
overlays (`ScreenPart`: "Updating" is on the screen exactly while it installs), the list
(`ListPart`) and the probes (`ProbesPart`: who shows a spinner has a probe).
`NeverStranded` needs `ServersOpen` beside it: the Servers screen stays open while the
user waits for another server, for otherwise giving up would leave nothing.
`KeysFollowScreen` compares two lists of overlays, and is true because of what may lie
over what (`Stacked`): the help opens only over the bare page of a session, which stays,
so only messages open anything over it; form and delete confirmation lie over the
Servers screen. That a key of the page finds no overlay at all (`PageHasNone`) is a
lemma about the order of keys. `SwitchOnlyWhenAsked` is about steps, and each action is
looked at once. `ListConsistent` is about what the user's edits do to the store; `Remove` copies
the list without one name, and `OnlyKeeps` and `OnlyFinds` say what is left of it.

**PoolManager** (`PoolInvariant`, `PoolTypes`, `PoolsWork`, `OnlyTheRaceLeaks`,
`QueriesOnTheirDatabase`). `PoolInv` adds to the properties that a pool is kept and
handed out under the database it was made for (`Filed`), that a pool between
`NewWithConfig` and the map is open and known to its maker only (`OwnPool`, which is
what lets a failed ping close it), and that a query has a pool (`InUse`).
`OnlyTheRaceLeaks` says precisely what the unguarded insert costs: the replaced pools,
and nothing else, are lost.

**HbaEditor** (`ApplyKnowsTheServer`, `AdministratorStaysIn`, `RefusedLeavesNoTrace`,
`OldFileIsNeverLost`, `AppliedIsInUse`, `TypesOfTheEditor`). That a failed change leaves
no trace depends on what each statement of `ApplyHBAContent` may rely on, and another
change under way may take it away at any of them. `HbaInv` says it: two changes that run
at once are both in `mixed` (`Apart`); for any other, at each statement the backup is the
old file, the file the new one, the rules in use the new ones from the reload on, and
after the way back what was found (`StageOK`); the server never uses a file that does
not parse (`ConfParses`); and while nothing overlapped and nothing tore, every change
found a sound file in use (`Quiet`). No theorem supposes that changes do not overlap:
one that did is what a property does not speak of, and the others are proved beside it.
`TypesOfTheEditor` must
show that a load always finds a free number: loads are no more than those that may be
under way and the changes that are over (`FewLoads`), which is fewer than there are
numbers.

**Startup, the program** (`BinInvariant`, `AlwaysAProgram`). `NamesRun` is not
inductive: a link may be put in place long after its target was seen (`LinkHasTarget`),
what is renamed must be a program (`AdoptsProgram`), and what is installed must have
passed its checksum (`InstallsWhole`).

**Startup, the files** (`NothingIsLost`, `ShowsWhatIsSaved`, `LoadChangesNoServers`,
`SecondRunIsQuiet`, `TypesOfTheFiles`). The invariants say what `Load` remembers of the
files at each of its steps, which other steps have changed since.

- Types: what is about to be backed up is what was read, what a merge has left is what
  is still in the old directory, a copy is complete before its original is renamed
  (`StageOK`).
- Nothing is lost: what is written over a list holds that list (`Covered`), except
  between the copy and the end of its original, and a list still in a directory of pgtui
  has no other user's file where the next move would put it (`PathOK`). A file that
  cannot be read counts as having no servers (`legacy.go:104`), which is why
  `LockedAside` must be an invariant (`Guarded`) too.
- What is shown: a start shows the file that it finds after all moves, and in the middle
  of a merge that file is `Final`, the one that the entries still to come will leave;
  each entry moved, the upgrade, the import and the relocation leave `Shown` as it is.
  `ShownOK` says what the later steps know of it: what was found is what will be found
  again.
- The second run: after a `Load` without failures nothing is left to move, to upgrade,
  to import or to relocate (`Stable`), and no save brings any of it back.

**RolesTab, the forced drop** (`KeptAlways`, `ForcedDropKeepsOwned`). `OwnedSurvives`
says of a step that it spares what the role of a forced drop has owned since the command
began (`kept`). It is not inductive: that DROP OWNED spares these objects is the work of
the REASSIGN OWNED before it, and between the two any other command, administrator or
application may act. `KeptInv` adds that what is kept is still the role's (`Concern`),
and that while DROP OWNED is the next statement nothing of it is in that database:
REASSIGN left no such object there, and no statement moves an object from one database
to another or gives one to the role without its leaving `kept`. The lemmas say what a
statement may do to where objects are and whose (`AfterShaped`, `ReassignedElsewhere`,
`DropsOnlyThere`), and what a step must be for the invariant to survive it (`StepKept`,
`AttemptKept`, `StartKept`, `AnswerKept`); every action is then one of these.

**RolesTab, the rest** (`TypesOfTheRoles`, `StartsAsConfirmed`, `RevokesEverything`,
`ReportsAccess`, `ShowsTheRightPassword`). All stand on `TypeInv`, which knows what a
command of each kind is made of and that a server stays one (`Standing`) under any
statement.

- `StartsAsConfirmed`: each of the keys that start something is compared with the dialog
  that is open; lists that arrive change neither.
- `RevokesEverything`: `RevokeInv` says, for every revocation under way, that what the
  first statements of `BuildRevoke` took is still gone: the defaults first, for
  otherwise a table made between two statements would have the privilege again. A grant
  of the same pair takes it out of `revoked`, and for a reported one all statements have
  run.
- `ReportsAccess`: `ReportInv` says that what the role had throughout on a level is in
  the report for the databases already read, and the others are ahead (`Told`).
- `ShowsTheRightPassword`: `PasswordInv` says that while nothing overlapped it
  (`mixed`), a reset is the only command that changes roles, its list is one statement
  with the password kept in the view, and once it is answered the server has that
  password; commands of other kinds leave passwords alone.

**Tabs, what is shown** (`ScreenIsAskedFor`, in `TabsProofs`). `ShownIsAskedFor` is
about what arrived and depends on what is still to arrive. `IInv` adds, for every load
of the data table that runs or was answered, that its token is no later than the table's
and that one with the token of now is of the database and text of now (`CurrentLoad`),
and for every answer with tables that they are of the database it was asked about
(`ListsAsked`). A load takes the next token, which no command has (`LoadKeeps`); the
keys and answers of every other tab start commands that load no rows (`SendsPlain`), and
entering a database clears the tables of the one before (`EnterKeeps`).

**Tabs, consent** (`NamedIsMeant`, `WritesWereConfirmed`, in `TabsProofs`). Both are
about the commands a step starts, which is counted in bags (`RemovedCount`,
`AddedCount`, `JoinedCount`): a command that starts is one of those the key or the
answer sends (`SendConsents`, `ReplyConsents`), and each of these has its consent
(`Consent`). `AInv` says what an open question remembers: the danger shown is the class
of the pending text, a `yes` that stands in a critical confirmation was typed for that
text (`QueryAsked`), and the questions about a database and about a backend name what
was captured (`DropAskedOf`, `PidAsked`). The texts of the run `Tabs` satisfy `RulesSee`
and those of `QueryPlan` do not.

**Tabs, work and types** (`ScreenTellsTheTruth`, `TypesOfTheTabs`, in `WorkProofs`).
`Spins`: a command that stops a spinner is only taken away by its answer, whose handler
clears the spinner or starts the load that will. `OneTimer` counts the copies of the
Dashboard's tick in both bags: the handler of a tick takes one and sends one, and the
first visit makes the only new one. `SettingsHold` follows a change of a setting through
its two steps and its answer: one that overlapped no other is alone under way, and what
it came to (written, signalled, in force or waiting for a restart) stands until the
next. `TypesOfTheTabs` has the cursors in it: lists arrive as an order of a finite set,
and after each, and after each change of a filter (`OnlyKeeps`), the cursor is on a row
or nowhere.

Only model-checked: liveness (`AttemptSettles`, `ManagersReleased`, `EverybodyEnds`,
`ApplyAnswered`), since proofs about fairness need ENABLED; that the commands under way
stay within their bound (`Room`) is the guard of whatever starts one, and not a
property. What the file holds after changes of pg_hba.conf that overlapped is promised
by no property that holds.

## Not modelled, and why

- Mouse handlers: the program starts with `tea.WithAltScreen()` only and never
  receives a mouse message.
- Rendering, wording, colours, clipboard, debug log: no state a property is about.
- Connection errors, SCRAM, password generation, identifier quoting: pure
  functions on strings.
- Of the Dashboard, the samples and the verdicts drawn from them; of the data
  table, the columns and the width of cells; of the Locks tab, the tree that is drawn.
- The advisor's arithmetic, how values are displayed and converted, and the rules by
  which the form accepts one: `Typed` and `Taken` say only which values pass the form
  and which the server takes.
- A server that PostgreSQL's own concurrency would make subtler: a statement of
  `RoleServer` is atomic, as it is for whoever waits for its answer.
- Two processes of pgtower at once; a .env that is not pgtower's; the temporary
  files of `writeFileAtomic`, which nothing reads; `/etc/pgtower`, the working
  directory and the explicit locations of the configuration.

## Plan

1. *(done)* connecting, sessions, overlays, servers; pools; pg_hba; the start of
   the program with its files; the Roles tab and its forced drop; the other tabs
   together.
2. *(done)* proofs: every invariant and every action property of the passing runs is
   a theorem, under the hypotheses named above.
3. Two processes on the same files, and an abstract specification of the files:
   a list of servers that changes only when the user changes it.
4. An abstract specification of a change of pg_hba.conf (all or nothing, while the
   write and the way back work), and what can still be promised when two overlap.
