------------------------------ MODULE WorkProofs ------------------------------
(***************************************************************************)
(* What the screen says of work is true: spinners have a command behind    *)
(* them, the Dashboard has one timer, a setting called applied is; and     *)
(* what the tabs keep has its type, cursors on their lists included.  For  *)
(* any databases, settings and values, any number of commands under way.   *)
(***************************************************************************)
EXTENDS TabsProofs, ListProofs

----------------------------------------------------------------------------
(* Spinners: the commands that a step lets go, and those it starts.        *)

QuerySpins == query.running => \E c \in UnderwayNow : c.kind = "query"
ListSpins ==
  databases.loading => Underway(LoadDatabases) \/ Underway(LoadTables(databases.selected))
DescribeSpins == databases.describing => \E c \in UnderwayNow : c.kind = "describe"
RowsSpin == browser.loading => \E c \in UnderwayNow : c.kind = "data" /\ c.token = browser.token
SessionsSpin == sessions.loading => Underway(LoadSessions)
LocksSpin == watch.loading => Underway(LoadLocks)
Spins == QuerySpins /\ ListSpins /\ DescribeSpins /\ RowsSpin /\ SessionsSpin /\ LocksSpin

----------------------------------------------------------------------------
(* Timers: one that waits or has fired for a Dashboard that was started,   *)
(* none for one that was not.                                              *)

WatchFields == {"started", "loaded", "loading"}
TickShape ==
  /\ \A c \in DOMAIN pending : c.kind = "tick" => c = Tick
  /\ \A a \in DOMAIN answers : a.cmd.kind = "tick" => a = TickAnswer
OneTimer ==
  /\ Counted(pending) /\ Counted(answers) /\ TickShape
  /\ DOMAIN watch = WatchFields /\ watch.started \in BOOLEAN
  /\ watch.started => Timers(pending, answers) = 1
  /\ ~watch.started => Timers(pending, answers) = 0

----------------------------------------------------------------------------
(* Settings: a change that overlapped no other is alone under way, and     *)
(* what it has come to stands until the next one.                          *)

SettingsFields ==
  {"section", "list", "filter", "filtering", "cursor", "form", "status", "advErr", "setErr"}
SettingFields == {"kind", "name", "value", "restart", "step"}
SettingShapes ==
  /\ DOMAIN settings = SettingsFields /\ settings.form \in Gucs \union {NoForm}
  /\ DOMAIN server = {"dbs", "pids", "signalled", "file", "live"}
  /\ DOMAIN server.file = Gucs /\ server.signalled \in BOOLEAN

Sets(c, n) == c.kind = "setting" /\ c.name = n
ShapedSetting(c) ==
  c.kind = "setting" =>
    DOMAIN c = SettingFields /\ c.name \in Gucs /\ c.restart = (c.name \in Restarts)
Sole(n) ==
  /\ \A c, d \in DOMAIN pending : Sets(c, n) /\ Sets(d, n) => c = d /\ Copies(c, pending) = 1
  /\ \A a, b \in DOMAIN answers :
       Sets(a.cmd, n) /\ Sets(b.cmd, n) => a = b /\ Copies(a, answers) = 1
  /\ \A c \in DOMAIN pending, a \in DOMAIN answers : ~(Sets(c, n) /\ Sets(a.cmd, n))

Written(c) ==
  c.kind = "setting" /\ c.step = "reload" /\ c.name \notin tangled => server.file[c.name] = c.value
InForce(a) ==
  a.cmd.kind = "setting" /\ a.ok /\ a.cmd.name \notin tangled => Applied(a.cmd)
StatusOK ==
  settings.status.kind = "applied" =>
    /\ settings.status.name \in Gucs
    /\ settings.status.restart = (settings.status.name \in Restarts)
    /\ \/ Applied(settings.status)
       \/ settings.status.name \in tangled \/ BeingSet(settings.status.name)
SettingsHold ==
  /\ Counted(pending) /\ Counted(answers) /\ SettingShapes
  /\ \A c \in UnderwayNow : ShapedSetting(c)
  /\ \A n \in Gucs \ tangled : Sole(n)
  /\ \A c \in DOMAIN pending : Written(c)
  /\ \A a \in DOMAIN answers : InForce(a)
  /\ StatusOK

WorkInv == Spins /\ OneTimer /\ SettingsHold

----------------------------------------------------------------------------
(* Bags, counted exactly.                                                  *)

LEMMA InBag ==
  ASSUME NEW b, Counted(b), NEW c
  PROVE  Copies(c, b) \in Nat /\ (c \in DOMAIN b <=> Copies(c, b) # 0)
BY DEF Counted, Copies

LEMMA RemovedExactly ==
  ASSUME NEW b, Counted(b), NEW e \in DOMAIN b
  PROVE  /\ Counted(BagRemove(b, e)) /\ Copies(e, BagRemove(b, e)) = Copies(e, b) - 1
         /\ \A c : c # e => Copies(c, BagRemove(b, e)) = Copies(c, b)
BY DEF BagRemove, Counted, Copies

LEMMA AddedExactly ==
  ASSUME NEW b, Counted(b), NEW e
  PROVE  /\ Counted(BagAdd(b, e)) /\ Copies(e, BagAdd(b, e)) = Copies(e, b) + 1
         /\ \A c : c # e => Copies(c, BagAdd(b, e)) = Copies(c, b)
BY DEF BagAdd, Counted, Copies

LEMMA JoinedExactly ==
  ASSUME NEW b, Counted(b), NEW s
  PROVE  /\ Counted(b (+) SetToBag(s))
         /\ \A c \in s : Copies(c, b (+) SetToBag(s)) = Copies(c, b) + 1
         /\ \A c : c \notin s => Copies(c, b (+) SetToBag(s)) = Copies(c, b)
BY DEF (+), SetToBag, Counted, Copies

----------------------------------------------------------------------------
(* What a step makes of the commands under way.                            *)

LEMMA SentNow ==
  ASSUME NEW cs, Send(cs) PROVE UnderwayNow' = UnderwayNow \union cs
<1>1. DOMAIN pending' = DOMAIN pending \union cs /\ answers' = answers
  BY Sends
<1> QED BY <1>1 DEF UnderwayNow

LEMMA RepliedNow ==
  ASSUME NEW a \in DOMAIN answers, NEW cs, Reply(a, cs)
  PROVE  cs \subseteq UnderwayNow' /\ UnderwayNow \ {a.cmd} \subseteq UnderwayNow'
<1>1. DOMAIN pending' = DOMAIN pending \union cs
  BY Replies
<1>2. \A b \in DOMAIN answers : b # a => b \in DOMAIN answers'
  BY DEF Reply, Start, BagRemove
<1> QED BY <1>1, <1>2 DEF UnderwayNow

LEMMA DoneNow ==
  ASSUME NEW c \in DOMAIN pending, NEW ok, NEW rows, Done(c, ok, rows)
  PROVE  UnderwayNow \subseteq UnderwayNow'
<1> DEFINE r == [cmd |-> c, ok |-> ok, rows |-> rows]
<1>1. \A d \in DOMAIN pending : d # c => d \in DOMAIN pending'
  BY DEF Done, BagRemove
<1>2. DOMAIN answers' = DOMAIN answers \union {r} /\ r.cmd = c
  BY Added DEF Done
<1> HIDE DEF r
<1> QED BY <1>1, <1>2 DEF UnderwayNow

----------------------------------------------------------------------------
(* Spinners.                                                               *)

\* The commands gone are let go, cs are started; what spins then has one of either.
Spun(gone, cs) ==
  /\ query'.running =>
       \/ query.running /\ \A c \in gone : c.kind # "query"
       \/ \E c \in cs : c.kind = "query"
  /\ databases'.loading =>
       \/ /\ databases.loading /\ databases'.selected = databases.selected
          /\ {LoadDatabases, LoadTables(databases.selected)} \intersect gone = {}
       \/ LoadDatabases \in cs \/ LoadTables(databases'.selected) \in cs
  /\ databases'.describing =>
       \/ databases.describing /\ \A c \in gone : c.kind # "describe"
       \/ \E c \in cs : c.kind = "describe"
  /\ browser'.loading =>
       \/ /\ browser.loading /\ browser'.token = browser.token
          /\ \A c \in gone : ~(c.kind = "data" /\ c.token = browser.token)
       \/ \E c \in cs : c.kind = "data" /\ c.token = browser'.token
  /\ sessions'.loading => (sessions.loading /\ LoadSessions \notin gone) \/ LoadSessions \in cs
  /\ watch'.loading => (watch.loading /\ LoadLocks \notin gone) \/ LoadLocks \in cs

LEMMA SpunSpins ==
  ASSUME Spins, NEW gone, NEW cs, Spun(gone, cs),
         UnderwayNow \ gone \subseteq UnderwayNow', cs \subseteq UnderwayNow'
  PROVE  Spins'
<1>1. QuerySpins'
  BY DEF Spins, Spun, QuerySpins
<1>2. ListSpins'
  BY DEF Spins, Spun, ListSpins, Underway
<1>3. DescribeSpins'
  BY DEF Spins, Spun, DescribeSpins
<1>4. RowsSpin'
  BY DEF Spins, Spun, RowsSpin
<1>5. SessionsSpin' /\ LocksSpin'
  BY DEF Spins, Spun, SessionsSpin, LocksSpin, Underway
<1> QED BY <1>1, <1>2, <1>3, <1>4, <1>5 DEF Spins

SendsSpun == \E cs : Send(cs) /\ Spun({}, cs)
LEMMA SendSpins == ASSUME Spins, SendsSpun PROVE Spins'
<1>1. PICK cs : Send(cs) /\ Spun({}, cs)
  BY DEF SendsSpun
<1>2. UnderwayNow' = UnderwayNow \union cs
  BY <1>1, SentNow
<1> QED BY <1>1, <1>2, SpunSpins

\* What the views of the other tabs keep.
LEMMA StillViews ==
  /\ UNCHANGED queryVars => query' = query
  /\ UNCHANGED databasesVars => databases' = databases /\ browser' = browser
  /\ UNCHANGED monitorVars => sessions' = sessions /\ watch' = watch
BY DEF queryVars, databasesVars, monitorVars

----------------------------------------------------------------------------
(* The keys.  Only the Dashboard starts timers, only the Tuning tab sets   *)
(* settings.                                                               *)

Free(cs) == \A c \in cs : c.kind \notin {"tick", "setting"}
FreeSend == \E cs : Send(cs) /\ Free(cs) /\ Spun({}, cs)

LEMMA FreeAre ==
  /\ Free({}) /\ Free({LoadDatabases}) /\ Free({LoadSessions}) /\ Free({LoadLocks})
  /\ Free({LoadDashboard}) /\ Free(TuningLoads) /\ Free({LoadAllSettings})
  /\ \A d, q : Free({RunQuery(d, q)}) /\ RunQuery(d, q).kind = "query"
  /\ \A d, q, n : Free({LoadTableData(d, q, n)})
  /\ \A d, t : Free({DescribeTable(d, t)}) /\ DescribeTable(d, t).kind = "describe"
  /\ \A d : Free({LoadTables(d)}) /\ Free({CreateDatabase(d)}) /\ Free({DropDatabase(d)})
  /\ \A op, p : Free({SessionAction(op, p)})
BY DEF Free, LoadDatabases, LoadSessions, LoadLocks, LoadDashboard, TuningLoads, LoadTuning,
       LoadAllSettings, RunQuery, LoadTableData, LoadTables, DescribeTable, CreateDatabase,
       DropDatabase, SessionAction

LEMMA QueryKeysWork ==
  ASSUME AInv, QueryKeys, UNCHANGED <<databasesVars, monitorVars>> PROVE FreeSend
<1> USE DEF AInv, QueryAsked, QueryFields, QueryBecomes
<1>0. ASSUME NEW cs, Send(cs), Free(cs),
             \/ query'.running = query.running
             \/ \E c \in cs : c.kind = "query"
      PROVE  FreeSend
  BY <1>0, StillViews DEF FreeSend, Spun
<1>1. CASE FocusEditor \/ LeaveEditor \/ TypeText
  BY <1>0, <1>1, FreeAre DEF FocusEditor, LeaveEditor, TypeText
<1>2. CASE Submit
  <2>1. CASE Classify(query.text) = "Safe"
    <3>1. PICK d, q : Send({RunQuery(d, q)})
      BY <1>2, <2>1 DEF Submit
    <3> QED BY <1>0, <3>1, FreeAre
  <2>2. CASE Classify(query.text) # "Safe"
    BY <1>0, <1>2, <2>2, FreeAre DEF Submit, Asking
  <2> QED BY <2>1, <2>2
<1>3. CASE Explain \/ ConfirmYes
  <2>1. PICK d, q : Send({RunQuery(d, q)})
    BY <1>3 DEF Explain, ConfirmYes
  <2> QED BY <1>0, <2>1, FreeAre
<1>4. CASE TypeAnswer \/ CancelPending
  BY <1>0, <1>4, FreeAre DEF TypeAnswer, CancelPending
<1>5. CASE OpenTarget
  BY <1>0, <1>5, FreeAre DEF OpenTarget, Filtered
<1>6. CASE TypeFilter
  BY <1>0, <1>6, FreeAre DEF TypeFilter, Filtered
<1>7. CASE MoveTarget \/ PickTarget \/ CancelTarget
  BY <1>0, <1>7, FreeAre DEF MoveTarget, PickTarget, CancelTarget
<1> QED BY <1>1, <1>2, <1>3, <1>4, <1>5, <1>6, <1>7 DEF QueryKeys

LEMMA ListKeysWork ==
  ASSUME IInv, UNCHANGED <<queryVars, monitorVars>>,
         \/ RefreshDatabases \/ MoveDatabase \/ EnterDatabase \/ OpenCreateDB \/ SubmitCreateDB
         \/ AskDropDB \/ DropDBYes \/ OpenFinder \/ PickFound \/ CancelModal \/ CloseAlert
  PROVE  FreeSend
<1> USE DEF IInv, Shapes, DatabasesFields, ViewBecomes
<1>0. ASSUME NEW cs, Send(cs), Free(cs), UNCHANGED browser,
             databases'.describing = databases.describing,
             \/ /\ databases'.loading = databases.loading
                /\ databases'.selected = databases.selected
             \/ LoadDatabases \in cs \/ LoadTables(databases'.selected) \in cs
      PROVE  FreeSend
  BY <1>0, StillViews DEF FreeSend, Spun
<1>1. CASE RefreshDatabases
  BY <1>0, <1>1, FreeAre DEF RefreshDatabases, Reloading
<1>2. CASE MoveDatabase
  BY <1>0, <1>2, FreeAre DEF MoveDatabase
<1>3. CASE EnterDatabase
  BY <1>0, <1>3, FreeAre DEF EnterDatabase, Reloading
<1>4. CASE OpenCreateDB
  BY <1>0, <1>4, FreeAre DEF OpenCreateDB, Open
<1>5. CASE SubmitCreateDB
  BY <1>0, <1>5, FreeAre DEF SubmitCreateDB, Closed
<1>6. CASE AskDropDB
  BY <1>0, <1>6, FreeAre DEF AskDropDB
<1>7. CASE DropDBYes
  BY <1>0, <1>7, FreeAre DEF DropDBYes, Closed
<1>8. CASE OpenFinder
  BY <1>0, <1>8, FreeAre DEF OpenFinder, Open
<1>9. CASE PickFound
  <2>1. PICK k : databases' \in {[Closed(databases) EXCEPT !.cursor = k],
                                [Closed(databases) EXCEPT !.row = k], Closed(databases)}
    BY <1>9 DEF PickFound
  <2>2. /\ databases'.describing = databases.describing
        /\ databases'.loading = databases.loading /\ databases'.selected = databases.selected
    BY <2>1 DEF Closed
  <2> QED BY <1>0, <1>9, <2>2, FreeAre DEF PickFound
<1>10. CASE CancelModal \/ CloseAlert
  BY <1>0, <1>10, FreeAre DEF CancelModal, CloseAlert, Closed
<1> QED BY <1>1, <1>2, <1>3, <1>4, <1>5, <1>6, <1>7, <1>8, <1>9, <1>10

\* A load of the data table is awaited by the token it carries.
LEMMA LoadWorks ==
  ASSUME NEW b, NEW q, DOMAIN b = BrowserFields, Load(b, q),
         databases'.loading = databases.loading, databases'.selected = databases.selected,
         databases'.describing = databases.describing, UNCHANGED <<queryVars, monitorVars>>
  PROVE  FreeSend
<1>1. PICK c : Send({c}) /\ Free({c}) /\ c.kind = "data" /\ c.token = browser'.token
  <2> DEFINE r == LoadTableData(b.db, q, NextToken(b))
  <2>1. Send({r}) /\ browser'.token = b.token + 1
    BY DEF Load, Loading, BrowserFields
  <2>2. r.kind = "data" /\ r.token = b.token + 1
    BY DEF LoadTableData, NextToken
  <2> QED BY <2>1, <2>2, FreeAre
<1> QED BY <1>1, StillViews DEF FreeSend, Spun

LEMMA TableKeysWork ==
  ASSUME IInv, UNCHANGED <<queryVars, monitorVars>>,
         \/ MoveTable \/ RefreshTables \/ LeaveTables \/ Describe \/ LeaveDescription
         \/ OpenTable \/ LeaveTable \/ ResetData \/ OpenSearch \/ SearchColumn
         \/ OpenQueryBar \/ RunQueryBar \/ LeaveField
  PROVE  FreeSend
<1> USE DEF IInv, Shapes, DatabasesFields, ViewBecomes
<1>0. ASSUME NEW cs, Send(cs), Free(cs), UNCHANGED browser,
             \/ databases'.describing = databases.describing
             \/ \E c \in cs : c.kind = "describe",
             databases'.selected = databases.selected,
             \/ databases'.loading = databases.loading
             \/ LoadTables(databases'.selected) \in cs
      PROVE  FreeSend
  BY <1>0, StillViews DEF FreeSend, Spun
<1>1. CASE MoveTable
  BY <1>0, <1>1, FreeAre DEF MoveTable
<1>2. CASE RefreshTables
  BY <1>0, <1>2, FreeAre DEF RefreshTables, Reloading
<1>3. CASE LeaveTables
  BY <1>0, <1>3, FreeAre DEF LeaveTables
<1>4. CASE Describe
  BY <1>0, <1>4, FreeAre DEF Describe
<1>5. CASE LeaveDescription \/ LeaveTable
  BY <1>0, <1>5, FreeAre DEF LeaveDescription, LeaveTable
<1>6. CASE OpenTable
  <2> DEFINE b == [browser EXCEPT !.db = databases.selected, !.table = SelectedTable]
  <2>1. DOMAIN b = BrowserFields /\ Load(b, SelectAll(SelectedTable))
    BY <1>6 DEF OpenTable, BrowserFields
  <2>2. databases' = [databases EXCEPT !.mode = "data"]
    BY <1>6 DEF OpenTable
  <2> HIDE DEF b
  <2> QED BY <2>1, <2>2, LoadWorks
<1>7. CASE ResetData \/ SearchColumn \/ RunQueryBar
  <2>1. PICK q : Load(browser, q)
    BY <1>7 DEF ResetData, SearchColumn, RunQueryBar
  <2>2. UNCHANGED databases
    BY <1>7 DEF ResetData, SearchColumn, RunQueryBar
  <2> QED BY <2>1, <2>2, LoadWorks
<1>8. CASE OpenSearch \/ OpenQueryBar \/ LeaveField
  <2>1. PICK m : browser' = [browser EXCEPT !.mode = m] /\ Send({}) /\ UNCHANGED databases
    BY <1>8 DEF OpenSearch, OpenQueryBar, LeaveField, BrowserBecomes
  <2>2. browser'.loading = browser.loading /\ browser'.token = browser.token
    BY <2>1 DEF BrowserFields
  <2> QED BY <2>1, <2>2, FreeAre, StillViews DEF FreeSend, Spun
<1> QED BY <1>1, <1>2, <1>3, <1>4, <1>5, <1>6, <1>7, <1>8

LEMMA MonitorKeysWork ==
  ASSUME AInv, SessionsKeys \/ RefreshDashboard \/ RefreshLocks,
         DOMAIN watch = WatchFields, UNCHANGED <<queryVars, databasesVars>>
  PROVE  /\ FreeSend
         /\ DOMAIN watch' = WatchFields /\ watch'.started = watch.started
<1> USE DEF AInv, PidAsked, SessionsFields, SessionsBecome, WatchBecomes, WatchFields
<1>0. ASSUME NEW cs, Send(cs), Free(cs),
             sessions'.loading = sessions.loading \/ LoadSessions \in cs,
             watch'.loading = watch.loading \/ LoadLocks \in cs
      PROVE  FreeSend
  BY <1>0, StillViews DEF FreeSend, Spun
<1>1. CASE RefreshSessions
  BY <1>0, <1>1, FreeAre DEF RefreshSessions
<1>2. CASE MoveSession \/ FindSession
  BY <1>0, <1>2, FreeAre DEF MoveSession, FindSession
<1>3. CASE PickSession
  <2>1. PICK k : sessions' = [sessions EXCEPT !.modal = NoQuestion, !.cursor = k]
    BY <1>3 DEF PickSession
  <2> QED BY <1>0, <1>3, <2>1, FreeAre DEF PickSession
<1>4. CASE ConfirmOn
  <2>1. PICK op : sessions' =
          [sessions EXCEPT !.pendingOp = op, !.pendingPid = SelectedPid,
                           !.modal = [kind |-> "confirm", op |-> op, pid |-> SelectedPid]]
    BY <1>4 DEF ConfirmOn
  <2> QED BY <1>0, <1>4, <2>1, FreeAre DEF ConfirmOn
<1>5. CASE SessionYes
  BY <1>0, <1>5, FreeAre DEF SessionYes
<1>6. CASE SessionNo \/ CloseSessionAlert
  BY <1>0, <1>6, FreeAre DEF SessionNo, CloseSessionAlert
<1>7. CASE RefreshDashboard
  BY <1>0, <1>7, StillViews, FreeAre DEF RefreshDashboard
<1>8. CASE RefreshLocks
  BY <1>0, <1>8, FreeAre DEF RefreshLocks
<1> QED BY <1>1, <1>2, <1>3, <1>4, <1>5, <1>6, <1>7, <1>8 DEF SessionsKeys

----------------------------------------------------------------------------
(* Timers.                                                                 *)

\* Nothing but a timer is of its kind.
TrueTicks(cs) == \A c \in cs : c.kind = "tick" => c = Tick
Watching(on) ==
  DOMAIN watch' = WatchFields /\ watch'.started \in BOOLEAN /\ (watch'.started <=> on)

LEMMA TimerSent ==
  ASSUME OneTimer, NEW cs, Send(cs), TrueTicks(cs), Tick \in cs => ~watch.started,
         Watching(watch.started \/ Tick \in cs)
  PROVE  OneTimer'
<1>1. pending' = pending (+) SetToBag(cs) /\ UNCHANGED answers
  BY DEF Send, Start
<1>2. /\ Counted(pending')
      /\ Tick \notin cs => Copies(Tick, pending') = Copies(Tick, pending)
      /\ Tick \in cs => Copies(Tick, pending') = Copies(Tick, pending) + 1
  BY <1>1, JoinedExactly DEF OneTimer
<1>3. TickShape'
  BY <1>1, Sends DEF OneTimer, TickShape, TrueTicks
<1>4. Copies(Tick, pending) \in Nat /\ Copies(TickAnswer, answers) \in Nat
  BY InBag DEF OneTimer
<1>5. /\ watch'.started => Timers(pending', answers') = 1
      /\ ~watch'.started => Timers(pending', answers') = 0
  BY <1>1, <1>2, <1>4 DEF OneTimer, Timers, Watching
<1> QED BY <1>1, <1>2, <1>3, <1>5 DEF OneTimer, Watching

LEMMA TimerReplied ==
  ASSUME OneTimer, NEW a \in DOMAIN answers, NEW cs, Reply(a, cs), TrueTicks(cs),
         Tick \in cs <=> a = TickAnswer, Watching(watch.started)
  PROVE  OneTimer'
<1>1. pending' = pending (+) SetToBag(cs) /\ answers' = BagRemove(answers, a)
  BY DEF Reply, Start
<1>2. /\ Counted(pending')
      /\ Tick \notin cs => Copies(Tick, pending') = Copies(Tick, pending)
      /\ Tick \in cs => Copies(Tick, pending') = Copies(Tick, pending) + 1
  BY <1>1, JoinedExactly DEF OneTimer
<1>3. /\ Counted(answers')
      /\ a # TickAnswer => Copies(TickAnswer, answers') = Copies(TickAnswer, answers)
      /\ a = TickAnswer => Copies(TickAnswer, answers') = Copies(TickAnswer, answers) - 1
  BY <1>1, RemovedExactly DEF OneTimer
<1>4. TickShape'
  BY Replies DEF OneTimer, TickShape, TrueTicks
<1>5. Copies(Tick, pending) \in Nat /\ Copies(TickAnswer, answers) \in Nat
  BY InBag DEF OneTimer
<1>6. /\ watch'.started => Timers(pending', answers') = 1
      /\ ~watch'.started => Timers(pending', answers') = 0
  BY <1>2, <1>3, <1>5 DEF OneTimer, Timers, Watching
<1> QED BY <1>2, <1>3, <1>4, <1>6 DEF OneTimer, Watching

\* A timer that runs out is still the one there was.
LEMMA TimerDone ==
  ASSUME OneTimer, NEW c \in DOMAIN pending, NEW ok, NEW rows, Done(c, ok, rows),
         c = Tick => ok = TRUE /\ rows = <<>>, UNCHANGED watch
  PROVE  OneTimer'
<1> DEFINE r == [cmd |-> c, ok |-> ok, rows |-> rows]
<1>1. pending' = BagRemove(pending, c) /\ answers' = BagAdd(answers, r)
  BY DEF Done
<1>2. r.cmd = c /\ (c = Tick => r = TickAnswer)
  BY DEF TickAnswer
<1>3. TickAnswer.cmd = Tick
  BY DEF TickAnswer
<1> HIDE DEF r
<1>4. /\ Counted(pending')
      /\ c # Tick => Copies(Tick, pending') = Copies(Tick, pending)
      /\ c = Tick => Copies(Tick, pending') = Copies(Tick, pending) - 1
  BY <1>1, RemovedExactly DEF OneTimer
<1>5. /\ Counted(answers')
      /\ c # Tick => Copies(TickAnswer, answers') = Copies(TickAnswer, answers)
      /\ c = Tick => Copies(TickAnswer, answers') = Copies(TickAnswer, answers) + 1
  BY <1>1, <1>2, <1>3, AddedExactly DEF OneTimer
<1>6. DOMAIN pending' \subseteq DOMAIN pending /\ DOMAIN answers' = DOMAIN answers \union {r}
  BY <1>1, Removed, Added
<1>7. TickShape'
  BY <1>2, <1>6 DEF OneTimer, TickShape
<1>8. Copies(Tick, pending) \in Nat /\ Copies(TickAnswer, answers) \in Nat
  BY InBag DEF OneTimer
<1>9. /\ watch'.started => Timers(pending', answers') = 1
      /\ ~watch'.started => Timers(pending', answers') = 0
  BY <1>4, <1>5, <1>8 DEF OneTimer, Timers
<1> QED BY <1>4, <1>5, <1>7, <1>9 DEF OneTimer

----------------------------------------------------------------------------
(* Settings: the steps that have nothing to do with them.                  *)

SettingsAside ==
  /\ Counted(pending') /\ Counted(answers')
  /\ \A c : c.kind = "setting" => Copies(c, pending') = Copies(c, pending)
  /\ \A a : a.cmd.kind = "setting" => Copies(a, answers') = Copies(a, answers)
SameServer ==
  /\ DOMAIN server' = DOMAIN server /\ server'.file = server.file
  /\ server'.live = server.live /\ server'.signalled = server.signalled
SameSettings ==
  /\ DOMAIN settings' = SettingsFields /\ settings'.form \in Gucs \union {NoForm}
  /\ settings'.status = settings.status \/ settings'.status.kind # "applied"
  /\ UNCHANGED tangled

LEMMA AsideSame ==
  ASSUME SettingsHold, SettingsAside
  PROVE  /\ \A c : c.kind = "setting" => (c \in DOMAIN pending' <=> c \in DOMAIN pending)
         /\ \A a : a.cmd.kind = "setting" => (a \in DOMAIN answers' <=> a \in DOMAIN answers)
         /\ \A c : c.kind = "setting" => (c \in UnderwayNow' <=> c \in UnderwayNow)
<1>1. \A c : c.kind = "setting" => (c \in DOMAIN pending' <=> c \in DOMAIN pending)
  BY InBag DEF SettingsHold, SettingsAside
<1>2. \A a : a.cmd.kind = "setting" => (a \in DOMAIN answers' <=> a \in DOMAIN answers)
  BY InBag DEF SettingsHold, SettingsAside
<1> QED BY <1>1, <1>2 DEF UnderwayNow

LEMMA AsideHolds ==
  ASSUME SettingsHold, SettingsAside, SameServer, SameSettings PROVE SettingsHold'
<1>1. /\ \A c : c.kind = "setting" => (c \in DOMAIN pending' <=> c \in DOMAIN pending)
      /\ \A a : a.cmd.kind = "setting" => (a \in DOMAIN answers' <=> a \in DOMAIN answers)
      /\ \A c : c.kind = "setting" => (c \in UnderwayNow' <=> c \in UnderwayNow)
  BY AsideSame
<1>2. SettingShapes'
  BY DEF SettingsHold, SettingShapes, SameServer, SameSettings
<1>3. \A c \in UnderwayNow' : ShapedSetting(c)
  BY <1>1 DEF SettingsHold, ShapedSetting
<1>4. ASSUME NEW n \in Gucs \ tangled PROVE Sole(n)'
  <2>1. Sole(n)
    BY DEF SettingsHold
  <2> QED BY <1>1, <2>1 DEF Sole, Sets, SettingsAside
<1>5. \A c \in DOMAIN pending' : Written(c)'
  BY <1>1 DEF SettingsHold, Written, SameServer, SameSettings
<1>6. \A t : Applied(t) => Applied(t)'
  BY DEF Applied, SameServer
<1>7. \A a \in DOMAIN answers' : InForce(a)'
  BY <1>1, <1>6 DEF SettingsHold, InForce, SameSettings
<1>8. StatusOK'
  BY <1>1, <1>6 DEF SettingsHold, StatusOK, BeingSet, SameSettings
<1> QED BY <1>2, <1>3, <1>4, <1>5, <1>7, <1>8 DEF SettingsHold, SettingsAside, SameSettings

LEMMA SentAside ==
  ASSUME SettingsHold, NEW cs, \A c \in cs : c.kind # "setting", Send(cs) PROVE SettingsAside
BY JoinedExactly DEF SettingsHold, SettingsAside, Send, Start

LEMMA RepliedAside ==
  ASSUME SettingsHold, NEW a \in DOMAIN answers, NEW cs, Reply(a, cs),
         a.cmd.kind # "setting", \A c \in cs : c.kind # "setting"
  PROVE  SettingsAside
<1>1. pending' = pending (+) SetToBag(cs) /\ answers' = BagRemove(answers, a)
  BY DEF Reply, Start
<1> QED BY <1>1, JoinedExactly, RemovedExactly DEF SettingsHold, SettingsAside

LEMMA DoneAside ==
  ASSUME SettingsHold, NEW c \in DOMAIN pending, c.kind # "setting", NEW ok, NEW rows,
         Done(c, ok, rows)
  PROVE  SettingsAside
<1> DEFINE r == [cmd |-> c, ok |-> ok, rows |-> rows]
<1>1. pending' = BagRemove(pending, c) /\ answers' = BagAdd(answers, r) /\ r.cmd = c
  BY DEF Done
<1> HIDE DEF r
<1> QED BY <1>1, RemovedExactly, AddedExactly DEF SettingsHold, SettingsAside

----------------------------------------------------------------------------
(* Settings: a change is asked for, written, told to the server, answered. *)

\* A second change of a setting that is being changed tangles the two.
LEMMA ApplyHolds ==
  ASSUME SettingsHold, NEW n \in Gucs, NEW v, Apply(n, v), UNCHANGED server,
         DOMAIN settings' = SettingsFields, settings'.form \in Gucs \union {NoForm},
         settings'.status = settings.status
  PROVE  SettingsHold'
<1>1. PICK c : /\ Send({c}) /\ Sets(c, n) /\ c.step = "alter"
               /\ DOMAIN c = SettingFields /\ c.restart = (n \in Restarts)
  <2> DEFINE r == ApplySetting(n, v)
  <2>1. Send({r})
    BY DEF Apply
  <2>2. r.kind = "setting" /\ r.name = n /\ r.step = "alter" /\ r.restart = (n \in Restarts)
    BY DEF ApplySetting
  <2>3. DOMAIN r = SettingFields
    BY DEF ApplySetting, SettingFields
  <2> HIDE DEF r
  <2> QED BY <2>1, <2>2, <2>3 DEF Sets
<1>2. /\ pending' = pending (+) SetToBag({c}) /\ answers' = answers
      /\ DOMAIN pending' = DOMAIN pending \union {c} /\ UnderwayNow' = UnderwayNow \union {c}
  BY <1>1, Sends, SentNow DEF Send, Start
<1>3. /\ Counted(pending') /\ Copies(c, pending') = Copies(c, pending) + 1
      /\ \A d : d # c => Copies(d, pending') = Copies(d, pending)
  BY <1>2, JoinedExactly DEF SettingsHold
<1>4. /\ n \notin tangled' => \A d \in UnderwayNow : ~Sets(d, n)
      /\ \A m : m # n => (m \in tangled' <=> m \in tangled)
  BY DEF Apply, Sets
<1>5. SettingShapes' /\ \A d \in UnderwayNow' : ShapedSetting(d)
  BY <1>1, <1>2 DEF SettingsHold, SettingShapes, ShapedSetting, Sets
<1>6. ASSUME NEW m \in Gucs \ tangled' PROVE Sole(m)'
  <2>1. CASE m = n
    <3>1. \A d \in DOMAIN pending : ~Sets(d, n)
      BY <1>4, <2>1 DEF UnderwayNow
    <3>2. \A a \in DOMAIN answers : ~Sets(a.cmd, n)
      BY <1>4, <2>1 DEF UnderwayNow
    <3>3. Copies(c, pending') = 1
      BY <1>1, <1>3, <3>1, InBag DEF Copies
    <3>4. \A d \in DOMAIN pending' : Sets(d, n) => d = c
      BY <1>2, <3>1
    <3> QED BY <1>2, <2>1, <3>2, <3>3, <3>4 DEF Sole
  <2>2. CASE m # n
    <3>1. Sole(m) /\ ~Sets(c, m)
      BY <1>1, <1>4, <2>2 DEF SettingsHold, Sets
    <3> QED BY <1>2, <1>3, <3>1 DEF Sole
  <2> QED BY <2>1, <2>2
<1>7. ASSUME NEW d \in UnderwayNow, d.kind = "setting", d.name \notin tangled'
      PROVE  d.name \notin tangled
  BY <1>4, <1>7 DEF Sets
<1>8. \A d \in DOMAIN pending' : Written(d)'
  BY <1>1, <1>2, <1>7 DEF SettingsHold, Written, UnderwayNow
<1>9. \A t : Applied(t) => Applied(t)'
  BY DEF Applied
<1>10. \A a \in DOMAIN answers' : InForce(a)'
  BY <1>2, <1>7, <1>9 DEF SettingsHold, InForce, UnderwayNow
<1>11. StatusOK'
  BY <1>1, <1>2, <1>4, <1>9 DEF SettingsHold, StatusOK, BeingSet, Sets
<1> QED BY <1>2, <1>3, <1>5, <1>6, <1>8, <1>10, <1>11 DEF SettingsHold

\* The answer of a change is what the status line tells from then on.
LEMMA AppliedAnswer ==
  ASSUME SettingsHold, NEW a \in DOMAIN answers, a.cmd.kind = "setting", SettingApplyMsg(a),
         Reply(a, AfterApply(a)), UNCHANGED server
  PROVE  SettingsHold'
<1>1. \A c \in AfterApply(a) : c.kind # "setting"
  BY DEF AfterApply, LoadAllSettings
<1>2. /\ pending' = pending (+) SetToBag(AfterApply(a)) /\ answers' = BagRemove(answers, a)
      /\ DOMAIN pending' = DOMAIN pending \union AfterApply(a)
      /\ DOMAIN answers' \subseteq DOMAIN answers
  BY Replies DEF Reply, Start
<1>3. /\ Counted(pending') /\ Counted(answers')
      /\ \A c : c.kind = "setting" => Copies(c, pending') = Copies(c, pending)
      /\ Copies(a, answers') = Copies(a, answers) - 1
      /\ \A b : b # a => Copies(b, answers') = Copies(b, answers)
  BY <1>1, <1>2, JoinedExactly, RemovedExactly DEF SettingsHold
<1>4. /\ UNCHANGED tangled /\ DOMAIN settings' = SettingsFields
      /\ settings'.form = settings.form
  BY DEF SettingsHold, SettingShapes, SettingApplyMsg, SettingsBecome, SettingsFields
<1>5. \A c : c.kind = "setting" => (c \in DOMAIN pending' <=> c \in DOMAIN pending)
  BY <1>1, <1>2
<1>6. SettingShapes'
  BY <1>4 DEF SettingsHold, SettingShapes
<1>7. \A c \in UnderwayNow' : ShapedSetting(c)
  BY <1>2, <1>5 DEF SettingsHold, UnderwayNow, ShapedSetting
<1>8. ASSUME NEW n \in Gucs \ tangled' PROVE Sole(n)'
  <2>1. Sole(n)
    BY <1>4 DEF SettingsHold
  <2>2. \A b \in DOMAIN answers' : Sets(b.cmd, n) => b # a
    BY <1>2, <1>3, <2>1, InBag DEF Sole
  <2> QED BY <1>2, <1>3, <1>5, <2>1, <2>2 DEF Sole, Sets
<1>9. \A c \in DOMAIN pending' : Written(c)'
  BY <1>4, <1>5 DEF SettingsHold, Written
<1>10. \A t : Applied(t) => Applied(t)'
  BY DEF Applied
<1>11. \A b \in DOMAIN answers' : InForce(b)'
  BY <1>2, <1>4, <1>10 DEF SettingsHold, InForce
<1>12. StatusOK'
  <2>1. CASE a.ok
    <3>1. settings'.status = [kind |-> "applied", name |-> a.cmd.name, value |-> a.cmd.value,
                              restart |-> a.cmd.restart]
      BY <2>1 DEF SettingsHold, SettingShapes, SettingApplyMsg, SettingsBecome, SettingsFields
    <3>2. a.cmd.name \in Gucs /\ a.cmd.restart = (a.cmd.name \in Restarts)
      BY DEF SettingsHold, ShapedSetting, UnderwayNow
    <3>3. Applied(a.cmd) \/ a.cmd.name \in tangled
      BY <2>1 DEF SettingsHold, InForce
    <3> QED BY <1>4, <3>1, <3>2, <3>3 DEF StatusOK, Applied
  <2>2. CASE ~a.ok
    <3>1. settings'.status = [kind |-> "failed"]
      BY <2>2 DEF SettingsHold, SettingShapes, SettingApplyMsg, SettingsBecome, SettingsFields
    <3> QED BY <3>1 DEF StatusOK
  <2> QED BY <2>1, <2>2
<1> QED BY <1>3, <1>4, <1>6, <1>7, <1>8, <1>9, <1>11, <1>12 DEF SettingsHold

\* A change ends: the server was told to read what was written, or the change failed.
Told ==
  /\ DOMAIN server' = DOMAIN server /\ server'.file = server.file /\ server'.live = server.live
  /\ server'.signalled \in BOOLEAN /\ (server.signalled => server'.signalled)

LEMMA SettingDone ==
  ASSUME SettingsHold, NEW c \in DOMAIN pending, c.kind = "setting", NEW ok \in BOOLEAN,
         NEW rows, Done(c, ok, rows), Told, ok => c.step = "reload" /\ server'.signalled,
         UNCHANGED settingsVars
  PROVE  SettingsHold'
<1> DEFINE q == [cmd |-> c, ok |-> ok, rows |-> rows]
<1>1. PICK r : /\ pending' = BagRemove(pending, c) /\ answers' = BagAdd(answers, r)
               /\ r.cmd = c /\ r.ok = ok
  <2>1. pending' = BagRemove(pending, c) /\ answers' = BagAdd(answers, q)
    BY DEF Done
  <2>2. q.cmd = c /\ q.ok = ok
    OBVIOUS
  <2> HIDE DEF q
  <2> QED BY <2>1, <2>2
<1>2. DOMAIN pending' \subseteq DOMAIN pending /\ DOMAIN answers' = DOMAIN answers \union {r}
  BY <1>1, Removed, Added
<1>3. /\ Counted(pending') /\ Counted(answers')
      /\ Copies(c, pending') = Copies(c, pending) - 1
      /\ \A d : d # c => Copies(d, pending') = Copies(d, pending)
      /\ Copies(r, answers') = Copies(r, answers) + 1
      /\ \A b : b # r => Copies(b, answers') = Copies(b, answers)
  BY <1>1, RemovedExactly, AddedExactly DEF SettingsHold
<1>4. UNCHANGED tangled /\ UNCHANGED settings
  BY DEF settingsVars
<1>5. SettingShapes'
  BY <1>4 DEF SettingsHold, SettingShapes, Told
<1>6. UnderwayNow \subseteq UnderwayNow' /\ UnderwayNow' \subseteq UnderwayNow
  BY <1>1, <1>2, DoneNow DEF UnderwayNow
<1>7. \A d \in UnderwayNow' : ShapedSetting(d)
  BY <1>6 DEF SettingsHold
<1>8. ASSUME NEW n \in Gucs \ tangled' PROVE Sole(n)'
  <2>0. Sole(n)
    BY <1>4 DEF SettingsHold
  <2>1. CASE c.name = n
    <3>1. Sets(c, n)
      BY <2>1 DEF Sets
    <3>2. \A d \in DOMAIN pending' : ~Sets(d, n)
      BY <1>2, <1>3, <2>0, <3>1, InBag DEF Sole
    <3>3. \A b \in DOMAIN answers : ~Sets(b.cmd, n)
      BY <2>0, <3>1 DEF Sole
    <3>4. Copies(r, answers') = 1
      BY <1>1, <1>3, <3>1, <3>3, InBag DEF SettingsHold, Copies
    <3> QED BY <1>2, <3>2, <3>3, <3>4 DEF Sole
  <2>2. CASE c.name # n
    <3>1. ~Sets(c, n) /\ ~Sets(r.cmd, n)
      BY <1>1, <2>2 DEF Sets
    <3> QED BY <1>2, <1>3, <2>0, <3>1 DEF Sole
  <2> QED BY <2>1, <2>2
<1>9. \A d \in DOMAIN pending' : Written(d)'
  BY <1>2, <1>4 DEF SettingsHold, Written, Told
<1>10. \A t : Applied(t) => Applied(t)'
  BY DEF Applied, Told
<1>11. \A b \in DOMAIN answers' : InForce(b)'
  <2>1. InForce(r)'
    BY <1>1, <1>4 DEF SettingsHold, Written, InForce, Applied, Told
  <2>2. \A b \in DOMAIN answers : InForce(b)'
    BY <1>4, <1>10 DEF SettingsHold, InForce
  <2> QED BY <1>2, <2>1, <2>2
<1>12. StatusOK'
  BY <1>4, <1>6, <1>10 DEF SettingsHold, StatusOK, BeingSet
<1> QED BY <1>3, <1>4, <1>5, <1>7, <1>8, <1>9, <1>11, <1>12 DEF SettingsHold

\* ALTER SYSTEM of a change that is alone touches nobody else's setting.
LEMMA AlterHolds ==
  ASSUME SettingsHold, NEW c \in DOMAIN pending, AlterSystem(c), UNCHANGED settingsVars
  PROVE  SettingsHold'
<1> DEFINE q == [c EXCEPT !.step = "reload"]
<1>0. /\ c.kind = "setting" /\ c.step = "alter" /\ DOMAIN c = SettingFields /\ c.name \in Gucs
      /\ c.restart = (c.name \in Restarts) /\ c \in UnderwayNow
  BY DEF AlterSystem, SettingsHold, ShapedSetting, UnderwayNow
<1>1. PICK r : /\ pending' = BagAdd(BagRemove(pending, c), r) /\ answers' = answers
               /\ DOMAIN r = SettingFields /\ r.kind = "setting" /\ r.step = "reload"
               /\ r.name = c.name /\ r.value = c.value /\ r.restart = c.restart
  <2>1. pending' = BagAdd(BagRemove(pending, c), q) /\ answers' = answers
    BY Zenon DEF AlterSystem
  <2>2. /\ DOMAIN q = SettingFields /\ q.kind = "setting" /\ q.step = "reload"
        /\ q.name = c.name /\ q.value = c.value /\ q.restart = c.restart
    BY <1>0 DEF SettingFields
  <2> HIDE DEF q
  <2> QED BY <2>1, <2>2
<1>2. /\ DOMAIN server' = DOMAIN server /\ server'.live = server.live
      /\ server'.signalled = server.signalled /\ DOMAIN server'.file = Gucs
      /\ server'.file[c.name] = c.value
      /\ \A n \in Gucs : n # c.name => server'.file[n] = server.file[n]
  BY <1>0 DEF AlterSystem, SettingsHold, SettingShapes
<1>3. /\ Counted(pending') /\ c # r
      /\ Copies(c, pending') = Copies(c, pending) - 1
      /\ Copies(r, pending') = Copies(r, pending) + 1
      /\ \A d : d # c /\ d # r => Copies(d, pending') = Copies(d, pending)
  <2>1. /\ Counted(BagRemove(pending, c))
        /\ Copies(c, BagRemove(pending, c)) = Copies(c, pending) - 1
        /\ \A d : d # c => Copies(d, BagRemove(pending, c)) = Copies(d, pending)
    BY RemovedExactly DEF SettingsHold
  <2>2. c # r
    BY <1>0, <1>1
  <2> QED BY <1>1, <2>1, <2>2, AddedExactly
<1>4. /\ r \in DOMAIN pending'
      /\ \A d : d # r => (d \in DOMAIN pending' => d \in DOMAIN pending)
  <2>1. DOMAIN pending' = DOMAIN BagRemove(pending, c) \union {r}
    BY <1>1, Added
  <2>2. DOMAIN BagRemove(pending, c) \subseteq DOMAIN pending
    BY Removed
  <2> QED BY <2>1, <2>2
<1>5. r \in UnderwayNow' /\ \A d \in UnderwayNow : d # c => d \in UnderwayNow'
  <2>1. r \in DOMAIN pending'
    BY <1>4
  <2>2. \A d \in DOMAIN pending : d # c => d \in DOMAIN pending'
    BY <1>3, <2>1, InBag DEF SettingsHold
  <2> QED BY <1>1, <2>1, <2>2 DEF UnderwayNow
<1>6. UNCHANGED tangled /\ UNCHANGED settings
  BY DEF settingsVars
<1>7. SettingShapes'
  BY <1>2, <1>6 DEF SettingsHold, SettingShapes
<1>8. \A d \in UnderwayNow' : ShapedSetting(d)
  BY <1>0, <1>1, <1>4 DEF SettingsHold, UnderwayNow, ShapedSetting
<1>9. \A n \in Gucs \ tangled : Sole(n)
  BY DEF SettingsHold
<1>10. c.name \notin tangled => \A d \in DOMAIN pending' : Sets(d, c.name) => d = r
  <2>1. c.name \notin tangled => \A d \in DOMAIN pending : Sets(d, c.name) => d = c
    BY <1>0, <1>9 DEF Sole, Sets
  <2>2. c.name \notin tangled => Copies(c, pending) = 1
    BY <1>0, <1>9 DEF Sole, Sets
  <2> QED BY <1>3, <1>4, <2>1, <2>2, InBag
<1>11. c.name \notin tangled => \A a \in DOMAIN answers : ~Sets(a.cmd, c.name)
  BY <1>0, <1>9 DEF Sole, Sets
<1>12. ASSUME NEW n \in Gucs \ tangled' PROVE Sole(n)'
  <2>1. CASE c.name = n
    <3>1. r \notin DOMAIN pending
      BY <1>0, <1>1, <1>3, <1>6, <1>9, <2>1 DEF Sole, Sets
    <3>2. Copies(r, pending') = 1
      BY <1>3, <3>1, InBag DEF SettingsHold, Copies
    <3> QED BY <1>1, <1>6, <1>10, <1>11, <2>1, <3>2 DEF Sole
  <2>2. CASE c.name # n
    <3>1. Sole(n) /\ ~Sets(c, n) /\ ~Sets(r, n)
      BY <1>1, <1>6, <1>9, <2>2 DEF Sets
    <3> QED BY <1>1, <1>3, <1>4, <3>1 DEF Sole
  <2> QED BY <2>1, <2>2
<1>13. ASSUME NEW d \in DOMAIN pending' PROVE Written(d)'
  <2>1. CASE Sets(d, c.name)
    BY <1>1, <1>2, <1>6, <1>10, <2>1 DEF Written, Sets
  <2>2. CASE d.kind = "setting" /\ d.name # c.name
    <3>1. d \in DOMAIN pending /\ d.name \in Gucs
      BY <1>1, <1>4, <2>2 DEF SettingsHold, ShapedSetting, UnderwayNow
    <3> QED BY <1>2, <1>6, <2>2, <3>1 DEF SettingsHold, Written
  <2> QED BY <2>1, <2>2 DEF Written, Sets
<1>14. \A t : t.name \in Gucs /\ t.name # c.name /\ Applied(t) => Applied(t)'
  BY <1>2 DEF Applied
<1>15. \A a \in DOMAIN answers' : InForce(a)'
  BY <1>1, <1>6, <1>11, <1>14 DEF SettingsHold, InForce, Sets, ShapedSetting, UnderwayNow
<1>16. StatusOK'
  <2>1. BeingSet(c.name)'
    BY <1>1, <1>5 DEF BeingSet
  <2>2. \A n : n # c.name /\ BeingSet(n) => BeingSet(n)'
    BY <1>5 DEF BeingSet
  <2> QED BY <1>6, <1>14, <2>1, <2>2 DEF SettingsHold, StatusOK
<1>17. Counted(answers')
  BY <1>1 DEF SettingsHold
<1> QED BY <1>3, <1>6, <1>7, <1>8, <1>12, <1>13, <1>15, <1>16, <1>17 DEF SettingsHold

\* The server reads the file in its own time; what was written is in force then.
LEMMA ReadHolds ==
  ASSUME SettingsHold, ReadConfig, UNCHANGED settingsVars PROVE SettingsHold'
<1>1. /\ DOMAIN server' = DOMAIN server /\ server'.file = server.file
      /\ server'.signalled = FALSE
      /\ \A n \in Gucs \ Restarts : server'.live[n] = server.file[n]
  BY DEF ReadConfig, SettingsHold, SettingShapes
<1>2. UNCHANGED <<pending, answers, tangled, settings>> /\ UnderwayNow' = UnderwayNow
  BY DEF ReadConfig, commands, settingsVars, UnderwayNow
<1>3. SettingShapes'
  BY <1>1, <1>2 DEF SettingsHold, SettingShapes
<1>4. \A t : t.name \in Gucs /\ t.restart = (t.name \in Restarts) /\ Applied(t) => Applied(t)'
  BY <1>1 DEF Applied
<1>5. \A a \in DOMAIN answers' : InForce(a)'
  BY <1>2, <1>4 DEF SettingsHold, InForce, ShapedSetting, UnderwayNow
<1>6. StatusOK'
  BY <1>2, <1>4 DEF SettingsHold, StatusOK, BeingSet
<1>7. \A n \in Gucs \ tangled' : Sole(n)'
  BY <1>2 DEF SettingsHold, Sole
<1>8. \A c \in DOMAIN pending' : Written(c)'
  BY <1>1, <1>2 DEF SettingsHold, Written
<1> QED BY <1>2, <1>3, <1>5, <1>6, <1>7, <1>8 DEF SettingsHold

----------------------------------------------------------------------------
(* Steps.                                                                  *)

LEMMA FreeKeeps ==
  ASSUME WorkInv, FreeSend, Watching(watch.started), UNCHANGED <<server, settingsVars>>
  PROVE  WorkInv'
<1>1. PICK cs : Send(cs) /\ Free(cs) /\ Spun({}, cs)
  BY DEF FreeSend
<1>2. Spins'
  BY <1>1, SendSpins DEF SendsSpun, WorkInv
<1>3. OneTimer'
  <2>1. Tick \notin cs /\ TrueTicks(cs)
    BY <1>1 DEF Free, Tick, TrueTicks
  <2> QED BY <1>1, <2>1, TimerSent DEF WorkInv, Watching
<1>4. SettingsAside
  BY <1>1, SentAside DEF Free, WorkInv
<1>5. SettingsHold'
  BY <1>4, AsideHolds DEF SameServer, SameSettings, WorkInv, settingsVars, SettingsHold,
                          SettingShapes
<1> QED BY <1>2, <1>3, <1>5 DEF WorkInv

\* A key only asks: the server is as it was.
LEMMA QueryKeysAsk == ASSUME QueryKeys PROVE UNCHANGED world
<1> USE DEF QueryKey
<1>1. CASE FocusEditor \/ LeaveEditor \/ TypeText \/ Submit \/ Explain
  BY <1>1 DEF FocusEditor, LeaveEditor, TypeText, Submit, Explain
<1>2. CASE TypeAnswer \/ ConfirmYes \/ CancelPending \/ OpenTarget
  BY <1>2 DEF TypeAnswer, ConfirmYes, CancelPending, OpenTarget
<1>3. CASE TypeFilter \/ MoveTarget \/ PickTarget \/ CancelTarget
  BY <1>3 DEF TypeFilter, MoveTarget, PickTarget, CancelTarget
<1> QED BY <1>1, <1>2, <1>3 DEF QueryKeys

LEMMA DatabasesKeysAsk == ASSUME DatabasesKeys PROVE UNCHANGED world
<1> USE DEF ListKey, ModalKey, DataKey
<1>1. CASE RefreshDatabases \/ MoveDatabase \/ EnterDatabase \/ OpenCreateDB \/ SubmitCreateDB
  BY <1>1 DEF RefreshDatabases, MoveDatabase, EnterDatabase, OpenCreateDB, SubmitCreateDB
<1>2. CASE AskDropDB \/ DropDBYes \/ OpenFinder \/ PickFound \/ CancelModal \/ CloseAlert
  BY <1>2 DEF AskDropDB, DropDBYes, OpenFinder, PickFound, CancelModal, CloseAlert
<1>3. CASE MoveTable \/ RefreshTables \/ LeaveTables \/ Describe \/ LeaveDescription \/ LeaveTable
  BY <1>3 DEF MoveTable, RefreshTables, LeaveTables, Describe, LeaveDescription, LeaveTable
<1>4. CASE OpenTable \/ ResetData \/ OpenSearch \/ SearchColumn
  BY <1>4 DEF OpenTable, ResetData, OpenSearch, SearchColumn
<1>5. CASE OpenQueryBar \/ RunQueryBar \/ LeaveField
  BY <1>5 DEF OpenQueryBar, RunQueryBar, LeaveField
<1> QED BY <1>1, <1>2, <1>3, <1>4, <1>5 DEF DatabasesKeys

LEMMA MonitorKeysAsk ==
  ASSUME SessionsKeys \/ RefreshDashboard \/ RefreshLocks PROVE UNCHANGED world
<1> USE DEF SessionKey
<1>1. CASE RefreshSessions \/ MoveSession \/ FindSession \/ PickSession
  BY <1>1 DEF RefreshSessions, MoveSession, FindSession, PickSession
<1>2. CASE ConfirmOn \/ SessionYes \/ SessionNo \/ CloseSessionAlert
  BY <1>2 DEF ConfirmOn, SessionYes, SessionNo, CloseSessionAlert
<1> QED BY <1>1, <1>2 DEF SessionsKeys, RefreshDashboard, RefreshLocks

LEMMA StillWatching == ASSUME OneTimer, UNCHANGED watch PROVE Watching(watch.started)
BY DEF OneTimer, Watching

LEMMA TabKeysKeep ==
  ASSUME IInv, AInv, WorkInv, QueryTabKey \/ DatabasesTabKey \/ MonitorTabKey PROVE WorkInv'
<1> USE DEF WorkInv
<1>1. CASE QueryTabKey
  <2>1. FreeSend
    BY <1>1, QueryKeysWork DEF QueryTabKey
  <2>2. UNCHANGED <<server, settingsVars, watch>>
    BY <1>1, QueryKeysAsk, StillViews DEF QueryTabKey, world
  <2> QED BY <2>1, <2>2, StillWatching, FreeKeeps
<1>2. CASE DatabasesTabKey
  <2>1. FreeSend
    BY <1>2, ListKeysWork, TableKeysWork DEF DatabasesTabKey, DatabasesKeys
  <2>2. UNCHANGED <<server, settingsVars, watch>>
    BY <1>2, DatabasesKeysAsk, StillViews DEF DatabasesTabKey, world
  <2> QED BY <2>1, <2>2, StillWatching, FreeKeeps
<1>3. CASE MonitorTabKey
  <2>1. SessionsKeys \/ RefreshDashboard \/ RefreshLocks
    BY <1>3 DEF MonitorTabKey
  <2>2. UNCHANGED <<queryVars, databasesVars, settingsVars>>
    BY <1>3 DEF MonitorTabKey
  <2>3. UNCHANGED server
    BY <2>1, MonitorKeysAsk DEF world
  <2>4. FreeSend /\ DOMAIN watch' = WatchFields /\ watch'.started = watch.started
    BY <2>1, <2>2, MonitorKeysWork DEF OneTimer
  <2>5. Watching(watch.started)
    BY <2>4 DEF OneTimer, Watching
  <2> QED BY <2>2, <2>3, <2>4, <2>5, FreeKeeps
<1> QED BY <1>1, <1>2, <1>3

\* The other tabs' views stay when the Tuning tab starts its commands.
LEMMA TuningSends ==
  ASSUME WorkInv, UNCHANGED <<queryVars, databasesVars, monitorVars>>, NEW cs, Send(cs),
         Tick \notin cs, TrueTicks(cs)
  PROVE  Spins' /\ OneTimer'
<1>1. Spun({}, cs)
  BY StillViews DEF Spun
<1>2. Watching(watch.started)
  BY StillWatching, StillViews DEF WorkInv
<1>3. Watching(watch.started \/ Tick \in cs)
  BY <1>2 DEF Watching
<1> QED BY <1>1, <1>3, SendSpins, TimerSent DEF SendsSpun, WorkInv

LEMMA SettingsKeysKeep == ASSUME WorkInv, SettingsTabKey PROVE WorkInv'
<1> USE DEF SettingsFields, SettingsBecome
<1>0. UNCHANGED <<queryVars, databasesVars, monitorVars>> /\ DOMAIN settings = SettingsFields
  BY DEF SettingsTabKey, WorkInv, SettingsHold, SettingShapes
<1>1. settings.form \in Gucs \union {NoForm}
  BY DEF WorkInv, SettingsHold, SettingShapes
<1>2. UNCHANGED server
  BY DEF SettingsTabKey, SettingsKeys, RefreshTuning, OpenSettings, OpenAdvisor, MoveSetting,
         StartFilter, TypeNameFilter, LeaveFilter, OpenSettingEdit, SubmitSettingEdit,
         CancelSettingEdit, ResetSetting, CannotChange, SettingsKey, FreeKey, world
<1>3. ASSUME NEW n, NEW v, n \in Gucs, Apply(n, v), DOMAIN settings' = SettingsFields,
             settings'.form \in Gucs \union {NoForm}, settings'.status = settings.status
      PROVE  WorkInv'
  <2>1. SettingsHold'
    BY <1>2, <1>3, ApplyHolds DEF WorkInv
  <2>2. Send({ApplySetting(n, v)})
    BY <1>3 DEF Apply
  <2>3. Tick \notin {ApplySetting(n, v)} /\ TrueTicks({ApplySetting(n, v)})
    BY DEF Tick, ApplySetting, TrueTicks
  <2> QED BY <1>0, <2>1, <2>2, <2>3, TuningSends DEF WorkInv
<1>4. ASSUME NEW cs, Send(cs), Free(cs), SameSettings PROVE WorkInv'
  <2>1. Tick \notin cs /\ TrueTicks(cs)
    BY <1>4 DEF Free, Tick, TrueTicks
  <2>2. SettingsHold'
    BY <1>2, <1>4, SentAside, AsideHolds DEF Free, SameServer, WorkInv
  <2> QED BY <1>0, <1>4, <2>1, <2>2, TuningSends DEF WorkInv
<1>5. CASE RefreshTuning
  BY <1>0, <1>1, <1>4, <1>5, FreeAre DEF RefreshTuning, SameSettings
<1>6. CASE OpenSettings \/ OpenAdvisor
  BY <1>0, <1>1, <1>4, <1>6, FreeAre DEF OpenSettings, OpenAdvisor, SameSettings
<1>7. CASE MoveSetting
  BY <1>0, <1>1, <1>4, <1>7, FreeAre DEF MoveSetting, SameSettings
<1>8. CASE StartFilter \/ LeaveFilter \/ CancelSettingEdit
  BY <1>0, <1>1, <1>4, <1>8, FreeAre DEF StartFilter, LeaveFilter, CancelSettingEdit, SameSettings
<1>9. CASE TypeNameFilter
  BY <1>0, <1>1, <1>4, <1>9, FreeAre DEF TypeNameFilter, Relisted, SameSettings
<1>10. CASE OpenSettingEdit
  BY <1>0, <1>4, <1>10, FreeAre DEF OpenSettingEdit, SameSettings
<1>11. CASE CannotChange
  BY <1>0, <1>1, <1>4, <1>11, FreeAre DEF CannotChange, SameSettings
<1>12. CASE SubmitSettingEdit
  BY <1>0, <1>1, <1>3, <1>12 DEF SubmitSettingEdit
<1>13. CASE ResetSetting
  BY <1>0, <1>1, <1>3, <1>13 DEF ResetSetting
<1> QED BY <1>5, <1>6, <1>7, <1>8, <1>9, <1>10, <1>11, <1>12, <1>13 DEF SettingsTabKey, SettingsKeys

\* A tab that is opened reads its data; the first visit of the Dashboard starts the timer.
LEMMA SwitchWorks == ASSUME IInv, AInv, WorkInv, SwitchTo PROVE WorkInv'
<1>1. PICK t \in TabNames :
        /\ Send(Loads(t))
        /\ databases' = IF t = "databases" THEN Reloading(databases) ELSE databases
        /\ sessions' = IF t = "sessions" THEN [sessions EXCEPT !.loading = TRUE] ELSE sessions
        /\ watch' = IF t = "dashboard" THEN [watch EXCEPT !.started = TRUE]
                    ELSE IF t = "locks" THEN [watch EXCEPT !.loading = TRUE] ELSE watch
        /\ settings' = IF t = "tuning" THEN [settings EXCEPT !.advErr = FALSE, !.setErr = FALSE]
                       ELSE settings
        /\ UNCHANGED <<world, queryVars, browser, tangled>>
  BY DEF SwitchTo
<1> DEFINE cs == Loads(t)
<1>2. /\ t = "databases" => cs = {LoadDatabases}
      /\ t = "sessions" => cs = {LoadSessions}
      /\ t = "locks" => cs = {LoadLocks}
      /\ t = "tuning" => cs = TuningLoads
      /\ t = "query" => cs = {}
      /\ t = "dashboard" => cs = DashboardLoads(watch)
  BY DEF Loads
<1>3. t # "dashboard" => Free(cs)
  BY <1>2, FreeAre DEF TabNames
<1>4. \A c \in cs : c.kind # "setting"
  BY <1>2, <1>3 DEF Free, DashboardLoads, LoadDashboard, Tick
<1>5. TrueTicks(cs) /\ (Tick \in cs <=> t = "dashboard" /\ ~watch.started)
  BY <1>2, <1>3 DEF Free, TrueTicks, DashboardLoads, LoadDashboard, Tick
<1>6. DOMAIN watch = WatchFields /\ watch.started \in BOOLEAN
  BY DEF WorkInv, OneTimer
<1>7. Spun({}, cs)
  <2>1. query' = query /\ browser' = browser
    BY <1>1 DEF queryVars
  <2>2. /\ databases'.describing = databases.describing
        /\ databases'.selected = databases.selected
        /\ databases'.loading = databases.loading \/ LoadDatabases \in cs
    BY <1>1, <1>2 DEF IInv, Shapes, DatabasesFields, Reloading
  <2>3. sessions'.loading = sessions.loading \/ LoadSessions \in cs
    BY <1>1, <1>2 DEF AInv, PidAsked, SessionsFields
  <2>4. watch'.loading = watch.loading \/ LoadLocks \in cs
    BY <1>1, <1>2, <1>6 DEF WatchFields
  <2> QED BY <2>1, <2>2, <2>3, <2>4 DEF Spun
<1>8. Spins'
  BY <1>1, <1>7, SendSpins DEF SendsSpun, WorkInv
<1>9. Watching(watch.started \/ Tick \in cs)
  BY <1>1, <1>5, <1>6 DEF Watching, WatchFields
<1>10. OneTimer'
  BY <1>1, <1>5, <1>9, TimerSent DEF WorkInv
<1>11. SameSettings
  BY <1>1 DEF SameSettings, SettingsFields, WorkInv, SettingsHold, SettingShapes
<1>12. SettingsHold'
  BY <1>1, <1>4, <1>11, SentAside, AsideHolds DEF SameServer, WorkInv, world
<1> QED BY <1>8, <1>10, <1>12 DEF WorkInv

----------------------------------------------------------------------------
(* Answers.                                                                *)

LEMMA AnswerFree ==
  ASSUME WorkInv, NEW a \in DOMAIN answers, NEW cs, Reply(a, cs), Free(cs),
         a.cmd.kind \notin {"tick", "setting"}, Spun({a.cmd}, cs), Watching(watch.started),
         UNCHANGED server, SameSettings
  PROVE  WorkInv'
<1>1. Spins'
  BY RepliedNow, SpunSpins DEF WorkInv
<1>2. a # TickAnswer /\ Tick \notin cs /\ TrueTicks(cs)
  BY DEF TickAnswer, Tick, Free, TrueTicks
<1>3. OneTimer'
  BY <1>2, TimerReplied DEF WorkInv
<1>4. SettingsHold'
  BY RepliedAside, AsideHolds DEF Free, SameServer, WorkInv
<1> QED BY <1>1, <1>3, <1>4 DEF WorkInv

LEMMA StillSettings == ASSUME WorkInv, UNCHANGED settingsVars PROVE SameSettings
BY DEF WorkInv, SettingsHold, SettingShapes, SameSettings, settingsVars

LEMMA DatabasesAnswersWork ==
  ASSUME IInv, AInv, WorkInv, NEW a \in DOMAIN answers,
         DatabasesAnswer(a) \/ DatabasesTabAnswer(a)
  PROVE  WorkInv'
<1> USE DEF IInv, Shapes, DatabasesFields, BrowserFields, ViewBecomes, BrowserBecomes, Answered
<1>0. /\ UNCHANGED <<server, monitorVars, settingsVars>> /\ UNCHANGED <<sessions, watch>>
      /\ SameSettings /\ Watching(watch.started)
  <2>1. UNCHANGED <<server, monitorVars, settingsVars>>
    BY DEF DatabasesAnswer, DatabasesTabAnswer, world
  <2> QED BY <2>1, StillSettings, StillWatching, StillViews DEF WorkInv
<1>1. ASSUME NEW cs, Reply(a, cs), Free(cs), Spun({a.cmd}, cs),
             a.cmd.kind \notin {"tick", "setting"}
      PROVE  WorkInv'
  BY <1>0, <1>1, AnswerFree
<1>a. a.cmd.kind = "databases" \/ a.cmd.kind = "tables" \/ a.cmd.kind = "describe"
        \/ a.cmd.kind = "data" \/ a.cmd.kind = "exec" =>
      a.cmd # LoadSessions /\ a.cmd # LoadLocks /\ a.cmd.kind # "query"
  BY DEF LoadSessions, LoadLocks
<1>2. CASE DatabasesAnswer(a)
  <2>1. query'.running = query.running
    BY <1>2 DEF DatabasesAnswer, DatabaseNames, QueryBecomes, Filtered, queryVars, AInv,
                QueryAsked, QueryFields
  <2>2. /\ databases'.loading = FALSE /\ databases'.describing = databases.describing
        /\ UNCHANGED browser
    BY <1>2 DEF DatabasesAnswer, ListDatabases
  <2>3. Spun({a.cmd}, {})
    BY <1>0, <1>a, <1>2, <2>1, <2>2 DEF Spun, DatabasesAnswer
  <2> QED BY <1>1, <1>2, <2>3, FreeAre DEF DatabasesAnswer
<1>3. CASE Answered("tables", a) /\ TablesMsg(a) /\ Reply(a, {}) /\ UNCHANGED queryVars
  <2>1. /\ databases'.describing = databases.describing /\ UNCHANGED browser
        /\ databases'.selected = databases.selected
        /\ databases'.loading => databases.loading /\ a.cmd.db # databases.selected
    BY <1>3 DEF TablesMsg, OfSelected, databasesVars
  <2>2. a.cmd # LoadDatabases
          /\ (a.cmd.db # databases.selected => a.cmd # LoadTables(databases.selected))
    BY <1>3 DEF LoadDatabases, LoadTables
  <2>3. Spun({a.cmd}, {})
    BY <1>0, <1>a, <1>3, <2>1, <2>2, StillViews DEF Spun
  <2> QED BY <1>1, <1>3, <2>3, FreeAre
<1>4. CASE Answered("describe", a) /\ DescribeMsg(a) /\ Reply(a, {}) /\ UNCHANGED queryVars
  <2>1. /\ databases'.describing = FALSE /\ UNCHANGED browser
        /\ databases'.selected = databases.selected /\ databases'.loading = databases.loading
    BY <1>4 DEF DescribeMsg
  <2>2. a.cmd # LoadDatabases /\ a.cmd # LoadTables(databases.selected)
    BY <1>4 DEF LoadDatabases, LoadTables
  <2>3. Spun({a.cmd}, {})
    BY <1>0, <1>a, <1>4, <2>1, <2>2, StillViews DEF Spun
  <2> QED BY <1>1, <1>4, <2>3, FreeAre
<1>5. CASE Answered("data", a) /\ TableDataMsg(a) /\ Reply(a, {}) /\ UNCHANGED queryVars
  <2>1. /\ UNCHANGED databases /\ browser'.token = browser.token
        /\ browser'.loading => browser.loading /\ a.cmd.token # browser.token
    BY <1>5 DEF TableDataMsg, Current, databasesVars
  <2>2. a.cmd # LoadDatabases /\ a.cmd # LoadTables(databases.selected)
    BY <1>5 DEF LoadDatabases, LoadTables
  <2>3. Spun({a.cmd}, {})
    BY <1>0, <1>a, <1>5, <2>1, <2>2, StillViews DEF Spun
  <2> QED BY <1>1, <1>5, <2>3, FreeAre
<1>6. CASE Answered("exec", a) /\ ExecMsg(a) /\ Reply(a, Reloads(a)) /\ UNCHANGED queryVars
  <2>1. /\ databases'.describing = databases.describing /\ UNCHANGED browser
        /\ databases'.selected = databases.selected /\ databases'.loading = databases.loading
    BY <1>6 DEF ExecMsg
  <2>2. a.cmd # LoadDatabases /\ a.cmd # LoadTables(databases.selected)
    BY <1>6 DEF LoadDatabases, LoadTables
  <2>3. Spun({a.cmd}, Reloads(a))
    BY <1>0, <1>a, <1>6, <2>1, <2>2, StillViews DEF Spun
  <2> QED BY <1>1, <1>6, <2>3, FreeAre DEF Reloads
<1> QED BY <1>2, <1>3, <1>4, <1>5, <1>6 DEF DatabasesTabAnswer

LEMMA QueryAnswerWorks ==
  ASSUME AInv, WorkInv, NEW a \in DOMAIN answers, QueryTabAnswer(a) PROVE WorkInv'
<1>1. /\ UNCHANGED <<server, databasesVars, monitorVars, settingsVars>>
      /\ Reply(a, {}) /\ a.cmd.kind = "query"
  BY DEF QueryTabAnswer, Answered, world
<1>2. query'.running = FALSE
  BY DEF QueryTabAnswer, QueryMsg, QueryBecomes, AInv, QueryAsked, QueryFields
<1>3. /\ a.cmd # LoadDatabases /\ a.cmd # LoadTables(databases.selected)
      /\ a.cmd # LoadSessions /\ a.cmd # LoadLocks
  BY <1>1 DEF LoadDatabases, LoadTables, LoadSessions, LoadLocks
<1>4. Spun({a.cmd}, {})
  BY <1>1, <1>2, <1>3, StillViews DEF Spun
<1>5. SameSettings /\ Watching(watch.started)
  BY <1>1, StillSettings, StillWatching, StillViews DEF WorkInv
<1> QED BY <1>1, <1>4, <1>5, AnswerFree, FreeAre

LEMMA MonitorAnswersWork ==
  ASSUME AInv, WorkInv, NEW a \in DOMAIN answers, MonitorTabAnswer(a) PROVE WorkInv'
<1> USE DEF SessionsFields, WatchFields, SessionsBecome, WatchBecomes, Answered
<1>0. /\ UNCHANGED <<server, queryVars, databasesVars, settingsVars>> /\ SameSettings
      /\ DOMAIN sessions = SessionsFields /\ DOMAIN watch = WatchFields
      /\ watch.started \in BOOLEAN
  BY StillSettings DEF MonitorTabAnswer, world, WorkInv, OneTimer, AInv, PidAsked
<1>a. a.cmd.kind \in {"sessions", "session action", "dashboard", "tick", "locks"} =>
        /\ a.cmd # LoadDatabases /\ a.cmd # LoadTables(databases.selected)
        /\ a.cmd.kind \notin {"query", "describe", "data"}
  <2>1. LoadDatabases.kind = "databases" /\ LoadTables(databases.selected).kind = "tables"
    BY DEF LoadDatabases, LoadTables
  <2> QED BY <2>1
<1>b. (a.cmd = LoadSessions => a.cmd.kind = "sessions") /\ (a.cmd = LoadLocks => a.cmd.kind = "locks")
  BY DEF LoadSessions, LoadLocks
<1>1. ASSUME NEW cs, Reply(a, cs), Free(cs), Watching(watch.started),
             a.cmd.kind \in {"sessions", "session action", "dashboard", "locks"},
             sessions'.loading = FALSE
               \/ (sessions'.loading = sessions.loading /\ a.cmd.kind # "sessions"),
             watch'.loading = FALSE
               \/ (watch'.loading = watch.loading /\ a.cmd.kind # "locks")
      PROVE  WorkInv'
  <2>1. Spun({a.cmd}, cs)
    BY <1>0, <1>a, <1>b, <1>1, StillViews DEF Spun
  <2> QED BY <1>0, <1>1, <2>1, AnswerFree
<1>2. CASE Answered("sessions", a) /\ SessionsMsg(a) /\ Reply(a, {})
  <2>1. sessions'.loading = FALSE /\ UNCHANGED watch
    BY <1>0, <1>2 DEF SessionsMsg
  <2> QED BY <1>1, <1>2, <2>1, FreeAre, StillWatching DEF WorkInv
<1>3. CASE Answered("session action", a) /\ SessionActionMsg(a) /\ Reply(a, {LoadSessions})
  <2>1. sessions'.loading = sessions.loading /\ UNCHANGED watch
    BY <1>0, <1>3 DEF SessionActionMsg
  <2> QED BY <1>1, <1>3, <2>1, FreeAre, StillWatching DEF WorkInv
<1>4. CASE Answered("dashboard", a) /\ DashboardMsg(a) /\ Reply(a, {})
  <2>1. watch'.loading = watch.loading /\ UNCHANGED sessions /\ Watching(watch.started)
    BY <1>0, <1>4 DEF DashboardMsg, Watching
  <2> QED BY <1>1, <1>4, <2>1, FreeAre
<1>5. CASE Answered("locks", a) /\ LocksMsg(a) /\ Reply(a, {})
  <2>1. watch'.loading = FALSE /\ UNCHANGED sessions /\ Watching(watch.started)
    BY <1>0, <1>5 DEF LocksMsg, Watching
  <2> QED BY <1>1, <1>5, <2>1, FreeAre
<1>6. CASE Answered("tick", a) /\ TickMsg(a) /\ Reply(a, AfterTick)
  <2>1. UNCHANGED <<sessions, watch>>
    BY <1>6, StillViews DEF TickMsg
  <2>2. a = TickAnswer
    BY <1>6 DEF WorkInv, OneTimer, TickShape
  <2>3. /\ Tick \in AfterTick /\ TrueTicks(AfterTick)
        /\ \A c \in AfterTick : c.kind # "setting"
    BY DEF AfterTick, TrueTicks, Tick, LoadDashboard
  <2>4. Spun({a.cmd}, AfterTick)
    BY <1>0, <1>a, <1>b, <1>6, <2>1, StillViews DEF Spun
  <2>5. Spins'
    BY <1>6, <2>4, RepliedNow, SpunSpins DEF WorkInv
  <2>6. OneTimer'
    BY <1>6, <2>1, <2>2, <2>3, StillWatching, TimerReplied DEF WorkInv
  <2>7. SettingsHold'
    BY <1>0, <1>6, <2>3, RepliedAside, AsideHolds DEF SameServer, WorkInv
  <2> QED BY <2>5, <2>6, <2>7 DEF WorkInv
<1> QED BY <1>2, <1>3, <1>4, <1>5, <1>6 DEF MonitorTabAnswer

LEMMA SettingsAnswersWork ==
  ASSUME WorkInv, NEW a \in DOMAIN answers, SettingsTabAnswer(a) PROVE WorkInv'
<1> USE DEF SettingsFields, SettingsBecome, Answered
<1>0. /\ UNCHANGED <<server, queryVars, databasesVars, monitorVars>>
      /\ DOMAIN settings = SettingsFields /\ settings.form \in Gucs \union {NoForm}
      /\ Watching(watch.started)
  BY StillWatching, StillViews DEF SettingsTabAnswer, world, WorkInv, SettingsHold, SettingShapes
<1>1. ASSUME a.cmd.kind \in {"tuning", "settings", "setting"}, NEW cs PROVE Spun({a.cmd}, cs)
  <2>1. /\ a.cmd # LoadDatabases /\ a.cmd # LoadTables(databases.selected)
        /\ a.cmd # LoadSessions /\ a.cmd # LoadLocks
    BY <1>1 DEF LoadDatabases, LoadTables, LoadSessions, LoadLocks
  <2> QED BY <1>0, <1>1, <2>1, StillViews DEF Spun
<1>2. CASE Answered("tuning", a) /\ TuningMsg(a) /\ Reply(a, {})
  <2>1. SameSettings
    BY <1>0, <1>2 DEF TuningMsg, SameSettings
  <2> QED BY <1>0, <1>1, <1>2, <2>1, FreeAre, AnswerFree
<1>3. CASE Answered("settings", a) /\ AllSettingsMsg(a) /\ Reply(a, {})
  <2>1. SameSettings
    BY <1>0, <1>3 DEF AllSettingsMsg, Relisted, SameSettings
  <2> QED BY <1>0, <1>1, <1>3, <2>1, FreeAre, AnswerFree
<1>4. CASE Answered("setting", a) /\ SettingApplyMsg(a) /\ Reply(a, AfterApply(a))
  <2>1. SettingsHold'
    BY <1>0, <1>4, AppliedAnswer DEF WorkInv
  <2>2. Spins'
    BY <1>1, <1>4, RepliedNow, SpunSpins DEF WorkInv
  <2>3. a # TickAnswer /\ Tick \notin AfterApply(a) /\ TrueTicks(AfterApply(a))
    BY <1>4 DEF TickAnswer, Tick, AfterApply, LoadAllSettings, TrueTicks
  <2>4. OneTimer'
    BY <1>0, <1>4, <2>3, TimerReplied DEF WorkInv
  <2> QED BY <2>1, <2>2, <2>4 DEF WorkInv
<1> QED BY <1>2, <1>3, <1>4 DEF SettingsTabAnswer

----------------------------------------------------------------------------
(* Commands.                                                               *)

LEMMA SettingGone ==
  ASSUME Spins, UNCHANGED <<queryVars, databasesVars, monitorVars>>, NEW c, c.kind = "setting",
         UnderwayNow \ {c} \subseteq UnderwayNow'
  PROVE  Spins'
<1>1. /\ LoadDatabases # c /\ LoadTables(databases.selected) # c
      /\ LoadSessions # c /\ LoadLocks # c
  BY DEF LoadDatabases, LoadTables, LoadSessions, LoadLocks
<1>2. Spun({c}, {})
  BY <1>1, StillViews DEF Spun
<1> QED BY <1>2, SpunSpins

LEMMA NothingGone ==
  ASSUME Spins, UNCHANGED <<queryVars, databasesVars, monitorVars>>, UnderwayNow \subseteq UnderwayNow'
  PROVE  Spins'
<1>1. Spun({}, {})
  BY StillViews DEF Spun
<1>2. UnderwayNow \ {} \subseteq UnderwayNow' /\ {} \subseteq UnderwayNow'
  OBVIOUS
<1> QED BY <1>1, <1>2, SpunSpins

LEMMA AlterTimer ==
  ASSUME OneTimer, SettingsHold, NEW c \in DOMAIN pending, AlterSystem(c), UNCHANGED watch
  PROVE  OneTimer'
<1> DEFINE q == [c EXCEPT !.step = "reload"]
<1>1. c.kind = "setting" /\ DOMAIN c = SettingFields
  BY DEF AlterSystem, SettingsHold, ShapedSetting, UnderwayNow
<1>2. PICK r : /\ pending' = BagAdd(BagRemove(pending, c), r) /\ answers' = answers
               /\ r.kind = "setting"
  <2>1. pending' = BagAdd(BagRemove(pending, c), q) /\ answers' = answers
    BY Zenon DEF AlterSystem
  <2>2. q.kind = "setting"
    BY <1>1 DEF SettingFields
  <2> HIDE DEF q
  <2> QED BY <2>1, <2>2
<1>3. c # Tick /\ r # Tick
  BY <1>1, <1>2 DEF Tick
<1>4. /\ Counted(BagRemove(pending, c))
      /\ Copies(Tick, BagRemove(pending, c)) = Copies(Tick, pending)
  BY <1>3, RemovedExactly DEF OneTimer
<1>5. Counted(pending') /\ Copies(Tick, pending') = Copies(Tick, pending)
  BY <1>2, <1>3, <1>4, AddedExactly
<1>6. \A d \in DOMAIN pending' : d \in DOMAIN pending \/ d = r
  <2>1. DOMAIN pending' = DOMAIN BagRemove(pending, c) \union {r}
    BY <1>2, Added
  <2> QED BY <2>1, Removed
<1>7. TickShape'
  BY <1>2, <1>6 DEF OneTimer, TickShape
<1> QED BY <1>2, <1>5, <1>7 DEF OneTimer, Timers

LEMMA TickRuns == Tick.kind = "tick" /\ Rows(Tick) = {<<>>} /\ Accepted(Tick)
<1>1. Tick.kind = "tick"
  BY DEF Tick
<1> QED BY <1>1 DEF Rows, Accepted, OnePool

LEMMA EffectIs ==
  ASSUME SettingShapes, NEW c, server' = Effect(c)
  PROVE  Told /\ (c.kind # "setting" => SameServer) /\ (c.kind = "setting" => server'.signalled)
BY DEF SettingShapes, Effect, Signalled, Told, SameServer

LEMMA DoneWorks ==
  ASSUME WorkInv, UNCHANGED <<queryVars, databasesVars, monitorVars, settingsVars>>,
         NEW c \in DOMAIN pending, NEW ok \in BOOLEAN, NEW rows, Done(c, ok, rows),
         c = Tick => ok = TRUE /\ rows = <<>>,
         c.kind # "setting" => SameServer,
         c.kind = "setting" => Told,
         c.kind = "setting" /\ ok => c.step = "reload" /\ server'.signalled
  PROVE  WorkInv'
<1>1. Spins'
  BY DoneNow, NothingGone DEF WorkInv
<1>2. OneTimer'
  BY TimerDone, StillViews DEF WorkInv
<1>3. SettingsHold'
  <2>1. CASE c.kind = "setting"
    BY <2>1, SettingDone DEF WorkInv
  <2>2. CASE c.kind # "setting"
    BY <2>2, DoneAside, AsideHolds, StillSettings DEF WorkInv
  <2> QED BY <2>1, <2>2
<1> QED BY <1>1, <1>2, <1>3 DEF WorkInv

LEMMA CommandWorks == ASSUME WorkInv, CommandStep PROVE WorkInv'
<1>0. UNCHANGED <<queryVars, databasesVars, monitorVars, settingsVars>> /\ UNCHANGED watch
  BY StillViews DEF CommandStep
<1>1. SettingShapes
  BY DEF WorkInv, SettingsHold
<1>2. ASSUME NEW c \in DOMAIN pending, RunCommand(c) PROVE WorkInv'
  <2>1. PICK rows \in Rows(c) : Done(c, TRUE, rows)
    BY <1>2 DEF RunCommand
  <2>2. c.kind = "setting" => c.step = "reload"
    BY <1>2 DEF RunCommand
  <2>3. server' = Effect(c)
    BY <1>2 DEF RunCommand
  <2>4. c = Tick => rows = <<>>
    BY TickRuns
  <2> QED BY <1>0, <1>1, <2>1, <2>2, <2>3, <2>4, EffectIs, DoneWorks
<1>3. ASSUME NEW c \in DOMAIN pending, RefuseCommand(c) \/ FailCommand(c) PROVE WorkInv'
  <2>1. Done(c, FALSE, <<>>) /\ UNCHANGED server /\ c # Tick
    BY <1>3, TickRuns DEF RefuseCommand, FailCommand, world
  <2>2. SameServer /\ Told
    BY <1>1, <2>1 DEF SameServer, Told, SettingShapes
  <2> QED BY <1>0, <2>1, <2>2, DoneWorks
<1>4. ASSUME NEW c \in DOMAIN pending, AlterSystem(c) PROVE WorkInv'
  <2>1. UnderwayNow \ {c} \subseteq UnderwayNow' /\ c.kind = "setting"
    <3>1. \A d \in DOMAIN pending : d # c => d \in DOMAIN BagRemove(pending, c)
      BY DEF BagRemove
    <3>2. \A b, e : DOMAIN BagAdd(b, e) = DOMAIN b \union {e}
      BY Added
    <3>3. PICK r : pending' = BagAdd(BagRemove(pending, c), r)
      BY <1>4, Zenon DEF AlterSystem
    <3>4. c.kind = "setting" /\ UNCHANGED answers
      BY <1>4 DEF AlterSystem
    <3>5. \A d \in DOMAIN pending : d # c => d \in DOMAIN pending'
      BY <3>1, <3>2, <3>3
    <3> QED BY <3>4, <3>5 DEF UnderwayNow
  <2>2. Spins'
    BY <1>0, <2>1, SettingGone DEF WorkInv
  <2>3. OneTimer' /\ SettingsHold'
    BY <1>0, <1>4, AlterTimer, AlterHolds DEF WorkInv
  <2> QED BY <2>2, <2>3 DEF WorkInv
<1>5. ASSUME UNCHANGED commands, ReadConfig \/ SameServer PROVE WorkInv'
  <2>1. UNCHANGED <<pending, answers>> /\ UnderwayNow' = UnderwayNow
    BY <1>5 DEF commands, UnderwayNow
  <2>2. Spins'
    BY <1>0, <2>1, NothingGone DEF WorkInv
  <2>3. OneTimer'
    BY <1>0, <2>1 DEF WorkInv, OneTimer, TickShape, Timers
  <2>4. SettingsAside
    BY <2>1 DEF SettingsAside, WorkInv, SettingsHold
  <2>5. SettingsHold'
    BY <1>0, <1>5, <2>4, ReadHolds, AsideHolds, StillSettings DEF WorkInv
  <2> QED BY <2>2, <2>3, <2>5 DEF WorkInv
<1>6. ASSUME SomebodyElse PROVE WorkInv'
  <2>1. PICK x, y : server' = [server EXCEPT !.dbs = x] \/ server' = [server EXCEPT !.pids = y]
    BY <1>6 DEF SomebodyElse
  <2>2. SameServer
    BY <1>1, <2>1 DEF SettingShapes, SameServer
  <2> QED BY <1>5, <1>6, <2>2 DEF SomebodyElse
<1>7. ReadConfig => UNCHANGED commands
  BY DEF ReadConfig
<1> QED BY <1>2, <1>3, <1>4, <1>5, <1>6, <1>7 DEF CommandStep

----------------------------------------------------------------------------

LEMMA StartedBag ==
  ASSUME NEW s, NEW c
  PROVE  DOMAIN SetToBag(s) = s /\ Counted(SetToBag(s))
           /\ Copies(c, SetToBag(s)) = IF c \in s THEN 1 ELSE 0
BY DEF SetToBag, Counted, Copies

LEMMA InitWorks == ASSUME Init PROVE WorkInv
<1> DEFINE Opened(t) == IF t = "dashboard" THEN {LoadDashboard, Tick} ELSE Loads(t)
           s == UNION {Opened(t) : t \in TabNames \intersect job}
<1>1. pending = SetToBag(s) /\ DOMAIN answers = {}
  BY DEF Init, EmptyBag, SetToBag
<1>2. /\ "databases" \in job => LoadDatabases \in s
      /\ "sessions" \in job => LoadSessions \in s
      /\ "locks" \in job => LoadLocks \in s
  BY DEF Loads, TabNames
<1>3. /\ \A c \in s : c.kind # "setting"
      /\ \A c \in s : c.kind = "tick" => c = Tick
      /\ Tick \in s <=> "dashboard" \in job
  <2>1. \A t \in TabNames : t # "dashboard" => Free(Opened(t))
    BY FreeAre DEF Loads, TabNames
  <2>2. Opened("dashboard") = {LoadDashboard, Tick}
    OBVIOUS
  <2>3. Tick.kind = "tick" /\ LoadDashboard.kind = "dashboard"
    BY DEF Tick, LoadDashboard
  <2>4. "dashboard" \in TabNames
    BY DEF TabNames
  <2> HIDE DEF Opened
  <2> QED BY <2>1, <2>2, <2>3, <2>4 DEF Free
<1> HIDE DEF s
<1>4. Counted(pending) /\ DOMAIN pending = s /\ Counted(answers) /\ UnderwayNow = s
  BY <1>1, StartedBag DEF Counted, UnderwayNow
<1>5. Spins
  BY <1>2, <1>4 DEF Init, QueryInit, DatabasesInit, MonitorInit, Spins, QuerySpins, ListSpins,
                    DescribeSpins, RowsSpin, SessionsSpin, LocksSpin, Underway
<1>6. OneTimer
  <2>1. Copies(TickAnswer, answers) = 0
    BY <1>1 DEF Copies
  <2>2. Copies(Tick, pending) = IF "dashboard" \in job THEN 1 ELSE 0
    BY <1>1, <1>3, StartedBag
  <2>0. DOMAIN watch = WatchFields /\ watch.started = ("dashboard" \in job)
    BY DEF Init, MonitorInit, WatchFields
  <2>3. watch.started \in BOOLEAN /\ (watch.started <=> "dashboard" \in job)
    <3>1. CASE "dashboard" \in job
      <4>1. ("dashboard" \in job) = TRUE
        BY <3>1, Zenon
      <4>2. watch.started = TRUE
        BY <4>1, <2>0, Zenon
      <4> QED BY <4>2, <3>1, Zenon
    <3>2. CASE ~("dashboard" \in job)
      <4>1. ~watch.started
        BY <2>0, <3>2
      <4>2. watch.started \in BOOLEAN
        BY <2>0, <3>2
      <4> QED BY <4>1, <4>2, <3>2, Zenon
    <3> QED BY <3>1, <3>2, Zenon
  <2>4. TickShape
    BY <1>1, <1>3, <1>4 DEF TickShape
  <2>5. /\ watch.started => Timers(pending, answers) = 1
        /\ ~watch.started => Timers(pending, answers) = 0
    BY <2>1, <2>2, <2>3 DEF Timers
  <2> QED BY <1>4, <2>0, <2>3, <2>4, <2>5 DEF OneTimer
<1>7. SettingShapes /\ StatusOK
  BY DEF Init, SettingsInit, CommandsInit, SettingShapes, SettingsFields, StatusOK, NoStatus
<1>8. SettingsHold
  BY <1>1, <1>3, <1>4, <1>7 DEF SettingsHold, ShapedSetting, Sole, Sets, Written, InForce
<1> QED BY <1>5, <1>6, <1>8 DEF WorkInv

LEMMA WorkStep == ASSUME IInv, AInv, WorkInv, [Next]_vars PROVE WorkInv'
<1>1. CASE UNCHANGED vars
  <2>1. /\ UNCHANGED <<pending, answers, server>> /\ UnderwayNow' = UnderwayNow
        /\ UNCHANGED <<queryVars, databasesVars, monitorVars, settingsVars, watch>>
    BY <1>1 DEF vars, commands, world, monitorVars, UnderwayNow
  <2>2. Spins'
    BY <2>1, NothingGone DEF WorkInv
  <2>3. OneTimer'
    BY <2>1 DEF WorkInv, OneTimer, TickShape, Timers
  <2>4. SettingsAside /\ SameServer
    BY <2>1 DEF SettingsAside, SameServer, WorkInv, SettingsHold
  <2>5. SettingsHold'
    BY <2>1, <2>4, AsideHolds, StillSettings DEF WorkInv
  <2> QED BY <2>2, <2>3, <2>5 DEF WorkInv
<1>2. ASSUME NEW a \in DOMAIN answers, Answer(a) PROVE WorkInv'
  BY <1>2, DatabasesAnswersWork, QueryAnswerWorks, MonitorAnswersWork, SettingsAnswersWork
     DEF Answer
<1> QED BY <1>1, <1>2, SwitchWorks, TabKeysKeep, SettingsKeysKeep, CommandWorks DEF Next

\* What the screen says of work is true: a spinner has a command behind it that will stop
\* it, the Dashboard that was started has exactly one timer however often it is opened again,
\* a setting called applied is, unless the last two changes of it overlapped (databases.go,
\* datatable.go, sessions.go, locks.go Update; dashboard.go started; tuning.go settingApplyMsg).
THEOREM ScreenTellsTheTruth == Spec => []WorkIsTold
<1>1. Init => IInv /\ AInv /\ WorkInv
  BY InitHolds, InitAsked, InitWorks, CommandConstants
<1>2. IInv /\ AInv /\ WorkInv /\ [Next]_vars => IInv' /\ AInv' /\ WorkInv'
  BY NextKeeps, StepKept, KeptMeans, WorkStep
<1>3. WorkInv => WorkIsTold
  BY DEF WorkInv, Spins, QuerySpins, ListSpins, DescribeSpins, RowsSpin, SessionsSpin, LocksSpin,
         OneTimer, SettingsHold, StatusOK, WorkIsTold
<1> QED BY <1>1, <1>2, <1>3, PTL DEF Spec

----------------------------------------------------------------------------
(* Types.  A list arrives as an order of what the server had; a command    *)
(* that creates names a database.                                          *)

ServerTyped ==
  /\ server.dbs \in SUBSET Databases /\ server.pids \in SUBSET Pids
  /\ server.file \in [Gucs -> Values] /\ server.live \in [Gucs -> Values]
Creates(c) == c.kind = "exec" /\ c.op = "create"
CommandTyped(c) == Creates(c) => c.db \in Databases
RowsTyped(a) ==
  /\ a.ok \in BOOLEAN
  /\ a.ok =>
       /\ a.cmd.kind = "databases" => a.rows \in Seq(Databases)
       /\ a.cmd.kind = "tables" => a.rows \in Seq(Places)
       /\ a.cmd.kind = "sessions" => a.rows \in Seq(Pids)
       /\ a.cmd.kind = "settings" => a.rows \in Seq(Gucs)
BagsTyped ==
  /\ IsABag(pending) /\ IsABag(answers)
  /\ \A c \in DOMAIN pending : CommandTyped(c)
  /\ \A a \in DOMAIN answers : RowsTyped(a)
QueryTyped == query \in QueryViews /\ readied \in Sql
ListsTyped ==
  /\ DOMAIN databases = DatabasesFields
  /\ databases.list \in Seq(Databases) /\ databases.tables \in Seq(Places)
  /\ databases.list # <<>> => databases.cursor \in 0 .. Len(databases.list)
  /\ databases.tables # <<>> => databases.row \in 0 .. Len(databases.tables)
TokenTyped == DOMAIN browser = BrowserFields /\ browser.token \in 0 .. MaxLoads
SessionsTyped ==
  /\ DOMAIN sessions = SessionsFields /\ sessions.list \in Seq(Pids)
  /\ sessions.list # <<>> => sessions.cursor \in 0 .. Len(sessions.list)
SettingsTyped ==
  /\ DOMAIN settings = SettingsFields
  /\ settings.list \in Seq(Gucs) /\ settings.form \in Gucs \union {NoForm}
  /\ settings.cursor \in Nat
  /\ Listed(settings) # <<>> => settings.cursor \in 0 .. Len(Listed(settings))
ViewsTyped ==
  QueryTyped /\ ListsTyped /\ TokenTyped /\ SessionsTyped /\ SettingsTyped /\ active \in TabNames
TypeInv == ServerTyped /\ BagsTyped /\ ViewsTyped

----------------------------------------------------------------------------
(* Bags and lists.                                                         *)

LEMMA StaysABag ==
  ASSUME NEW b, IsABag(b), NEW e, NEW s
  PROVE  IsABag(BagRemove(b, e)) /\ IsABag(BagAdd(b, e)) /\ IsABag(b (+) SetToBag(s))
<1>1. IsABag(BagRemove(b, e))
  BY DEF IsABag, BagRemove
<1>2. IsABag(BagAdd(b, e))
  BY DEF IsABag, BagAdd
<1>3. IsABag(b (+) SetToBag(s))
  BY DEF IsABag, (+), SetToBag
<1> QED BY <1>1, <1>2, <1>3

LEMMA InSomeOrder ==
  ASSUME NEW S, NEW T \in SUBSET S, IsFiniteSet(T), NEW l \in SetToSeqs(T) PROVE l \in Seq(S)
<1>1. Cardinality(T) \in Nat
  BY FS_CardinalityType
<1>2. l \in [1 .. Cardinality(T) -> T]
  BY DEF SetToSeqs
<1>3. l \in Seq(T)
  BY <1>1, <1>2
<1> QED BY <1>3

LEMMA TableRowsFinite ==
  ASSUME NEW d \in Databases PROVE TableRows(d) \in SUBSET Places /\ IsFiniteSet(TableRows(d))
<1>1. TablesIn[d] \in SUBSET Tables /\ IsFiniteSet(Tables)
  BY CommandConstants
<1>2. IsFiniteSet(TablesIn[d])
  BY <1>1, FS_Subset
<1>3. PICK l \in Seq(TablesIn[d]) : \A t \in TablesIn[d] : \E n \in 1 .. Len(l) : l[n] = t
  BY <1>2 DEF IsFiniteSet
<1>4. IsFiniteSet(TableRows(d))
  <2> DEFINE m == [n \in 1 .. Len(l) |-> [db |-> d, name |-> l[n]]]
  <2>1. m \in Seq(TableRows(d)) /\ Len(m) = Len(l)
    <3>1. Len(l) \in Nat /\ \A n \in 1 .. Len(l) : l[n] \in TablesIn[d]
      OBVIOUS
    <3>2. m \in [1 .. Len(l) -> TableRows(d)]
      BY <3>1 DEF TableRows
    <3>3. m \in Seq(TableRows(d))
      BY <3>1, <3>2
    <3>4. DOMAIN m = 1 .. Len(l)
      OBVIOUS
    <3> HIDE DEF m
    <3> QED BY <3>1, <3>3, <3>4
  <2>2. ASSUME NEW r \in TableRows(d) PROVE \E n \in 1 .. Len(m) : m[n] = r
    <3>1. PICK t \in TablesIn[d] : r = [db |-> d, name |-> t]
      BY DEF TableRows
    <3>2. PICK n \in 1 .. Len(l) : l[n] = t
      BY <1>3
    <3>3. m[n] = r
      BY <3>1, <3>2
    <3> QED BY <2>1, <3>3
  <2> HIDE DEF m
  <2> QED BY <2>1, <2>2 DEF IsFiniteSet
<1> QED BY <1>1, <1>4 DEF TableRows, Places

----------------------------------------------------------------------------
(* Commands, as they are started, run and answered.                        *)

Ordinary(cs) == \A c \in cs : CommandTyped(c)
SendsTyped == \E cs : Send(cs) /\ Ordinary(cs)

LEMMA SendTyped == ASSUME BagsTyped, SendsTyped PROVE BagsTyped'
<1>1. PICK cs : Send(cs) /\ Ordinary(cs)
  BY DEF SendsTyped
<1>2. DOMAIN pending' = DOMAIN pending \union cs /\ answers' = answers
  BY <1>1, Sends
<1>3. IsABag(pending')
  BY <1>1, StaysABag DEF BagsTyped, Send, Start
<1> QED BY <1>1, <1>2, <1>3 DEF BagsTyped, Ordinary

LEMMA ReplyTyped ==
  ASSUME BagsTyped, NEW a, NEW cs, Reply(a, cs), Ordinary(cs) PROVE BagsTyped'
<1>1. /\ DOMAIN pending' = DOMAIN pending \union cs
      /\ DOMAIN answers' \subseteq DOMAIN answers
  BY Replies
<1>2. IsABag(pending') /\ IsABag(answers')
  BY StaysABag DEF BagsTyped, Reply, Start
<1> QED BY <1>1, <1>2 DEF BagsTyped, Ordinary

LEMMA DoneTyped ==
  ASSUME BagsTyped, NEW c \in DOMAIN pending, NEW ok, NEW rows, Done(c, ok, rows),
         RowsTyped([cmd |-> c, ok |-> ok, rows |-> rows])
  PROVE  BagsTyped'
<1> DEFINE r == [cmd |-> c, ok |-> ok, rows |-> rows]
<1>1. DOMAIN pending' \subseteq DOMAIN pending
  BY Removed DEF Done
<1>2. DOMAIN answers' = DOMAIN answers \union {r}
  BY Added DEF Done
<1>3. IsABag(pending') /\ IsABag(answers')
  BY StaysABag DEF BagsTyped, Done
<1> HIDE DEF r
<1>4. RowsTyped(r)
  BY DEF r
<1> QED BY <1>1, <1>2, <1>3, <1>4 DEF BagsTyped

LEMMA RowsAre ==
  ASSUME ServerTyped, NEW c, Accepted(c), NEW rows \in Rows(c)
  PROVE  RowsTyped([cmd |-> c, ok |-> TRUE, rows |-> rows])
<1>1. CASE c.kind = "databases"
  <2>1. rows \in SetToSeqs(server.dbs)
    BY <1>1 DEF Rows
  <2>2. IsFiniteSet(server.dbs) /\ server.dbs \in SUBSET Databases
    BY CommandConstants, FS_Subset DEF ServerTyped
  <2>3. rows \in Seq(Databases)
    BY <2>1, <2>2, InSomeOrder
  <2> QED BY <1>1, <2>3 DEF RowsTyped
<1>2. CASE c.kind = "tables"
  <2>1. rows \in SetToSeqs(TableRows(c.db))
    BY <1>2 DEF Rows
  <2>2. c.db \in Databases
    BY <1>2 DEF Accepted, OnePool, ServerTyped
  <2>3. rows \in Seq(Places)
    BY <2>1, <2>2, TableRowsFinite, InSomeOrder
  <2> QED BY <1>2, <2>3 DEF RowsTyped
<1>3. CASE c.kind = "sessions"
  <2>1. rows \in SetToSeqs(server.pids)
    BY <1>3 DEF Rows
  <2>2. IsFiniteSet(server.pids) /\ server.pids \in SUBSET Pids
    BY CommandConstants, FS_Subset DEF ServerTyped
  <2>3. rows \in Seq(Pids)
    BY <2>1, <2>2, InSomeOrder
  <2> QED BY <1>3, <2>3 DEF RowsTyped
<1>4. CASE c.kind = "settings"
  BY <1>4, CommandConstants DEF Rows, RowsTyped
<1>5. CASE c.kind \notin {"databases", "tables", "sessions", "settings"}
  BY <1>5 DEF RowsTyped
<1> QED BY <1>1, <1>2, <1>3, <1>4, <1>5

LEMMA EffectTyped ==
  ASSUME ServerTyped, SettingShapes, NEW c \in DOMAIN pending, BagsTyped, server' = Effect(c)
  PROVE  ServerTyped'
<1>1. Creates(c) => c.db \in Databases
  BY DEF BagsTyped, CommandTyped
<1> QED BY <1>1 DEF ServerTyped, SettingShapes, Effect, Signalled, Creates

LEMMA AlterTyped ==
  ASSUME ServerTyped, SettingShapes, BagsTyped, PendingOK, NEW c \in DOMAIN pending, AlterSystem(c)
  PROVE  ServerTyped' /\ BagsTyped'
<1>1. ServerTyped'
  <2>1. /\ server' = [server EXCEPT !.file = [@ EXCEPT ![c.name] = c.value]]
        /\ c.value \in Taken[c.name]
    BY DEF AlterSystem, Accepted
  <2>2. c.name \in Gucs => c.value \in Values
    BY <2>1, CommandConstants
  <2>3. server'.file = [server.file EXCEPT ![c.name] = c.value]
    BY <2>1 DEF SettingShapes
  <2>4. server'.file \in [Gucs -> Values]
    BY <2>2, <2>3 DEF ServerTyped
  <2>5. server'.dbs = server.dbs /\ server'.pids = server.pids /\ server'.live = server.live
    BY <2>1 DEF SettingShapes
  <2> QED BY <2>4, <2>5 DEF ServerTyped
<1>2. BagsTyped'
  <2> DEFINE q == [c EXCEPT !.step = "reload"]
  <2>1. "kind" \in DOMAIN c /\ c.kind = "setting"
    BY DEF AlterSystem, PendingOK, CurrentLoad
  <2>2. q.kind = "setting"
    BY <2>1
  <2>3. pending' = BagAdd(BagRemove(pending, c), q) /\ answers' = answers
    BY Zenon DEF AlterSystem
  <2> HIDE DEF q
  <2>4. IsABag(pending')
    BY <2>3, StaysABag DEF BagsTyped
  <2>5. DOMAIN pending' \subseteq DOMAIN pending \union {q}
    <3>1. DOMAIN pending' = DOMAIN BagRemove(pending, c) \union {q}
      BY <2>3, Added
    <3> QED BY <3>1, Removed
  <2>6. CommandTyped(q)
    BY <2>2 DEF CommandTyped, Creates
  <2> QED BY <2>3, <2>4, <2>5, <2>6 DEF BagsTyped
<1> QED BY <1>1, <1>2

LEMMA CommandTypes ==
  ASSUME ServerTyped, BagsTyped, SettingShapes, PendingOK, CommandStep
  PROVE  ServerTyped' /\ BagsTyped'
<1>1. ASSUME NEW c \in DOMAIN pending, RunCommand(c) PROVE ServerTyped' /\ BagsTyped'
  <2>1. PICK rows \in Rows(c) : Done(c, TRUE, rows)
    BY <1>1 DEF RunCommand
  <2>2. Accepted(c) /\ server' = Effect(c)
    BY <1>1 DEF RunCommand
  <2> QED BY <2>1, <2>2, RowsAre, EffectTyped, DoneTyped
<1>2. ASSUME NEW c \in DOMAIN pending, RefuseCommand(c) \/ FailCommand(c)
      PROVE  ServerTyped' /\ BagsTyped'
  <2>1. Done(c, FALSE, <<>>) /\ UNCHANGED server
    BY <1>2 DEF RefuseCommand, FailCommand, world
  <2>2. RowsTyped([cmd |-> c, ok |-> FALSE, rows |-> <<>>])
    BY DEF RowsTyped
  <2> QED BY <2>1, <2>2, DoneTyped DEF ServerTyped
<1>3. CASE ReadConfig
  <2>1. server' = [server EXCEPT !.signalled = FALSE,
                       !.live = [n \in Gucs |-> IF n \in Restarts THEN server.live[n]
                                             ELSE server.file[n]]]
    BY <1>3 DEF ReadConfig
  <2>2. ServerTyped'
    BY <2>1 DEF SettingShapes, ServerTyped
  <2> QED BY <1>3, <2>2 DEF ReadConfig, commands, BagsTyped
<1>4. CASE SomebodyElse
  <2>1. \/ \E d \in Databases :
             server' = [server EXCEPT !.dbs = IF d \in @ THEN @ \ {d} ELSE @ \union {d}]
        \/ \E p \in Pids :
             server' = [server EXCEPT !.pids = IF p \in @ THEN @ \ {p} ELSE @ \union {p}]
    BY <1>4 DEF SomebodyElse
  <2>2. ServerTyped'
    BY <2>1 DEF SettingShapes, ServerTyped
  <2> QED BY <1>4, <2>2 DEF SomebodyElse, commands, BagsTyped
<1> QED BY <1>1, <1>2, <1>3, <1>4, AlterTyped DEF CommandStep

----------------------------------------------------------------------------
(* The Query tab.                                                          *)

LEMMA OrdinaryCommands ==
  /\ Ordinary({}) /\ Ordinary({LoadDatabases}) /\ Ordinary({LoadSessions}) /\ Ordinary({LoadLocks})
  /\ Ordinary({LoadDashboard}) /\ Ordinary({LoadDashboard, Tick}) /\ Ordinary(TuningLoads)
  /\ Ordinary({LoadAllSettings})
  /\ \A d, q : Ordinary({RunQuery(d, q)})
  /\ \A d, q, n : Ordinary({LoadTableData(d, q, n)})
  /\ \A d : Ordinary({LoadTables(d)}) /\ Ordinary({DropDatabase(d)})
  /\ \A d \in Databases : Ordinary({CreateDatabase(d)})
  /\ \A d, t : Ordinary({DescribeTable(d, t)})
  /\ \A op, p : Ordinary({SessionAction(op, p)})
  /\ \A n, v : Ordinary({ApplySetting(n, v)})
BY DEF Ordinary, CommandTyped, Creates, LoadDatabases, LoadSessions, LoadLocks, LoadDashboard, Tick,
       TuningLoads, LoadTuning, LoadAllSettings, RunQuery, LoadTableData, LoadTables,
       CreateDatabase, DropDatabase, DescribeTable, SessionAction, ApplySetting

LEMMA Dangers == ASSUME NEW q PROVE Classify(q) \in Danger
BY DEF Classify, Danger

LEMMA FilteredTyped ==
  ASSUME NEW q \in QueryViews, NEW names \in Seq(Databases), NEW filter \in SUBSET Databases
  PROVE  Filtered(q, names, filter) \in QueryViews
<1> DEFINE n == Len(Matching(names, filter))
<1>1. n \in Nat
  BY OnlyKeeps DEF Matching
<1>2. q.cursor \in Nat \ {0}
  BY DEF QueryViews
<1> DEFINE c == IF q.cursor > n THEN IF n = 0 THEN 1 ELSE n ELSE q.cursor
<1> HIDE DEF n
<1>3. c \in Nat \ {0}
  BY <1>1, <1>2
<1>4. Filtered(q, names, filter) = [q EXCEPT !.names = names, !.filter = filter, !.cursor = c]
  BY Zenon DEF Filtered, n
<1> HIDE DEF c
<1> QED BY <1>3, <1>4 DEF QueryViews

LEMMA QueryKeysTyped == ASSUME QueryTyped, QueryKeys PROVE QueryTyped' /\ SendsTyped
<1> USE DEF QueryTyped, QueryBecomes
<1>0. Send({}) => SendsTyped
  BY OrdinaryCommands DEF SendsTyped
<1>01. \A d, q : Send({RunQuery(d, q)}) => SendsTyped
  BY OrdinaryCommands DEF SendsTyped
<1>1. CASE FocusEditor
  BY <1>0, <1>1 DEF FocusEditor, QueryViews, Modes
<1>2. CASE LeaveEditor
  BY <1>0, <1>2 DEF LeaveEditor, QueryViews, Modes
<1>3. CASE TypeText
  BY <1>0, <1>3 DEF TypeText, QueryViews, Typable
<1>4. CASE Submit
  <2>1. CASE Classify(query.text) = "Safe"
    <3>1. /\ Send({RunQuery(query.target, query.text)}) /\ UNCHANGED readied
          /\ query' = Running([query EXCEPT !.err = FALSE])
      BY <1>4, <2>1 DEF Submit
    <3> QED BY <1>01, <3>1 DEF Running, QueryViews
  <2>2. CASE Classify(query.text) # "Safe"
    <3> DEFINE d == Classify(query.text)
    <3>1. /\ Send({}) /\ UNCHANGED readied
          /\ query' = Asking([query EXCEPT !.err = FALSE], d)
      BY <1>4, <2>2 DEF Submit
    <3>2. d \in Danger
      BY Dangers
    <3> HIDE DEF d
    <3>3. query' \in QueryViews
      BY <3>1, <3>2 DEF Asking, QueryViews, Modes
    <3> QED BY <1>0, <3>1, <3>3
  <2> QED BY <2>1, <2>2
<1>5. CASE Explain
  BY <1>01, <1>5 DEF Explain, Running, QueryViews
<1>6. CASE TypeAnswer
  <2>1. query' = [query EXCEPT !.typed = ~@] /\ Send({})
        /\ readied' = IF query.typed THEN Empty ELSE query.pending
    BY <1>6 DEF TypeAnswer
  <2>2. query' \in QueryViews
    BY <2>1 DEF QueryViews
  <2>4. query.pending \in Sql /\ query.typed \in BOOLEAN
    BY DEF QueryViews
  <2>3. readied' \in Sql
    BY <2>1, <2>4, CommandConstants
  <2> QED BY <1>0, <2>1, <2>2, <2>3
<1>7. CASE ConfirmYes
  BY <1>01, <1>7 DEF ConfirmYes, Running, QueryViews, Modes
<1>8. CASE CancelPending
  <2>1. query' = [query EXCEPT !.pending = Empty, !.typed = FALSE, !.mode = "edit"] /\ Send({})
        /\ UNCHANGED readied
    BY <1>8 DEF CancelPending
  <2>2. Empty \in Sql
    BY CommandConstants
  <2>3. query' \in QueryViews
    BY <2>1, <2>2 DEF QueryViews, Modes
  <2> QED BY <1>0, <2>1, <2>3
<1>9. CASE OpenTarget
  <2> DEFINE q == [query EXCEPT !.mode = "target", !.cursor = 1]
  <2>1. query' = Filtered(q, query.names, Databases) /\ UNCHANGED readied
        /\ Send({LoadDatabases})
    BY <1>9 DEF OpenTarget
  <2>2. q \in QueryViews
    <3>1. ASSUME NEW n \in Nat \ {0} PROVE [query EXCEPT !.mode = "target", !.cursor = n] \in QueryViews
      BY DEF QueryViews, Modes
    <3>2. 1 \in Nat \ {0}
      OBVIOUS
    <3> QED BY <3>1, <3>2
  <2>4. query.names \in Seq(Databases)
    BY DEF QueryViews
  <2> HIDE DEF q
  <2>3. query' \in QueryViews
    BY <2>1, <2>2, <2>4, FilteredTyped
  <2> QED BY <2>1, <2>3, OrdinaryCommands DEF SendsTyped
<1>10. CASE TypeFilter
  <2>1. PICK filter \in SUBSET Databases : query' = Filtered(query, query.names, filter)
    BY <1>10 DEF TypeFilter
  <2>2. query.names \in Seq(Databases)
    BY DEF QueryViews
  <2>3. query' \in QueryViews
    BY <2>1, <2>2, FilteredTyped
  <2> QED BY <1>0, <1>10, <2>3 DEF TypeFilter
<1>11. CASE MoveTarget
  <2>1. PICK c \in DOMAIN Matching(query.names, query.filter) : query' = [query EXCEPT !.cursor = c]
    BY <1>11 DEF MoveTarget
  <2>2. query.names \in Seq(Databases)
    BY DEF QueryViews
  <2>3. Matching(query.names, query.filter) \in Seq(Databases \cap query.filter)
    BY <2>2, OnlyKeeps DEF Matching
  <2>4. c \in Nat \ {0}
    BY <2>3
  <2>5. query' \in QueryViews
    BY <2>1, <2>4 DEF QueryViews
  <2> QED BY <1>0, <1>11, <2>5 DEF MoveTarget
<1>12. CASE PickTarget
  <2> DEFINE shown == Matching(query.names, query.filter)
  <2>1. PICK d \in IF query.cursor \in DOMAIN shown THEN {shown[query.cursor]} ELSE Databases :
          query' = [query EXCEPT !.target = d, !.mode = "edit"]
    BY <1>12 DEF PickTarget
  <2>2. query.names \in Seq(Databases)
    BY DEF QueryViews
  <2>3. shown \in Seq(Databases \cap query.filter)
    BY <2>2, OnlyKeeps DEF Matching
  <2> HIDE DEF shown
  <2>4. d \in Databases
    BY <2>1, <2>3
  <2>5. query' \in QueryViews
    BY <2>1, <2>4 DEF QueryViews, Modes
  <2> QED BY <1>0, <1>12, <2>5 DEF PickTarget
<1>13. CASE CancelTarget
  BY <1>0, <1>13 DEF CancelTarget, QueryViews, Modes
<1> QED BY <1>1, <1>2, <1>3, <1>4, <1>5, <1>6, <1>7, <1>8, <1>9, <1>10, <1>11, <1>12, <1>13
        DEF QueryKeys

LEMMA QueryAnswersTyped ==
  ASSUME QueryTyped, NEW a, RowsTyped(a),
         QueryMsg(a) \/ (a.cmd.kind = "databases" /\ DatabaseNames(a))
  PROVE  QueryTyped'
<1> USE DEF QueryTyped, QueryBecomes
<1>1. CASE QueryMsg(a)
  <2> DEFINE rows == a.ok /\ a.rows # <<>>
  <2>1. query' = [query EXCEPT !.running = FALSE, !.err = ~a.ok, !.hasRes = rows,
                               !.mode = IF rows THEN "results" ELSE @] /\ UNCHANGED readied
    BY <1>1 DEF QueryMsg
  <2>2. a.ok \in BOOLEAN /\ rows \in BOOLEAN
    BY DEF RowsTyped
  <2> HIDE DEF rows
  <2> QED BY <2>1, <2>2 DEF QueryViews, Modes
<1>2. CASE a.cmd.kind = "databases" /\ DatabaseNames(a)
  <2>1. CASE ~a.ok
    BY <1>2, <2>1 DEF DatabaseNames, queryVars
  <2>2. CASE a.ok
    <3>1. a.rows \in Seq(Databases)
      BY <1>2, <2>2 DEF RowsTyped
    <3>2. query.filter \in SUBSET Databases
      BY DEF QueryViews
    <3>3. /\ query' \in {Filtered(query, a.rows, query.filter), [query EXCEPT !.names = a.rows]}
          /\ UNCHANGED readied
      BY <1>2, <2>2 DEF DatabaseNames
    <3>4. Filtered(query, a.rows, query.filter) \in QueryViews
      BY <3>1, <3>2, FilteredTyped
    <3>5. [query EXCEPT !.names = a.rows] \in QueryViews
      BY <3>1 DEF QueryViews
    <3> QED BY <3>3, <3>4, <3>5
  <2> QED BY <2>1, <2>2
<1> QED BY <1>1, <1>2

----------------------------------------------------------------------------
(* Lists and their cursors.                                                *)

LEMMA MovesWithin ==
  ASSUME NEW S, NEW l \in Seq(S), l # <<>>, NEW c \in 0 .. Len(l), NEW d \in Moves(l, c)
  PROVE  d \in 0 .. Len(l)
<1>1. Len(l) \in Nat \ {0}
  OBVIOUS
<1>2. d \in {IF c < Len(l) THEN c + 1 ELSE c, IF c > 1 THEN c - 1 ELSE 1}
  BY DEF Moves
<1> QED BY <1>1, <1>2

LEMMA CursorWithin ==
  ASSUME NEW S, NEW l \in Seq(S), NEW c, NEW d \in CursorIn(l, c)
  PROVE  d \in 0 .. Len(l)
<1>1. Len(l) \in Nat /\ DOMAIN l = 1 .. Len(l)
  OBVIOUS
<1>2. CASE c \in DOMAIN l \union {0}
  <2>1. d = c
    BY <1>2 DEF CursorIn
  <2> QED BY <1>1, <1>2, <2>1
<1>3. CASE c \notin DOMAIN l \union {0}
  <2>1. d \in {IF l = <<>> THEN 0 ELSE 1, Len(l)}
    BY <1>3 DEF CursorIn
  <2>2. d = Len(l) \/ d = 0 \/ (l # <<>> /\ d = 1)
    BY <2>1
  <2>3. l # <<>> => Len(l) # 0
    OBVIOUS
  <2> QED BY <1>1, <2>2, <2>3
<1> QED BY <1>2, <1>3

LEMMA ListKeysTyped ==
  ASSUME ListsTyped,
         \/ RefreshDatabases \/ MoveDatabase \/ EnterDatabase \/ OpenCreateDB \/ SubmitCreateDB
         \/ AskDropDB \/ DropDBYes \/ OpenFinder \/ PickFound \/ CancelModal \/ CloseAlert
  PROVE  ListsTyped' /\ SendsTyped /\ UNCHANGED browser
<1> USE DEF ListsTyped, DatabasesFields, ViewBecomes
<1>0. Send({}) => SendsTyped
  BY OrdinaryCommands DEF SendsTyped
<1>1. CASE RefreshDatabases
  BY <1>1, OrdinaryCommands DEF RefreshDatabases, Reloading, SendsTyped
<1>2. CASE MoveDatabase
  <2>1. databases.list # <<>>
    BY <1>2 DEF MoveDatabase
  <2>2. PICK c \in Moves(databases.list, databases.cursor) :
          databases' = [databases EXCEPT !.cursor = c] /\ UNCHANGED browser
    BY <1>2 DEF MoveDatabase
  <2>3. c \in 0 .. Len(databases.list)
    BY <2>1, MovesWithin
  <2> QED BY <1>0, <1>2, <2>2, <2>3 DEF MoveDatabase
<1>3. CASE EnterDatabase
  <2>1. databases' = [Reloading(databases) EXCEPT !.selected = SelectedDB, !.mode = "tables",
                                                  !.tables = <<>>, !.row = 0]
          /\ Send({LoadTables(SelectedDB)}) /\ UNCHANGED browser
    BY <1>3 DEF EnterDatabase
  <2>2. <<>> \in Seq(Places)
    OBVIOUS
  <2> QED BY <2>1, <2>2, OrdinaryCommands DEF SendsTyped, Reloading
<1>4. CASE OpenCreateDB
  BY <1>0, <1>4 DEF OpenCreateDB, Open
<1>5. CASE SubmitCreateDB
  BY <1>5, OrdinaryCommands DEF SubmitCreateDB, Closed, SendsTyped
<1>6. CASE AskDropDB
  BY <1>0, <1>6 DEF AskDropDB
<1>7. CASE DropDBYes
  BY <1>7, OrdinaryCommands DEF DropDBYes, Closed, SendsTyped
<1>8. CASE OpenFinder
  BY <1>0, <1>8 DEF OpenFinder, Open
<1>9. CASE PickFound
  <2>1. PICK k :
          databases' = IF databases.mode = "dbs" /\ k \in DOMAIN databases.list
                       THEN [Closed(databases) EXCEPT !.cursor = k]
                       ELSE IF databases.mode = "tables" /\ k \in DOMAIN databases.tables
                            THEN [Closed(databases) EXCEPT !.row = k]
                            ELSE Closed(databases)
    BY <1>9 DEF PickFound
  <2>2. k \in DOMAIN databases.list => k \in 0 .. Len(databases.list)
    OBVIOUS
  <2>3. k \in DOMAIN databases.tables => k \in 0 .. Len(databases.tables)
    OBVIOUS
  <2>4. ListsTyped'
    BY <2>1, <2>2, <2>3 DEF Closed
  <2> QED BY <1>0, <1>9, <2>4 DEF PickFound
<1>10. CASE CancelModal
  BY <1>0, <1>10 DEF CancelModal, Closed
<1>11. CASE CloseAlert
  BY <1>0, <1>11 DEF CloseAlert
<1> QED BY <1>1, <1>2, <1>3, <1>4, <1>5, <1>6, <1>7, <1>8, <1>9, <1>10, <1>11

LEMMA LoadTyped ==
  ASSUME NEW b, NEW q, Load(b, q), DOMAIN b = BrowserFields, b.token \in 0 .. MaxLoads
  PROVE  TokenTyped' /\ SendsTyped
<1>1. b.token < MaxLoads /\ browser' = Loading(b, q) /\ MaxLoads \in Nat
  BY DatabasesConstants DEF Load
<1>2. TokenTyped'
  BY <1>1 DEF Loading, TokenTyped, BrowserFields
<1> QED BY <1>2, OrdinaryCommands DEF Load, SendsTyped

LEMMA TableKeysTyped ==
  ASSUME ListsTyped, TokenTyped,
         \/ MoveTable \/ RefreshTables \/ LeaveTables \/ Describe \/ LeaveDescription
         \/ OpenTable \/ LeaveTable \/ ResetData \/ OpenSearch \/ SearchColumn
         \/ OpenQueryBar \/ RunQueryBar \/ LeaveField
  PROVE  ListsTyped' /\ TokenTyped' /\ SendsTyped
<1> USE DEF ListsTyped, DatabasesFields, ViewBecomes, BrowserBecomes
<1>0. Send({}) => SendsTyped
  BY OrdinaryCommands DEF SendsTyped
<1>01. UNCHANGED browser => TokenTyped'
  BY DEF TokenTyped
<1>02. UNCHANGED databases => ListsTyped'
  OBVIOUS
<1>1. CASE MoveTable
  <2>1. databases.tables # <<>>
    BY <1>1 DEF MoveTable
  <2>2. PICK c \in Moves(databases.tables, databases.row) :
          databases' = [databases EXCEPT !.row = c] /\ UNCHANGED browser
    BY <1>1 DEF MoveTable
  <2>3. c \in 0 .. Len(databases.tables)
    BY <2>1, MovesWithin
  <2> QED BY <1>0, <1>01, <1>1, <2>2, <2>3 DEF MoveTable
<1>2. CASE RefreshTables
  BY <1>01, <1>2, OrdinaryCommands DEF RefreshTables, Reloading, SendsTyped
<1>3. CASE LeaveTables
  BY <1>0, <1>01, <1>3 DEF LeaveTables
<1>4. CASE Describe
  BY <1>01, <1>4, OrdinaryCommands DEF Describe, SendsTyped
<1>5. CASE LeaveDescription
  BY <1>0, <1>01, <1>5 DEF LeaveDescription
<1>6. CASE OpenTable
  <2> DEFINE b == [browser EXCEPT !.db = databases.selected, !.table = SelectedTable]
  <2>1. Load(b, SelectAll(SelectedTable)) /\ databases' = [databases EXCEPT !.mode = "data"]
    BY <1>6 DEF OpenTable
  <2>2. DOMAIN b = BrowserFields /\ b.token = browser.token
    BY DEF TokenTyped, BrowserFields
  <2> HIDE DEF b
  <2>3. TokenTyped' /\ SendsTyped
    BY <2>1, <2>2, LoadTyped DEF TokenTyped
  <2> QED BY <2>1, <2>3
<1>7. CASE LeaveTable
  BY <1>0, <1>01, <1>7 DEF LeaveTable
<1>8. CASE ResetData \/ SearchColumn \/ RunQueryBar
  <2>1. PICK q : Load(browser, q) /\ UNCHANGED databases
    BY <1>8 DEF ResetData, SearchColumn, RunQueryBar
  <2> QED BY <1>02, <2>1, LoadTyped DEF TokenTyped
<1>9. CASE OpenSearch \/ OpenQueryBar \/ LeaveField
  <2>1. PICK m : browser' = [browser EXCEPT !.mode = m] /\ UNCHANGED databases /\ Send({})
    BY <1>9 DEF OpenSearch, OpenQueryBar, LeaveField
  <2>2. TokenTyped'
    BY <2>1 DEF TokenTyped, BrowserFields
  <2> QED BY <1>0, <1>02, <2>1, <2>2
<1> QED BY <1>1, <1>2, <1>3, <1>4, <1>5, <1>6, <1>7, <1>8, <1>9

LEMMA DatabasesAnswersTyped ==
  ASSUME ListsTyped, TokenTyped, NEW a, RowsTyped(a),
         \/ a.cmd.kind = "databases" /\ ListDatabases(a)
         \/ a.cmd.kind = "tables" /\ TablesMsg(a)
         \/ DescribeMsg(a) \/ TableDataMsg(a) \/ ExecMsg(a)
  PROVE  ListsTyped' /\ TokenTyped'
<1> USE DEF ListsTyped, DatabasesFields, ViewBecomes
<1>01. UNCHANGED browser => TokenTyped'
  BY DEF TokenTyped
<1>1. CASE a.cmd.kind = "databases" /\ ListDatabases(a)
  <2>1. CASE ~a.ok
    BY <1>01, <1>1, <2>1 DEF ListDatabases
  <2>2. CASE a.ok
    <3>1. a.rows \in Seq(Databases)
      BY <1>1, <2>2 DEF RowsTyped
    <3>2. PICK c \in CursorIn(a.rows, databases.cursor) :
            /\ databases' = [databases EXCEPT !.loading = FALSE, !.err = FALSE, !.list = a.rows,
                                              !.cursor = c]
            /\ UNCHANGED browser
      BY <1>1, <2>2 DEF ListDatabases
    <3>3. c \in 0 .. Len(a.rows)
      BY <3>1, CursorWithin
    <3> QED BY <1>01, <3>1, <3>2, <3>3
  <2> QED BY <2>1, <2>2
<1>2. CASE a.cmd.kind = "tables" /\ TablesMsg(a)
  <2>1. CASE ~OfSelected(a)
    BY <1>01, <1>2, <2>1 DEF TablesMsg, databasesVars
  <2>2. CASE OfSelected(a) /\ ~a.ok
    BY <1>01, <1>2, <2>2 DEF TablesMsg
  <2>3. CASE OfSelected(a) /\ a.ok
    <3>1. a.rows \in Seq(Places)
      BY <1>2, <2>3 DEF RowsTyped
    <3> DEFINE c == IF a.rows = <<>> THEN 0 ELSE 1
    <3>2. /\ databases' = [databases EXCEPT !.loading = FALSE, !.err = FALSE, !.tables = a.rows,
                                            !.row = c]
          /\ UNCHANGED browser
      BY <1>2, <2>3 DEF TablesMsg
    <3>3. c \in 0 .. Len(a.rows)
      <4>1. Len(a.rows) \in Nat /\ (a.rows # <<>> => Len(a.rows) # 0)
        BY <3>1
      <4> QED BY <4>1
    <3> HIDE DEF c
    <3> QED BY <1>01, <3>1, <3>2, <3>3
  <2> QED BY <2>1, <2>2, <2>3
<1>3. CASE DescribeMsg(a) \/ ExecMsg(a)
  BY <1>01, <1>3 DEF DescribeMsg, ExecMsg
<1>4. CASE TableDataMsg(a)
  <2>1. UNCHANGED databases
    BY <1>4 DEF TableDataMsg, BrowserBecomes, databasesVars
  <2>2. TokenTyped'
    BY <1>4 DEF TableDataMsg, BrowserBecomes, databasesVars, TokenTyped, BrowserFields
  <2> QED BY <2>1, <2>2
<1> QED BY <1>1, <1>2, <1>3, <1>4

----------------------------------------------------------------------------
(* The backends, and the settings with their filter.                       *)

LEMMA MonitorKeysTyped ==
  ASSUME SessionsTyped, SessionsKeys \/ RefreshDashboard \/ RefreshLocks
  PROVE  SessionsTyped' /\ SendsTyped
<1> USE DEF SessionsTyped, SessionsFields, SessionsBecome, WatchBecomes
<1>0. Send({}) => SendsTyped
  BY OrdinaryCommands DEF SendsTyped
<1>1. CASE RefreshSessions
  BY <1>1, OrdinaryCommands DEF RefreshSessions, SendsTyped
<1>2. CASE MoveSession
  <2>1. sessions.list # <<>>
    BY <1>2 DEF MoveSession
  <2>2. PICK c \in Moves(sessions.list, sessions.cursor) :
          sessions' = [sessions EXCEPT !.cursor = c]
    BY <1>2 DEF MoveSession
  <2>3. c \in 0 .. Len(sessions.list)
    BY <2>1, MovesWithin
  <2> QED BY <1>0, <1>2, <2>2, <2>3 DEF MoveSession
<1>3. CASE FindSession
  BY <1>0, <1>3 DEF FindSession
<1>4. CASE PickSession
  <2>1. PICK k : sessions' = [sessions EXCEPT !.modal = NoQuestion,
                                !.cursor = IF k \in DOMAIN sessions.list THEN k ELSE @]
    BY <1>4 DEF PickSession
  <2>2. k \in DOMAIN sessions.list => k \in 0 .. Len(sessions.list)
    OBVIOUS
  <2> QED BY <1>0, <1>4, <2>1, <2>2 DEF PickSession
<1>5. CASE ConfirmOn
  BY <1>0, <1>5 DEF ConfirmOn
<1>6. CASE SessionYes
  BY <1>6, OrdinaryCommands DEF SessionYes, SendsTyped
<1>7. CASE SessionNo \/ CloseSessionAlert
  BY <1>0, <1>7 DEF SessionNo, CloseSessionAlert
<1>8. CASE RefreshDashboard \/ RefreshLocks
  BY <1>8, OrdinaryCommands DEF RefreshDashboard, RefreshLocks, monitorVars, SendsTyped
<1> QED BY <1>1, <1>2, <1>3, <1>4, <1>5, <1>6, <1>7, <1>8 DEF SessionsKeys

LEMMA SessionsAnswersTyped ==
  ASSUME SessionsTyped, NEW a, RowsTyped(a),
         \/ a.cmd.kind = "sessions" /\ SessionsMsg(a)
         \/ SessionActionMsg(a) \/ UNCHANGED sessions
  PROVE  SessionsTyped'
<1> USE DEF SessionsTyped, SessionsFields, SessionsBecome
<1>1. CASE a.cmd.kind = "sessions" /\ SessionsMsg(a)
  <2>1. CASE ~a.ok
    BY <1>1, <2>1 DEF SessionsMsg
  <2>2. CASE a.ok
    <3>1. a.rows \in Seq(Pids)
      BY <1>1, <2>2 DEF RowsTyped
    <3>2. PICK c \in CursorIn(a.rows, sessions.cursor) :
            sessions' = [sessions EXCEPT !.loading = FALSE, !.list = a.rows, !.cursor = c]
      BY <1>1, <2>2 DEF SessionsMsg
    <3>3. c \in 0 .. Len(a.rows)
      BY <3>1, CursorWithin
    <3> QED BY <3>1, <3>2, <3>3
  <2> QED BY <2>1, <2>2
<1>2. CASE SessionActionMsg(a)
  BY <1>2 DEF SessionActionMsg
<1>3. CASE UNCHANGED sessions
  BY <1>3
<1> QED BY <1>1, <1>2, <1>3

\* Other fields than the list, the filter, the form and the cursor.
SameRowsListed(v) ==
  /\ DOMAIN v = SettingsFields /\ v.list = settings.list /\ v.filter = settings.filter
  /\ v.cursor = settings.cursor /\ v.form \in Gucs \union {NoForm}

LEMMA SettingsSame == ASSUME SettingsTyped, SameRowsListed(settings') PROVE SettingsTyped'
BY DEF SettingsTyped, SameRowsListed, Listed

LEMMA RelistedTyped ==
  ASSUME SettingsTyped, NEW v, DOMAIN v = SettingsFields, v.list \in Seq(Gucs),
         v.form \in Gucs \union {NoForm}, Relisted(v, settings)
  PROVE  SettingsTyped' /\ UNCHANGED tangled
<1> DEFINE u == settings.cursor
           l == Only(v.list, v.filter)
<1>1. PICK c \in IF u > Len(l) THEN CursorIn(l, u) ELSE {u} :
        settings' = [v EXCEPT !.cursor = c] /\ UNCHANGED tangled
  BY DEF Relisted, SettingsBecome, Listed
<1>2. l \in Seq(Gucs \cap v.filter)
  BY OnlyKeeps
<1>3. u \in Nat
  BY DEF SettingsTyped
<1> HIDE DEF u, l
<1>4. c \in 0 .. Len(l)
  <2>1. Len(l) \in Nat
    BY <1>2
  <2>2. CASE u > Len(l)
    BY <1>1, <1>2, <2>2, CursorWithin
  <2>3. CASE ~(u > Len(l))
    BY <1>1, <1>3, <2>1, <2>3
  <2> QED BY <2>2, <2>3
<1>5. /\ settings'.list = v.list /\ settings'.filter = v.filter /\ settings'.form = v.form
      /\ settings'.cursor = c /\ DOMAIN settings' = SettingsFields
  BY <1>1 DEF SettingsFields
<1>6. Listed(settings)' = l
  BY <1>5 DEF Listed, l
<1>7. c \in Nat
  BY <1>2, <1>4
<1> QED BY <1>1, <1>4, <1>5, <1>6, <1>7 DEF SettingsTyped

LEMMA SettingsKeysTyped == ASSUME SettingsTyped, SettingsKeys PROVE SettingsTyped' /\ SendsTyped
<1> USE DEF SettingsBecome
<1>00. DOMAIN settings = SettingsFields /\ settings.form \in Gucs \union {NoForm}
  BY DEF SettingsTyped
<1>0. Send({}) => SendsTyped
  BY OrdinaryCommands DEF SendsTyped
<1>1. CASE RefreshTuning
  <2>1. SameRowsListed(settings')
    BY <1>00, <1>1 DEF RefreshTuning, SameRowsListed, SettingsFields
  <2> QED BY <1>1, <2>1, SettingsSame, OrdinaryCommands DEF RefreshTuning, SendsTyped
<1>2. CASE OpenSettings \/ OpenAdvisor \/ StartFilter \/ LeaveFilter
  <2>1. SameRowsListed(settings')
    BY <1>00, <1>2 DEF OpenSettings, OpenAdvisor, StartFilter, LeaveFilter, SameRowsListed,
                       SettingsFields
  <2> QED BY <1>0, <1>2, <2>1, SettingsSame DEF OpenSettings, OpenAdvisor, StartFilter, LeaveFilter
<1>3. CASE MoveSetting
  <2>1. Listed(settings) # <<>>
    BY <1>3 DEF MoveSetting
  <2>2. PICK c \in Moves(Listed(settings), settings.cursor) :
          settings' = [settings EXCEPT !.cursor = c]
    BY <1>3 DEF MoveSetting
  <2>3. Listed(settings) \in Seq(Gucs \cap settings.filter)
    BY OnlyKeeps DEF Listed, SettingsTyped
  <2>4. c \in 0 .. Len(Listed(settings))
    BY <2>1, <2>3, MovesWithin DEF SettingsTyped
  <2>5. /\ settings'.list = settings.list /\ settings'.filter = settings.filter
        /\ settings'.form = settings.form /\ settings'.cursor = c /\ DOMAIN settings' = SettingsFields
    BY <1>00, <2>2 DEF SettingsFields
  <2>6. Listed(settings)' = Listed(settings)
    BY <2>5 DEF Listed
  <2>7. c \in Nat
    BY <2>3, <2>4
  <2>8. SettingsTyped'
    BY <1>00, <2>4, <2>5, <2>6, <2>7 DEF SettingsTyped
  <2> QED BY <1>0, <1>3, <2>8 DEF MoveSetting
<1>4. CASE TypeNameFilter
  <2>1. PICK f : Relisted([settings EXCEPT !.filter = f], settings)
    BY <1>4 DEF TypeNameFilter
  <2> DEFINE v == [settings EXCEPT !.filter = f]
  <2>2. DOMAIN v = SettingsFields /\ v.list = settings.list /\ v.form = settings.form
    BY <1>00 DEF SettingsFields
  <2> HIDE DEF v
  <2>3. SettingsTyped'
    BY <2>1, <2>2, RelistedTyped DEF SettingsTyped, v
  <2> QED BY <1>0, <1>4, <2>3 DEF TypeNameFilter
<1>5. CASE OpenSettingEdit \/ CancelSettingEdit \/ CannotChange
  <2>1. SameRowsListed(settings')
    BY <1>00, <1>5 DEF OpenSettingEdit, CancelSettingEdit, CannotChange, SameRowsListed,
                       SettingsFields
  <2> QED BY <1>0, <1>5, <2>1, SettingsSame DEF OpenSettingEdit, CancelSettingEdit, CannotChange
<1>6. CASE SubmitSettingEdit \/ ResetSetting
  <2>1. PICK n, v : Send({ApplySetting(n, v)})
    BY <1>6 DEF SubmitSettingEdit, ResetSetting, Apply
  <2>2. SameRowsListed(settings')
    BY <1>00, <1>6 DEF SubmitSettingEdit, ResetSetting, SameRowsListed, SettingsFields
  <2> QED BY <2>1, <2>2, SettingsSame, OrdinaryCommands DEF SendsTyped
<1> QED BY <1>1, <1>2, <1>3, <1>4, <1>5, <1>6 DEF SettingsKeys

LEMMA SettingsAnswersTyped ==
  ASSUME SettingsTyped, NEW a, RowsTyped(a),
         \/ a.cmd.kind = "settings" /\ AllSettingsMsg(a)
         \/ TuningMsg(a) \/ SettingApplyMsg(a)
  PROVE  SettingsTyped'
<1> USE DEF SettingsBecome
<1>00. DOMAIN settings = SettingsFields /\ settings.form \in Gucs \union {NoForm}
  BY DEF SettingsTyped
<1>1. CASE a.cmd.kind = "settings" /\ AllSettingsMsg(a)
  <2>1. CASE a.ok
    <3> DEFINE v == [settings EXCEPT !.setErr = FALSE, !.list = a.rows]
    <3>1. Relisted(v, settings)
      BY <1>1, <2>1 DEF AllSettingsMsg
    <3>2. a.rows \in Seq(Gucs)
      BY <1>1, <2>1 DEF RowsTyped
    <3>3. DOMAIN v = SettingsFields /\ v.list = a.rows /\ v.form = settings.form
      BY <1>00 DEF SettingsFields
    <3> HIDE DEF v
    <3> QED BY <1>00, <3>1, <3>2, <3>3, RelistedTyped
  <2>2. CASE ~a.ok
    <3>1. SameRowsListed(settings')
      BY <1>00, <1>1, <2>2 DEF AllSettingsMsg, SameRowsListed, SettingsFields
    <3> QED BY <3>1, SettingsSame
  <2> QED BY <2>1, <2>2
<1>2. CASE TuningMsg(a) \/ SettingApplyMsg(a)
  <2>1. PICK x, y : \/ settings' = [settings EXCEPT !.advErr = x]
                    \/ settings' = [settings EXCEPT !.status = y]
    BY <1>2 DEF TuningMsg, SettingApplyMsg
  <2>2. SameRowsListed(settings')
    BY <1>00, <2>1 DEF SameRowsListed, SettingsFields
  <2> QED BY <2>2, SettingsSame
<1> QED BY <1>1, <1>2

----------------------------------------------------------------------------
(* The steps of the tabs together.                                         *)

LEMMA StillTyped ==
  /\ QueryTyped /\ UNCHANGED queryVars => QueryTyped'
  /\ ListsTyped /\ UNCHANGED databasesVars => ListsTyped'
  /\ TokenTyped /\ UNCHANGED databasesVars => TokenTyped'
  /\ SessionsTyped /\ UNCHANGED monitorVars => SessionsTyped'
  /\ SettingsTyped /\ UNCHANGED settingsVars => SettingsTyped'
  /\ ServerTyped /\ UNCHANGED world => ServerTyped'
BY DEF QueryTyped, ListsTyped, TokenTyped, SessionsTyped, SettingsTyped, ServerTyped, Listed,
       queryVars, databasesVars, monitorVars, settingsVars, world

LEMMA SettingsKeysAsk == ASSUME SettingsKeys PROVE UNCHANGED world
<1> USE DEF FreeKey, SettingsKey
<1>1. CASE RefreshTuning \/ OpenSettings \/ OpenAdvisor \/ MoveSetting
  BY <1>1 DEF RefreshTuning, OpenSettings, OpenAdvisor, MoveSetting
<1>2. CASE StartFilter \/ TypeNameFilter \/ LeaveFilter
  BY <1>2 DEF StartFilter, TypeNameFilter, LeaveFilter
<1>3. CASE OpenSettingEdit \/ SubmitSettingEdit \/ CancelSettingEdit \/ ResetSetting \/ CannotChange
  BY <1>3 DEF OpenSettingEdit, SubmitSettingEdit, CancelSettingEdit, ResetSetting, CannotChange
<1> QED BY <1>1, <1>2, <1>3 DEF SettingsKeys

LEMMA KeysTyped ==
  ASSUME TypeInv, QueryTabKey \/ DatabasesTabKey \/ MonitorTabKey \/ SettingsTabKey
  PROVE  TypeInv'
<1> USE DEF TypeInv, ViewsTyped
<1>1. UNCHANGED <<world, active>>
  BY QueryKeysAsk, DatabasesKeysAsk, MonitorKeysAsk, SettingsKeysAsk
     DEF QueryTabKey, DatabasesTabKey, MonitorTabKey, SettingsTabKey
<1>2. ServerTyped'
  BY <1>1, StillTyped
<1>3. CASE QueryTabKey
  <2>1. QueryKeys /\ UNCHANGED <<databasesVars, monitorVars, settingsVars>>
    BY <1>3 DEF QueryTabKey
  <2> QED BY <1>1, <1>2, <2>1, QueryKeysTyped, SendTyped, StillTyped
<1>4. CASE DatabasesTabKey
  <2>1. DatabasesKeys /\ UNCHANGED <<queryVars, monitorVars, settingsVars>>
    BY <1>4 DEF DatabasesTabKey
  <2>2. ListsTyped' /\ TokenTyped' /\ SendsTyped
    BY <2>1, ListKeysTyped, TableKeysTyped DEF DatabasesKeys, TokenTyped
  <2> QED BY <1>1, <1>2, <2>1, <2>2, SendTyped, StillTyped
<1>5. CASE MonitorTabKey
  <2>1. /\ SessionsKeys \/ RefreshDashboard \/ RefreshLocks
        /\ UNCHANGED <<queryVars, databasesVars, settingsVars>>
    BY <1>5 DEF MonitorTabKey
  <2> QED BY <1>1, <1>2, <2>1, MonitorKeysTyped, SendTyped, StillTyped
<1>6. CASE SettingsTabKey
  <2>1. SettingsKeys /\ UNCHANGED <<queryVars, databasesVars, monitorVars>>
    BY <1>6 DEF SettingsTabKey
  <2> QED BY <1>1, <1>2, <2>1, SettingsKeysTyped, SendTyped, StillTyped
<1> QED BY <1>3, <1>4, <1>5, <1>6

LEMMA SwitchTyped == ASSUME TypeInv, SwitchTo PROVE TypeInv'
<1> USE DEF TypeInv, ViewsTyped
<1>1. PICK t \in TabNames :
        /\ active' = t /\ Send(Loads(t))
        /\ databases' = IF t = "databases" THEN Reloading(databases) ELSE databases
        /\ sessions' = IF t = "sessions" THEN [sessions EXCEPT !.loading = TRUE] ELSE sessions
        /\ settings' = IF t = "tuning" THEN [settings EXCEPT !.advErr = FALSE, !.setErr = FALSE]
                       ELSE settings
  BY DEF SwitchTo
<1>2. UNCHANGED <<world, queryVars, browser, tangled>>
  BY DEF SwitchTo
<1>3. Ordinary(Loads(t))
  BY OrdinaryCommands DEF Loads, TabNames, DashboardLoads
<1>4. BagsTyped'
  BY <1>1, <1>3, SendTyped DEF SendsTyped
<1>5. ListsTyped'
  BY <1>1 DEF ListsTyped, DatabasesFields, Reloading
<1>6. SessionsTyped'
  BY <1>1 DEF SessionsTyped, SessionsFields
<1>7. SettingsTyped'
  <2>1. SameRowsListed(settings')
    BY <1>1 DEF SettingsTyped, SameRowsListed, SettingsFields
  <2> QED BY <2>1, SettingsSame
<1>8. QueryTyped' /\ TokenTyped' /\ ServerTyped'
  BY <1>2, StillTyped DEF TokenTyped
<1> QED BY <1>1, <1>4, <1>5, <1>6, <1>7, <1>8

LEMMA AnswersTyped == ASSUME TypeInv, NEW a \in DOMAIN answers, Answer(a) PROVE TypeInv'
<1> USE DEF TypeInv, ViewsTyped
<1>0. RowsTyped(a)
  BY DEF BagsTyped
<1>1. UNCHANGED <<world, active>>
  BY DEF Answer, DatabasesAnswer, DatabasesTabAnswer, QueryTabAnswer, MonitorTabAnswer,
         SettingsTabAnswer, Answered
<1>2. ServerTyped'
  BY <1>1, StillTyped
<1>3. BagsTyped'
  <2>1. \/ Reply(a, {}) \/ Reply(a, Reloads(a)) \/ Reply(a, {LoadSessions})
        \/ Reply(a, AfterTick) \/ Reply(a, AfterApply(a))
    BY DEF Answer, DatabasesAnswer, DatabasesTabAnswer, QueryTabAnswer, MonitorTabAnswer,
           SettingsTabAnswer
  <2>2. \A s \in {{}, Reloads(a), {LoadSessions}, AfterTick, AfterApply(a)} : Ordinary(s)
    BY OrdinaryCommands DEF Reloads, AfterTick, AfterApply
  <2> QED BY <2>1, <2>2, ReplyTyped
<1>4. QueryTyped'
  <2>1. \/ QueryMsg(a) \/ (a.cmd.kind = "databases" /\ DatabaseNames(a)) \/ UNCHANGED queryVars
    BY DEF Answer, DatabasesAnswer, DatabasesTabAnswer, QueryTabAnswer, MonitorTabAnswer,
           SettingsTabAnswer, Answered
  <2> QED BY <1>0, <2>1, QueryAnswersTyped, StillTyped
<1>5. ListsTyped' /\ TokenTyped'
  <2>1. \/ a.cmd.kind = "databases" /\ ListDatabases(a)
        \/ a.cmd.kind = "tables" /\ TablesMsg(a)
        \/ DescribeMsg(a) \/ TableDataMsg(a) \/ ExecMsg(a) \/ UNCHANGED databasesVars
    BY DEF Answer, DatabasesAnswer, DatabasesTabAnswer, QueryTabAnswer, MonitorTabAnswer,
           SettingsTabAnswer, Answered
  <2> QED BY <1>0, <2>1, DatabasesAnswersTyped, StillTyped
<1>6. SessionsTyped'
  <2>1. \/ a.cmd.kind = "sessions" /\ SessionsMsg(a)
        \/ SessionActionMsg(a) \/ UNCHANGED sessions
    BY DEF Answer, DatabasesAnswer, DatabasesTabAnswer, QueryTabAnswer, MonitorTabAnswer,
           SettingsTabAnswer, Answered, DashboardMsg, TickMsg, LocksMsg, WatchBecomes, monitorVars
  <2> QED BY <1>0, <2>1, SessionsAnswersTyped
<1>7. SettingsTyped'
  <2>1. \/ a.cmd.kind = "settings" /\ AllSettingsMsg(a)
        \/ TuningMsg(a) \/ SettingApplyMsg(a) \/ UNCHANGED settingsVars
    BY DEF Answer, DatabasesAnswer, DatabasesTabAnswer, QueryTabAnswer, MonitorTabAnswer,
           SettingsTabAnswer, Answered
  <2> QED BY <1>0, <2>1, SettingsAnswersTyped, StillTyped
<1> QED BY <1>1, <1>2, <1>3, <1>4, <1>5, <1>6, <1>7

LEMMA InitTyped == ASSUME Init PROVE TypeInv
<1>0. /\ 1 \in Nat \ {0} /\ 0 \in 0 .. MaxLoads
      /\ <<>> \in Seq(Databases) /\ <<>> \in Seq(Places) /\ <<>> \in Seq(Pids) /\ <<>> \in Seq(Gucs)
  BY DatabasesConstants
<1>1. ServerTyped
  <2>1. \A n \in Gucs : Default \in Values
    BY CommandConstants
  <2> QED BY <2>1 DEF Init, CommandsInit, ServerTyped
<1>2. BagsTyped
  <2> DEFINE s == UNION {IF t = "dashboard" THEN {LoadDashboard, Tick} ELSE Loads(t) :
                           t \in TabNames \intersect job}
  <2>1. pending = SetToBag(s) /\ answers = EmptyBag
    BY DEF Init
  <2>2. Ordinary(s)
    <3>1. \A t \in TabNames : Ordinary(Loads(t)) /\ Ordinary({LoadDashboard, Tick})
      BY OrdinaryCommands DEF Loads, TabNames, DashboardLoads
    <3> QED BY <3>1 DEF Ordinary
  <2> HIDE DEF s
  <2>3. IsABag(pending) /\ DOMAIN pending = s
    BY <2>1 DEF SetToBag, IsABag
  <2>4. IsABag(answers) /\ DOMAIN answers = {}
    BY <2>1 DEF EmptyBag, SetToBag, IsABag
  <2> QED BY <2>2, <2>3, <2>4 DEF BagsTyped, Ordinary
<1>3. QueryTyped
  <2>1. Empty \in Sql /\ AdminDB \in Databases
    BY CommandConstants
  <2> QED BY <1>0, <2>1 DEF Init, QueryInit, QueryTyped, QueryViews, Modes, Danger
<1>4. ListsTyped /\ TokenTyped
  BY <1>0 DEF Init, DatabasesInit, ListsTyped, TokenTyped, DatabasesFields, BrowserFields
<1>5. SessionsTyped
  BY <1>0 DEF Init, MonitorInit, SessionsTyped, SessionsFields
<1>6. SettingsTyped
  <2>1. settings.list = <<>> /\ settings.cursor = 1 /\ settings.form = NoForm
        /\ DOMAIN settings = SettingsFields
    BY DEF Init, SettingsInit, SettingsFields
  <2>2. Listed(settings) = <<>>
    <3>1. Only(<<>>, settings.filter) \in Seq(Gucs \cap settings.filter)
          /\ Len(Only(<<>>, settings.filter)) <= Len(<<>>)
      BY <1>0, OnlyKeeps
    <3>2. Len(<<>>) = 0
      OBVIOUS
    <3> DEFINE l == Only(<<>>, settings.filter)
    <3>3. l \in Seq(Gucs \cap settings.filter) /\ Len(l) <= 0
      BY <3>1, <3>2
    <3> HIDE DEF l
    <3>4. l = <<>>
      BY <3>3
    <3> QED BY <2>1, <3>4 DEF Listed, l
  <2> QED BY <1>0, <2>1, <2>2 DEF SettingsTyped
<1>7. active \in TabNames
  BY DEF Init
<1> QED BY <1>1, <1>2, <1>3, <1>4, <1>5, <1>6, <1>7 DEF TypeInv, ViewsTyped

LEMMA TypeStep == ASSUME IInv, WorkInv, TypeInv, [Next]_vars PROVE TypeInv'
<1>1. CASE UNCHANGED vars
  <2>1. /\ UNCHANGED <<world, queryVars, databasesVars, monitorVars, settingsVars>>
        /\ UNCHANGED <<pending, answers, active>>
    BY <1>1 DEF vars, commands
  <2>2. BagsTyped'
    BY <2>1 DEF BagsTyped, TypeInv
  <2> QED BY <2>1, <2>2, StillTyped DEF TypeInv, ViewsTyped
<1>2. CASE CommandStep
  <2>1. ServerTyped' /\ BagsTyped'
    BY <1>2, CommandTypes DEF TypeInv, IInv, WorkInv, SettingsHold
  <2>2. UNCHANGED <<queryVars, databasesVars, monitorVars, settingsVars, active>>
    BY <1>2 DEF CommandStep
  <2> QED BY <2>1, <2>2, StillTyped DEF TypeInv, ViewsTyped
<1> QED BY <1>1, <1>2, KeysTyped, SwitchTyped, AnswersTyped DEF Next

\* All that the tabs keep has its type, and a cursor is on a row of its list or nowhere,
\* whatever lists arrive under it, for any databases, tables, backends, settings and texts
\* (databases.go databasesMsg, sessions.go sessionsMsg, tuning.go applySettingsFilter).
THEOREM TypesOfTheTabs == Spec => []TypeOK
<1>1. Init => IInv /\ AInv /\ WorkInv /\ TypeInv
  BY InitHolds, InitAsked, InitWorks, InitTyped, CommandConstants
<1>2. IInv /\ AInv /\ WorkInv /\ TypeInv /\ [Next]_vars => IInv' /\ AInv' /\ WorkInv' /\ TypeInv'
  BY NextKeeps, StepKept, KeptMeans, WorkStep, TypeStep
<1>3. TypeInv => TypeOK
  BY DEF TypeInv, ServerTyped, BagsTyped, ViewsTyped, QueryTyped, ListsTyped, TokenTyped,
         SessionsTyped, SettingsTyped, TypeOK
<1> QED BY <1>1, <1>2, <1>3, PTL DEF Spec
=============================================================================
