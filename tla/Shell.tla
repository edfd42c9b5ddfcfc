------------------------------- MODULE Shell -------------------------------
(***************************************************************************)
(* The root model of the interface (internal/ui: Model, session,           *)
(* serversModal, the update prompt) and the goroutines it starts.          *)
(*                                                                         *)
(* Bubble Tea calls Update with one message at a time: a key, a window     *)
(* size, or the result of a command.  Commands run in goroutines and their *)
(* results come back in any order.  Every action below is one call of      *)
(* Update, or one step of such a goroutine.                                *)
(*                                                                         *)
(* A manager (db.Manager) is known by the number of the connect attempt    *)
(* that opened it: conn[a] is the goroutine of attempt a, the message it   *)
(* sends and then the manager it opened.                                   *)
(*                                                                         *)
(* Left out: layout and wording; the tab under the screen, which appears   *)
(* only as a source of commands and the holder of what they return.  A tab *)
(* that captures text takes the keys q ? S 1-9 tab for itself; here such a *)
(* key may go either way.                                                  *)
(***************************************************************************)
EXTENDS ServerStore, FiniteSets

CONSTANTS
  StartStores,     \* the stores config.Load may return
  UpdateEnabled,   \* whether the startup update check runs
  MaxAttempts,     \* bound on connect attempts, cancelled ones included
  StartNotices,    \* how many one-time notices startup may leave in the queue
  MaxNotices,      \* bound on the queue a key finds before the first window size
  MaxOps           \* bound on server edits and probes: no form opens after the last

ASSUME ShellConstants ==
  /\ StartStores \subseteq Stores
  /\ UpdateEnabled \in BOOLEAN
  /\ MaxAttempts \in Nat \ {0}
  /\ StartNotices \subseteq Nat
  /\ MaxNotices \in Nat
  /\ MaxOps \in Nat

VARIABLES
  sess,        \* Model.sess: the live session, NoSession before the first one
  gen,         \* Model.gen: number of the latest session
  attempt,     \* Model.attempt: number of the latest connect attempt
  connecting,  \* Model.connecting: name of the server being opened
  conn,        \* per attempt: its goroutine, its connectedMsg, its manager
  target,      \* per attempt: the connection it opens
  results,     \* scopedMsg values on their way to Update
  shown,       \* attempts whose manager produced what the tabs now hold
  sized,       \* whether the first WindowSizeMsg has come (Model.width # 0)
  up,          \* the overlays that are active
  notices,     \* length of Model.notices, the queue behind the notice shown
  check,       \* the startup update check: "off", "running" or "done"
  install,     \* whether a self-update goroutine runs
  store,       \* Model.store
  disk,        \* what config.yml holds
  told,        \* history: a notice told of the last failed save
  unsavedErr,  \* whether serversModal.form.err holds the failed save
  cursor,      \* serversModal.cursor
  editing,     \* serversModal.editing
  probes,      \* serversModal.probes
  probing,     \* probe goroutines and probeMsg values on their way
  ops,         \* edits and probes made, for MaxOps
  quitting     \* Model.quitting

slot == <<sess, gen, attempt, connecting, conn, target>>
data == <<results, shown>>
screen == <<sized, up, notices>>
updates == <<check, install>>
config == <<store, disk, told, unsavedErr>>
list == <<cursor, editing, probes, probing, ops>>
vars == <<slot, data, screen, updates, config, list, quitting>>

Attempts == 1 .. MaxAttempts
NoSession == [gen |-> 0, by |-> 0, name |-> NoName, cfg |-> NoName]
NoTarget == [name |-> NoName, cfg |-> NoName]
ConnStates == {"none", "dialing", "up", "err", "live", "closing", "closed", "over"}
Result == [gen : Attempts, by : Attempts]
Probe == [id : 1 .. MaxOps, name : Names]

\* The overlays: the servers screen has its form and its delete confirmation.
Overlays == {"help", "updateAlert", "updating", "updateMenu", "notice",
             "quitConfirm", "servers", "form", "delete"}
ServersOverlays == {"servers", "form", "delete"}
MessageWindows == {"updateAlert", "updating", "updateMenu", "notice"}

Connected == sess # NoSession

----------------------------------------------------------------------------
(* Which overlay a key goes to and which one is drawn.                     *)

KeyOrder == <<"updateAlert", "updating", "updateMenu", "notice", "quitConfirm",
              "servers", "help">>

\* As if the Servers screen were drawn over the question it asked.
ServersDrawnFirst == <<"help", "updateAlert", "updating", "updateMenu", "notice",
                       "servers", "quitConfirm">>

DrawOrder == <<"help", "updateAlert", "updating", "updateMenu", "notice",
               "quitConfirm", "servers">>

\* The first overlay of an order that is active; "page" when none is.
Top(order) ==
  IF \E i \in DOMAIN order : order[i] \in up
  THEN order[CHOOSE i \in DOMAIN order :
               order[i] \in up /\ \A j \in 1 .. i - 1 : order[j] \notin up]
  ELSE "page"

Owner == Top(KeyOrder)
Drawn == IF sized THEN Top(DrawOrder) ELSE "loading"

Key(layer) == ~quitting /\ Owner = layer /\ (sized \/ notices < MaxNotices)

\* A key of the servers list, with neither form nor confirmation over it.
ListKey == Key("servers") /\ "form" \notin up /\ "delete" \notin up

----------------------------------------------------------------------------
(* Pieces of the handlers.                                                 *)

\* As if every notice were queued, and shown by the next window size only.
NotifyLater(u) == up' = u /\ notices' = notices + 1

\* Model.notify: shown at once, or queued behind the one on screen or until the
\* window has a size.  u is what the handler leaves of the overlays.
Notify(u) ==
  IF sized /\ "notice" \notin u
  THEN up' = u \union {"notice"} /\ notices' = notices
  ELSE up' = u /\ notices' = notices + 1

\* As if the queue were never looked at before taking its first notice.
FlushAlways(u, hasSize) ==
  IF hasSize /\ "notice" \notin u
  THEN up' = u \union {"notice"} /\ notices' = notices - 1
  ELSE up' = u /\ notices' = notices

\* Model.flushNotices.
Flush(u, hasSize) ==
  IF hasSize /\ "notice" \notin u /\ notices > 0
  THEN up' = u \union {"notice"} /\ notices' = notices - 1
  ELSE up' = u /\ notices' = notices

ListNames == StoreNames(store)

\* As if openServers and Remove left the cursor where it was.
ClampNothing(n, c) == c

\* As if an empty list were not a case of its own.
ClampToLast(n, c) == IF c >= n THEN n - 1 ELSE c

\* serversModal.clampCursor.
Clamp(n, c) == IF c >= n THEN (IF n = 0 THEN 0 ELSE n - 1) ELSE c

\* The row of name n, or the given one when it has none.
RowOf(names, n, otherwise) ==
  IF \E i \in DOMAIN names : names[i] = n
  THEN (CHOOSE i \in DOMAIN names :
          names[i] = n /\ \A j \in i + 1 .. Len(names) : names[j] # n) - 1
  ELSE otherwise

\* Model.openServers: the live or default server under the cursor.
OpenServers ==
  /\ up' = up \union {"servers"}
  /\ cursor' = Clamp(Len(ListNames),
       RowOf(ListNames, IF Connected THEN sess.name ELSE store.default, cursor))

\* Model.connect: a connection that does not resolve is only reported.
Connect(c, u) ==
  \/ /\ ~Resolvable(c)
     /\ Notify(u)
     /\ UNCHANGED slot
  \/ /\ Resolvable(c)
     /\ attempt < MaxAttempts
     /\ attempt' = attempt + 1
     /\ connecting' = c.name
     /\ conn' = [conn EXCEPT ![attempt + 1] = "dialing"]
     /\ target' = [target EXCEPT ![attempt + 1] = c]
     /\ up' = u
     /\ UNCHANGED <<sess, gen, notices>>

\* As if giving up only cleared the name and left the attempt current.
CancelOnlyName ==
  /\ connecting' = NoName
  /\ UNCHANGED <<sess, gen, conn, attempt, target>>

\* Model.cancelConnect.
CancelConnect ==
  /\ attempt < MaxAttempts
  /\ attempt' = attempt + 1
  /\ connecting' = NoName
  /\ UNCHANGED <<sess, gen, conn, target>>

\* As if a manager nobody uses any more were dropped without closing it.
ForgetManager(c, a) == [c EXCEPT ![a] = "over"]

\* go mgr.Close(): in the background, since it waits for running queries.
CloseManager(c, a) == [c EXCEPT ![a] = "closing"]

\* As if the old session were left to the garbage collector.
CloseNothing(c) == c

\* session.close().
CloseSession(c) == IF Connected THEN CloseManager(c, sess.by) ELSE c

\* As if every session had the same number.
SameGen == 1

NextGen == gen + 1

\* Store.Save of the store s, reported by a notice when it fails.
SaveOrNotify(s, u) ==
  \/ /\ disk' = Saved(s)
     /\ told' = FALSE
     /\ up' = u
     /\ UNCHANGED notices
  \/ /\ Notify(u)
     /\ told' = TRUE
     /\ UNCHANGED disk

----------------------------------------------------------------------------
(* The connection: goroutines and their messages.                          *)

DialOK(a) ==
  /\ conn[a] = "dialing"
  /\ conn' = [conn EXCEPT ![a] = "up"]
  /\ UNCHANGED <<sess, gen, attempt, connecting, target, data, screen, updates, config, list, quitting>>

\* NewManager fails: refused, not responding, or connectTotalTimeout.
DialFails(a) ==
  /\ conn[a] = "dialing"
  /\ conn' = [conn EXCEPT ![a] = "err"]
  /\ UNCHANGED <<sess, gen, attempt, connecting, target, data, screen, updates, config, list, quitting>>

\* As if handleConnected took any answer for the one it waits for.
AnyAttempt(a) == TRUE

\* msg.attempt == m.attempt.
IsCurrent(a) == a = attempt

\* handleConnected of an attempt the user cancelled or superseded.
DropSuperseded(a) ==
  /\ ~quitting /\ ~IsCurrent(a) /\ conn[a] \in {"up", "err"}
  /\ conn' = IF conn[a] = "up" THEN CloseManager(conn, a)
             ELSE [conn EXCEPT ![a] = "over"]
  /\ UNCHANGED <<sess, gen, attempt, connecting, target, data, screen, updates, config, list, quitting>>

\* As if handleConnected left the name of the server on screen.
KeptName == connecting

\* m.connecting = "" once the awaited attempt has answered.
AnsweredName == NoName

\* As if a failure were only told.
OnlyTold(u) == u

\* openServers after a failure, when there is no session to go back to.
AfterFailure(u) == IF Connected THEN u ELSE u \union {"servers"}

\* handleConnected with an error: the Servers screen when there is no session.
ConnectFailed(a) ==
  /\ ~quitting /\ IsCurrent(a) /\ conn[a] = "err"
  /\ conn' = [conn EXCEPT ![a] = "over"]
  /\ connecting' = AnsweredName
  /\ Notify(AfterFailure(up))
  /\ cursor' = IF Connected THEN cursor
               ELSE Clamp(Len(ListNames), RowOf(ListNames, store.default, cursor))
  /\ UNCHANGED <<sess, gen, attempt, target, data, sized, updates, config, editing, probes,
                 probing, ops, quitting>>

\* handleConnected with a manager: the old session is closed in the background,
\* the new one starts with fresh tabs whose first loads carry its generation,
\* and the Servers screen closes, its form and confirmation with it.
SwitchSession(a) ==
  /\ ~quitting /\ IsCurrent(a) /\ conn[a] = "up"
  /\ conn' = [CloseSession(conn) EXCEPT ![a] = "live"]
  /\ connecting' = AnsweredName
  /\ gen' = NextGen
  /\ sess' = [gen |-> NextGen, by |-> a, name |-> target[a].name, cfg |-> target[a].cfg]
  /\ results' = results \union {[gen |-> NextGen, by |-> a]}
  /\ shown' = {}
  /\ up' = up \ ServersOverlays
  /\ UNCHANGED <<attempt, target, sized, notices, updates, config, list, quitting>>

\* The end of a background Manager.Close.
ManagerClosed(a) ==
  /\ conn[a] = "closing"
  /\ conn' = [conn EXCEPT ![a] = "closed"]
  /\ UNCHANGED <<sess, gen, attempt, connecting, target, data, screen, updates, config, list, quitting>>

\* A scopedMsg of an earlier session is dropped.
DropStaleResult(r) ==
  /\ ~quitting /\ r \in results
  /\ ~Connected \/ r.gen # sess.gen
  /\ results' = results \ {r}
  /\ UNCHANGED <<slot, shown, screen, updates, config, list, quitting>>

\* A scopedMsg of this session reaches the tabs; a tick starts the next load.
ApplyResult(r) ==
  /\ ~quitting /\ r \in results
  /\ Connected /\ r.gen = sess.gen
  /\ shown' = shown \union {r.by}
  /\ \/ results' = results \ {r}
     \/ results' = (results \ {r}) \union {[gen |-> sess.gen, by |-> sess.by]}
  /\ UNCHANGED <<slot, screen, updates, config, list, quitting>>

----------------------------------------------------------------------------
(* The page under the overlays.                                            *)

\* A key the active tab handles, or a switch of tab, which loads the tab.
TabKey ==
  /\ Key("page") /\ Connected
  /\ results' = results \union {[gen |-> sess.gen, by |-> sess.by]}
  /\ UNCHANGED <<slot, shown, screen, updates, config, list, quitting>>

AskQuit ==
  /\ Key("page") \/ ListKey
  /\ up' = up \union {"quitConfirm"}
  /\ UNCHANGED <<slot, data, sized, notices, updates, config, list, quitting>>

OpenHelp ==
  /\ Key("page") /\ Connected
  /\ up' = up \union {"help"}
  /\ UNCHANGED <<slot, data, sized, notices, updates, config, list, quitting>>

ServersKey ==
  /\ Key("page")
  /\ OpenServers
  /\ UNCHANGED <<slot, data, sized, notices, updates, config, editing, probes, probing,
                 ops, quitting>>

\* esc while the very first connection is being opened.
GiveUpFirst ==
  /\ Key("page") /\ ~Connected
  /\ CancelConnect
  /\ OpenServers
  /\ UNCHANGED <<data, sized, notices, updates, config, editing, probes, probing, ops,
                 quitting>>

CloseHelp ==
  /\ Key("help")
  /\ up' = up \ {"help"}
  /\ UNCHANGED <<slot, data, sized, notices, updates, config, list, quitting>>

WindowSize ==
  /\ ~quitting
  /\ sized' = TRUE
  /\ Flush(up, TRUE)
  /\ UNCHANGED <<slot, data, updates, config, list, quitting>>

CloseNotice ==
  /\ Key("notice")
  /\ Flush(up \ {"notice"}, sized)
  /\ UNCHANGED <<slot, data, sized, updates, config, list, quitting>>

StayHere ==
  /\ Key("quitConfirm")
  /\ up' = up \ {"quitConfirm"}
  /\ UNCHANGED <<slot, data, sized, notices, updates, config, list, quitting>>

\* ctrl+c anywhere, or 'y' in the quit confirmation.
Quit ==
  /\ ~quitting
  /\ quitting' = TRUE
  /\ \/ UNCHANGED up
     \/ Owner = "quitConfirm" /\ up' = up \ {"quitConfirm"}
  /\ UNCHANGED <<slot, data, sized, notices, updates, config, list>>

----------------------------------------------------------------------------
(* The update prompt.                                                      *)

\* updateCheckedMsg: a newer release opens the prompt over anything.
UpdateChecked ==
  /\ ~quitting /\ check = "running"
  /\ check' = "done"
  /\ \/ up' = up \union {"updateMenu"}
     \/ UNCHANGED up          \* no newer release, or the check failed
  /\ UNCHANGED <<slot, data, sized, notices, install, config, list, quitting>>

\* "Update now".
UpdateNow ==
  /\ Key("updateMenu")
  /\ up' = (up \ {"updateMenu"}) \union {"updating"}
  /\ install' = TRUE
  /\ UNCHANGED <<slot, data, sized, notices, check, config, list, quitting>>

\* esc, "Not now" or "Never suggest again", which also writes the opt-out file.
UpdateLater ==
  /\ Key("updateMenu")
  /\ up' = up \ {"updateMenu"}
  /\ UNCHANGED <<slot, data, sized, notices, updates, config, list, quitting>>

\* updateResultMsg: what happened, in an alert.
UpdateResult ==
  /\ ~quitting /\ install
  /\ install' = FALSE
  /\ up' = (up \ {"updating"}) \union {"updateAlert"}
  /\ UNCHANGED <<slot, data, sized, notices, check, config, list, quitting>>

CloseUpdateAlert ==
  /\ Key("updateAlert")
  /\ up' = up \ {"updateAlert"}
  /\ UNCHANGED <<slot, data, sized, notices, updates, config, list, quitting>>

----------------------------------------------------------------------------
(* The Servers screen.                                                     *)

HasSelected == Len(ListNames) > 0
Selected == Find(store, ListNames[cursor + 1])
SelectedIsEnv == store.env /\ Selected.name = EnvName

\* esc gives up the connect in progress, or closes when there is a session.
ListEsc ==
  /\ ListKey
  /\ \/ /\ connecting # NoName
        /\ CancelConnect
        /\ UNCHANGED up
     \/ /\ connecting = NoName /\ Connected
        /\ up' = up \ ServersOverlays
        /\ UNCHANGED slot
  /\ UNCHANGED <<data, sized, notices, updates, config, list, quitting>>

ListMove ==
  /\ ListKey /\ HasSelected
  /\ \E step \in {1, Len(ListNames) - 1} : cursor' = (cursor + step) % Len(ListNames)
  /\ UNCHANGED <<slot, data, screen, updates, config, editing, probes, probing, ops, quitting>>

\* enter connects, unless the live session already has that server's name.
ListEnter ==
  /\ ListKey /\ HasSelected
  /\ IF Connected /\ sess.name = Selected.name /\ connecting = NoName
     THEN up' = up \ ServersOverlays /\ UNCHANGED <<slot, notices>>
     ELSE Connect(Selected, up)
  /\ UNCHANGED <<data, sized, updates, config, list, quitting>>

\* a, n and l: an empty form, or one filled in for the local socket.
OpenNewForm ==
  /\ ListKey /\ ops < MaxOps
  /\ editing' = NoName
  /\ up' = up \union {"form"}
  /\ unsavedErr' = FALSE
  /\ UNCHANGED <<slot, data, sized, notices, updates, store, disk, told, cursor, probes,
                 probing, ops, quitting>>

\* e: the environment's connection is read-only.
OpenEditForm ==
  /\ ListKey /\ ops < MaxOps /\ HasSelected
  /\ IF SelectedIsEnv
     THEN Notify(up) /\ UNCHANGED <<editing, unsavedErr>>
     ELSE /\ editing' = Selected.name
          /\ up' = up \union {"form"}
          /\ unsavedErr' = FALSE
          /\ UNCHANGED notices
  /\ UNCHANGED <<slot, data, sized, updates, store, disk, told, cursor, probes, probing,
                 ops, quitting>>

\* d asks first; the environment's connection cannot be deleted.
AskDelete ==
  /\ ListKey /\ ops < MaxOps /\ HasSelected /\ ~SelectedIsEnv
  /\ editing' = Selected.name
  /\ up' = up \union {"delete"}
  /\ UNCHANGED <<slot, data, sized, notices, updates, config, cursor, probes, probing, ops,
                 quitting>>

DeleteNo ==
  /\ Key("servers") /\ "form" \notin up /\ "delete" \in up
  /\ up' = up \ {"delete"}
  /\ UNCHANGED <<slot, data, sized, notices, updates, config, list, quitting>>

DeleteYes ==
  /\ Key("servers") /\ "form" \notin up /\ "delete" \in up
  /\ ops < MaxOps /\ ops' = ops + 1
  /\ store' = Remove(store, editing)
  /\ SaveOrNotify(store', up \ {"delete"})
  /\ probes' = [probes EXCEPT ![editing] = "none"]
  /\ cursor' = Clamp(Len(StoreNames(store')), cursor)
  /\ UNCHANGED <<slot, data, sized, updates, unsavedErr, editing, probing, quitting>>

SetDefault ==
  /\ ListKey /\ HasSelected /\ ~SelectedIsEnv
  /\ ops < MaxOps /\ ops' = ops + 1
  /\ store' = [store EXCEPT !.default = Selected.name]
  /\ SaveOrNotify(store', up)
  /\ UNCHANGED <<slot, data, sized, updates, unsavedErr, cursor, editing, probes, probing,
                 quitting>>

FormCancel ==
  /\ Key("servers") /\ "form" \in up
  /\ up' = up \ {"form"}
  /\ UNCHANGED <<slot, data, sized, notices, updates, config, list, quitting>>

\* enter in the form, with fields Upsert accepts.  A failed save only fills in
\* form.err, and the form closes.  The first server of all is opened at once.
FormSubmit(c) ==
  /\ Key("servers") /\ "form" \in up
  /\ UpsertOK(store, editing, c)
  /\ ops < MaxOps /\ ops' = ops + 1
  /\ store' = Upsert(store, editing, c)
  /\ \/ disk' = Saved(store') /\ told' = FALSE /\ UNCHANGED unsavedErr
     \/ unsavedErr' = TRUE /\ told' = FALSE /\ UNCHANGED disk
  /\ probes' = IF editing = NoName THEN probes ELSE [probes EXCEPT ![editing] = "none"]
  /\ cursor' = RowOf(StoreNames(store'), c.name, cursor)
  /\ IF ~Connected /\ connecting = NoName
     THEN Connect(c, up \ {"form"})
     ELSE up' = up \ {"form"} /\ UNCHANGED <<slot, notices>>
  /\ UNCHANGED <<data, sized, updates, editing, probing, quitting>>

\* As if the row were marked before its connection is resolved.
MarkedFirst(c) == "running"

\* A connection that does not resolve has failed already.
ProbeMark(c) == IF Resolvable(c) THEN "running" ELSE "done"

\* t: the probe of the selected server.
StartProbe ==
  /\ ListKey /\ HasSelected
  /\ ops < MaxOps /\ ops' = ops + 1
  /\ probes' = [probes EXCEPT ![Selected.name] = ProbeMark(Selected)]
  /\ probing' = probing \union
       (IF Resolvable(Selected) THEN {[id |-> ops + 1, name |-> Selected.name]} ELSE {})
  /\ UNCHANGED <<slot, data, screen, updates, config, cursor, editing, quitting>>

\* probeMsg: the result goes to the row of that name, whatever it holds now.
ProbeDone(p) ==
  /\ ~quitting /\ p \in probing
  /\ probes' = [probes EXCEPT ![p.name] = "done"]
  /\ probing' = probing \ {p}
  /\ UNCHANGED <<slot, data, screen, updates, config, cursor, editing, ops, quitting>>

----------------------------------------------------------------------------
(* New and Init: the store Load returned, up to two one-time notices (the   *)
(* migration or relocation, the rename), and the connection to open first:  *)
(* the one of -s, or what Initial picks, or none.                           *)

StartChoices(s) ==
  {<<c>> : c \in {Find(s, n) : n \in {m \in Names : Found(s, m)}} \union Initial(s)}
    \union {<<>> : c \in {1} \ {Cardinality(Initial(s))}}

NothingOpening ==
  /\ attempt = 0 /\ connecting = NoName
  /\ conn = [a \in Attempts |-> "none"]
  /\ target = [a \in Attempts |-> NoTarget]

OpeningFirst(c) ==
  /\ attempt = 1 /\ connecting = c.name
  /\ conn = [a \in Attempts |-> IF a = 1 THEN "dialing" ELSE "none"]
  /\ target = [a \in Attempts |-> IF a = 1 THEN c ELSE NoTarget]

Init ==
  /\ store \in StartStores /\ disk = Saved(store)
  /\ gen = 0 /\ sess = NoSession
  /\ results = {} /\ shown = {} /\ sized = FALSE
  /\ check = IF UpdateEnabled THEN "running" ELSE "off"
  /\ install = FALSE /\ told = FALSE /\ unsavedErr = FALSE /\ editing = NoName
  /\ probes = [n \in Names |-> "none"] /\ probing = {} /\ ops = 0
  /\ quitting = FALSE
  /\ \E waiting \in StartNotices, start \in StartChoices(store) :
       \/ /\ start = <<>>
          /\ up = {"servers"}
          /\ cursor = Clamp(Len(ListNames), RowOf(ListNames, store.default, 0))
          /\ notices = waiting /\ NothingOpening
       \/ /\ start # <<>> /\ Resolvable(start[1])
          /\ up = {} /\ cursor = 0 /\ notices = waiting /\ OpeningFirst(start[1])
       \/ /\ start # <<>> /\ ~Resolvable(start[1])
          /\ up = {} /\ cursor = 0 /\ notices = waiting + 1 /\ NothingOpening

Runtime ==
  \/ \E a \in Attempts : DialOK(a) \/ DialFails(a) \/ ManagerClosed(a)
  \/ \E a \in Attempts : DropSuperseded(a) \/ ConnectFailed(a) \/ SwitchSession(a)
  \/ \E r \in results : DropStaleResult(r) \/ ApplyResult(r)
  \/ \E p \in probing : ProbeDone(p)
  \/ UpdateChecked \/ UpdateResult

Keys ==
  \/ TabKey \/ AskQuit \/ OpenHelp \/ ServersKey \/ GiveUpFirst \/ CloseHelp
  \/ CloseNotice \/ StayHere \/ Quit
  \/ UpdateNow \/ UpdateLater \/ CloseUpdateAlert
  \/ ListEsc \/ ListMove \/ ListEnter \/ OpenNewForm \/ OpenEditForm \/ AskDelete
  \/ DeleteNo \/ DeleteYes \/ SetDefault \/ FormCancel \/ StartProbe
  \/ \E c \in Connection : FormSubmit(c)

Next == Runtime \/ Keys \/ WindowSize

\* A goroutine finishes: a dial within connectTotalTimeout, a Close once the
\* queries it waits for end.  While the program runs, a sent message is received.
Fairness ==
  /\ \A a \in Attempts : WF_vars(DialOK(a) \/ DialFails(a)) /\ WF_vars(ManagerClosed(a))
  /\ \A a \in Attempts :
       WF_vars(DropSuperseded(a) \/ ConnectFailed(a) \/ SwitchSession(a))

Spec == Init /\ [][Next]_vars
FairSpec == Spec /\ Fairness

----------------------------------------------------------------------------
(* Properties.                                                             *)

TypeOK ==
  /\ sess \in [gen : 0 .. MaxAttempts, by : 0 .. MaxAttempts,
               name : Names \union {NoName}, cfg : Settings \union {NoName}]
  /\ gen \in 0 .. MaxAttempts
  /\ attempt \in 0 .. MaxAttempts
  /\ connecting \in Names \union {NoName}
  /\ conn \in [Attempts -> ConnStates]
  /\ target \in [Attempts -> Connection \union {NoTarget}]
  /\ results \subseteq Result /\ shown \subseteq Attempts
  /\ sized \in BOOLEAN /\ up \subseteq Overlays /\ notices \in Nat
  /\ check \in {"off", "running", "done"} /\ install \in BOOLEAN
  /\ store \in Stores
  /\ disk \in [conns : Seq(Connection), default : Names \union {NoName}]
  /\ told \in BOOLEAN /\ unsavedErr \in BOOLEAN
  /\ cursor \in Nat /\ editing \in Names \union {NoName}
  /\ probes \in [Names -> {"none", "running", "done"}]
  /\ probing \subseteq Probe /\ ops \in 0 .. MaxOps
  /\ quitting \in BOOLEAN

\* "Data from server A can never render under server B's header" (session.go):
\* what the tabs hold came from the manager of the session they belong to.
NoForeignData == shown \subseteq {sess.by}

\* One session, one manager: a manager is in use exactly when it is the
\* session's; every other one that was opened has its Close started or is in a
\* message still to be received.
OneLiveManager == \A a \in Attempts : conn[a] = "live" <=> (Connected /\ sess.by = a)

\* No spinner without a goroutine behind it: "connecting to ..." needs the current
\* attempt on its way to that server, "testing..." a probe of that row, "Updating"
\* the self-update; and a current attempt on its way is never hidden.
SpinnersBacked ==
  /\ connecting # NoName =>
       attempt \in Attempts /\ conn[attempt] \in {"dialing", "up", "err"}
         /\ target[attempt].name = connecting
  /\ attempt \in Attempts /\ conn[attempt] \in {"dialing", "up", "err"} =>
       connecting = target[attempt].name
  /\ \A n \in Names : probes[n] = "running" => \E p \in probing : p.name = n
  /\ "updating" \in up <=> install

\* The server under the user's hands changes only from the Servers screen, and
\* only to the server last asked for: never while a tab has the keyboard.
SwitchOnlyWhenAsked ==
  [][sess' # sess =>
       /\ connecting # NoName /\ sess'.name = connecting
       /\ Connected => "servers" \in up]_vars

\* A queued notice waits only for the one on screen or the first window size.
NoticesMoveOn == notices > 0 => "notice" \in up \/ ~sized

\* Without a session and with nothing being opened, the Servers screen is open,
\* or the connection asked for at startup was invalid and a notice says so.
NeverStranded ==
  ~Connected /\ connecting = NoName /\ "servers" \notin up => attempt = 0

\* Two lists, in handleKey and in view, decide who has the keys and what is drawn.  Whatever
\* the keys and the messages opened, in any order, they agree, but for the windows a message
\* opens while the help is read: the help stays drawn over those, and over nothing else.
\* The form and the delete confirmation of the Servers screen are never both open.
KeysFollowScreen ==
  /\ sized => \/ Drawn = Owner
              \/ Drawn = "help" /\ up \subseteq {"help"} \union MessageWindows
  /\ "form" \in up => "delete" \notin up

\* The overlay drawn is the one the keys go to ("takes priority over everything
\* but quit", model.go).
DrawnHasKeys == sized => Drawn = Owner

\* names[cursor] exists whenever there is a name (selectedServer indexes with it).
CursorInRange == HasSelected => cursor < Len(ListNames)

\* The default names a server that exists: renames carry it, deletions clear it.
DefaultExists == store.default # NoName => IsSaved(store, store.default)

\* Two servers never share a name.
NamesUnique ==
  \A i, j \in DOMAIN store.conns : store.conns[i].name = store.conns[j].name => i = j

\* Whatever was added, renamed, deleted and made the default, in any order, the list
\* of the screen and the store agree (serversModal, Store.Upsert, Store.Remove).
ListConsistent == CursorInRange /\ DefaultExists /\ NamesUnique

\* What the user changed is in config.yml, or a notice or the form says it is not.
SavedOrTold ==
  Saved(store) = disk \/ told \/ (unsavedErr /\ "form" \in up)

\* Every attempt is answered or given up: "connecting..." does not stay.
AttemptSettles ==
  \A a \in Attempts :
    (attempt = a /\ connecting # NoName) ~> (attempt # a \/ connecting = NoName \/ quitting)

\* A manager that was opened comes into use or is closed: none is left behind.
ManagersReleased ==
  \A a \in Attempts :
    (conn[a] \in {"up", "closing"}) ~> (conn[a] \in {"live", "closed"} \/ quitting)

\* The connection part implements the abstract slot: the attempt awaited is the
\* latest one while its goroutine or its message is on the way.
Live == IF quitting THEN 0 ELSE sess.by
Want == IF ~quitting /\ attempt \in Attempts /\ conn[attempt] \in {"dialing", "up", "err"}
        THEN attempt ELSE 0
Held == {a \in Attempts : conn[a] \in {"up", "live", "closing"}}
Slot == INSTANCE ConnectionSlot WITH
          Requests <- Attempts, live <- Live, want <- Want, held <- Held, left <- quitting
SlotSpec == Slot!SlotSpec
=============================================================================
