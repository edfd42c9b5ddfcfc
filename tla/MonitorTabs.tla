---------------------------- MODULE MonitorTabs ----------------------------
(***************************************************************************)
(* The tabs that watch the server: Dashboard (ui/dashboard.go) with its    *)
(* refresh timer, Locks (ui/locks.go), and Sessions (ui/sessions.go),      *)
(* which cancels queries and terminates connections.                       *)
(***************************************************************************)
EXTENDS TabCommands

VARIABLES
  sessions,     \* the Sessions view
  watch         \* the Dashboard and Locks views

monitorVars == <<sessions, watch>>

NoQuestion == [kind |-> "none"]
SessionsCapturing == sessions.modal # NoQuestion \/ sessions.alert
SessionsBecome(v) == sessions' = v /\ UNCHANGED watch
WatchBecomes(w) == watch' = w /\ UNCHANGED sessions

SessionKey(op, kind) ==
  op \in job /\ ~sessions.alert /\ sessions.modal.kind = kind /\ UNCHANGED world

----------------------------------------------------------------------------
(* Sessions.                                                               *)

SelectedPid == sessions.list[sessions.cursor]
IsSession == sessions.cursor \in DOMAIN sessions.list

RefreshSessions ==
  /\ SessionKey("sessions", "none")
  /\ SessionsBecome([sessions EXCEPT !.loading = TRUE]) /\ Send({LoadSessions})
MoveSession ==
  /\ SessionKey("sessions", "none") /\ sessions.list # <<>>
  /\ \E c \in Moves(sessions.list, sessions.cursor) : SessionsBecome([sessions EXCEPT !.cursor = c])
  /\ Send({})
FindSession ==
  /\ SessionKey("find session", "none") /\ sessions.list # <<>>
  /\ SessionsBecome([sessions EXCEPT !.modal = [kind |-> "find", items |-> Len(sessions.list)]])
  /\ Send({})
PickSession ==
  /\ SessionKey("find session", "find")
  /\ \E k \in 1 .. sessions.modal.items :
       SessionsBecome([sessions EXCEPT !.modal = NoQuestion,
                                       !.cursor = IF k \in DOMAIN sessions.list THEN k ELSE @])
  /\ Send({})

\* The question names the backend.
ConfirmOn ==
  /\ SessionKey("sessions", "none") /\ IsSession
  /\ \E op \in {"cancel", "terminate"} :
       SessionsBecome([sessions EXCEPT !.pendingOp = op, !.pendingPid = SelectedPid,
                                       !.modal = [kind |-> "confirm", op |-> op, pid |-> SelectedPid]])
  /\ Send({})
\* As if yes went to the row under the cursor.
RowPid(v) == IF v.cursor \in DOMAIN v.list THEN v.list[v.cursor] ELSE v.pendingPid
\* The backend that was selected when the question opened.
AskedPid(v) == v.pendingPid
SessionYes ==
  /\ SessionKey("sessions", "confirm")
  /\ SessionsBecome([sessions EXCEPT !.modal = NoQuestion])
  /\ Send({SessionAction(sessions.pendingOp, AskedPid(sessions))})
SessionNo ==
  /\ ~sessions.alert /\ sessions.modal # NoQuestion /\ UNCHANGED world
  /\ SessionsBecome([sessions EXCEPT !.modal = NoQuestion]) /\ Send({})
CloseSessionAlert ==
  /\ sessions.alert /\ UNCHANGED world
  /\ SessionsBecome([sessions EXCEPT !.alert = FALSE]) /\ Send({})

SessionsMsg(a) ==
  IF ~a.ok THEN SessionsBecome([sessions EXCEPT !.loading = FALSE])
  ELSE \E c \in CursorIn(a.rows, sessions.cursor) :
         SessionsBecome([sessions EXCEPT !.loading = FALSE, !.list = a.rows, !.cursor = c])
\* Whatever came of it, the list is read again.
SessionActionMsg(a) == SessionsBecome([sessions EXCEPT !.alert = IF a.ok THEN @ ELSE TRUE])

----------------------------------------------------------------------------
(* Dashboard and Locks.                                                    *)

\* As if every visit started a timer.
AlwaysTicks(w) == {LoadDashboard, Tick}
\* What opening the Dashboard starts: the timer only the first time.
DashboardLoads(w) == IF w.started THEN {LoadDashboard} ELSE {LoadDashboard, Tick}
DashboardMsg(a) == WatchBecomes([watch EXCEPT !.loaded = TRUE])
RefreshDashboard ==
  "dashboard" \in job /\ UNCHANGED world /\ Send({LoadDashboard}) /\ UNCHANGED monitorVars
\* The timer that fires is followed by the next one.
TickMsg(a) == UNCHANGED monitorVars
AfterTick == {LoadDashboard, Tick}

LocksMsg(a) == WatchBecomes([watch EXCEPT !.loading = FALSE])
RefreshLocks ==
  /\ "locks" \in job /\ UNCHANGED world
  /\ WatchBecomes([watch EXCEPT !.loading = TRUE]) /\ Send({LoadLocks})

MonitorInit ==
  /\ sessions = [list |-> <<>>, cursor |-> 1, modal |-> NoQuestion, alert |-> FALSE,
                 pendingPid |-> 0, pendingOp |-> "cancel", loading |-> "sessions" \in job]
  /\ watch = [started |-> "dashboard" \in job, loaded |-> FALSE, loading |-> "locks" \in job]

SessionsKeys ==
  \/ RefreshSessions \/ MoveSession \/ FindSession \/ PickSession
  \/ ConfirmOn \/ SessionYes \/ SessionNo \/ CloseSessionAlert
=============================================================================
