---------------------------- MODULE ShellProofs ----------------------------
(***************************************************************************)
(* Proofs about Shell, for every number of attempts, every list of servers *)
(* and every interleaving.  The connection part: the tabs never hold data  *)
(* of another server, and exactly the session's manager is in use.  The    *)
(* screens: nobody is stranded, spinners are backed, notices move on, the  *)
(* keys follow the screen, the list agrees with the store.                 *)
(***************************************************************************)
EXTENDS Shell, ListProofs, TLAPS

(***************************************************************************)
(* The inductive invariant.                                                *)
(***************************************************************************)
SlotTypeOK ==
  /\ attempt \in 0 .. MaxAttempts /\ gen \in Nat
  /\ conn \in [Attempts -> ConnStates]

\* Attempts are used in order.
Fresh == \A a \in Attempts : a > attempt => conn[a] = "none"

\* The session is the latest one, and its manager is the only one in use.
SessionLive ==
  /\ sess.gen = gen
  /\ ~Connected => sess.by = 0 /\ gen = 0
  /\ Connected => sess.by \in Attempts /\ gen # 0 /\ conn[sess.by] = "live"
  /\ \A a \in Attempts : conn[a] = "live" => Connected /\ sess.by = a

\* A result of the present generation is of the present manager; none is of a
\* generation still to come.
ResultsTagged ==
  /\ \A r \in results : r.gen \in Nat /\ r.gen <= gen
  /\ \A r \in results : Connected /\ r.gen = sess.gen => r.by = sess.by

SlotInv == SlotTypeOK /\ Fresh /\ SessionLive /\ ResultsTagged /\ NoForeignData

part == <<slot, data>>

-----------------------------------------------------------------------------
\* At startup there is no session and at most one attempt.
LEMMA InitSlotInv == Init => SlotInv
<1> SUFFICES ASSUME Init PROVE SlotInv
  OBVIOUS
<1> USE ShellConstants
<1>1. sess = [gen |-> 0, by |-> 0, name |-> NoName, cfg |-> NoName] /\ gen = 0
      /\ results = {} /\ shown = {}
  BY DEF Init, NoSession
<1>2. \/ attempt = 0 /\ conn = [a \in Attempts |-> "none"]
      \/ \E c : OpeningFirst(c)
  BY DEF Init, NothingOpening
<1>3. SlotTypeOK
  BY <1>1, <1>2 DEF SlotTypeOK, Attempts, OpeningFirst, ConnStates
<1>4. Fresh
  BY <1>1, <1>2 DEF Fresh, Attempts, OpeningFirst
<1>5. SessionLive
  BY <1>1, <1>2 DEF SessionLive, Connected, NoSession, Attempts, OpeningFirst
<1>6. ResultsTagged /\ NoForeignData
  BY <1>1 DEF ResultsTagged, NoForeignData
<1> QED
  BY <1>3, <1>4, <1>5, <1>6 DEF SlotInv

\* A step that leaves the connection and the results alone.
LEMMA Unaffected ==
  ASSUME SlotInv, UNCHANGED part
  PROVE  SlotInv'
BY DEF SlotInv, SlotTypeOK, Fresh, SessionLive, ResultsTagged, NoForeignData, Connected, part,
       slot, data, Attempts

\* A goroutine or its message moves on, without becoming the session's.
LEMMA OtherManager ==
  ASSUME SlotInv, NEW a \in Attempts, NEW to \in ConnStates \ {"live", "none"},
         conn[a] \notin {"live", "none"},
         conn' = [conn EXCEPT ![a] = to],
         UNCHANGED <<sess, gen, attempt, data>>
  PROVE  SlotInv'
<1> USE DEF Attempts
<1>1. \A b \in Attempts : conn'[b] = IF b = a THEN to ELSE conn[b]
  BY DEF SlotInv, SlotTypeOK
<1>2. SlotTypeOK'
  BY DEF SlotInv, SlotTypeOK
<1>3. Fresh'
  BY <1>1 DEF SlotInv, Fresh
<1>4. SessionLive'
  BY <1>1 DEF SlotInv, SessionLive, Connected, ConnStates
<1>5. ResultsTagged' /\ NoForeignData'
  BY DEF SlotInv, ResultsTagged, NoForeignData, Connected, data
<1> QED
  BY <1>2, <1>3, <1>4, <1>5 DEF SlotInv

\* Model.connect and Model.cancelConnect only add an attempt.
LEMMA NewAttempt ==
  ASSUME SlotInv, UNCHANGED data,
         (\E c, u : Connect(c, u)) \/ CancelConnect
  PROVE  SlotInv'
<1> USE ShellConstants DEF Attempts
<1>1. CASE UNCHANGED slot
  BY <1>1, Unaffected DEF part
<1>2. CASE CancelConnect
  <2>1. attempt' = attempt + 1 /\ attempt < MaxAttempts /\ UNCHANGED <<sess, gen, conn>>
    BY <1>2 DEF CancelConnect
  <2> QED
    BY <2>1 DEF SlotInv, SlotTypeOK, Fresh, SessionLive, ResultsTagged, NoForeignData, Connected, data
<1>3. CASE \E c, u : Connect(c, u) /\ ~UNCHANGED slot
  <2>1. PICK c, u : Connect(c, u) /\ ~UNCHANGED slot
    BY <1>3
  <2>2. /\ attempt < MaxAttempts /\ attempt' = attempt + 1
        /\ conn' = [conn EXCEPT ![attempt + 1] = "dialing"]
        /\ UNCHANGED <<sess, gen>>
    BY <2>1 DEF Connect
  <2>3. /\ attempt + 1 \in Attempts
        /\ \A b \in Attempts : conn'[b] = IF b = attempt + 1 THEN "dialing" ELSE conn[b]
        /\ conn[attempt + 1] = "none"
    BY <2>2 DEF SlotInv, SlotTypeOK, Fresh
  <2>4. SlotTypeOK'
    BY <2>2, <2>3 DEF SlotInv, SlotTypeOK, ConnStates
  <2>5. Fresh'
    BY <2>2, <2>3 DEF SlotInv, Fresh, SlotTypeOK
  <2>6. SessionLive'
    BY <2>2, <2>3 DEF SlotInv, SessionLive, Connected
  <2>7. ResultsTagged' /\ NoForeignData'
    BY <2>2 DEF SlotInv, ResultsTagged, NoForeignData, Connected, data
  <2> QED
    BY <2>4, <2>5, <2>6, <2>7 DEF SlotInv
<1> QED
  BY <1>1, <1>2, <1>3

\* SwitchSession: the old manager is being closed, the new one is the session's,
\* and no result of the new generation can be of an older manager.
LEMMA NewSession ==
  ASSUME SlotInv, NEW a \in Attempts, SwitchSession(a)
  PROVE  SlotInv'
<1> USE DEF Attempts
<1>1. /\ conn[a] = "up" /\ a = attempt
      /\ gen' = gen + 1 /\ sess'.gen = gen + 1 /\ sess'.by = a
      /\ results' = results \union {[gen |-> gen + 1, by |-> a]}
      /\ shown' = {} /\ attempt' = attempt
  BY DEF SwitchSession, NextGen, IsCurrent
<1>2. Connected'
  BY <1>1 DEF Connected, NoSession, SlotInv, SlotTypeOK
<1>3. /\ conn' \in [Attempts -> ConnStates]
      /\ \A b \in Attempts :
           conn'[b] = IF b = a THEN "live"
                      ELSE IF Connected /\ b = sess.by THEN "closing" ELSE conn[b]
  <2>1. CASE Connected
    BY <2>1 DEF SwitchSession, CloseSession, CloseManager, SlotInv, SlotTypeOK, SessionLive, ConnStates
  <2>2. CASE ~Connected
    BY <2>2 DEF SwitchSession, CloseSession, SlotInv, SlotTypeOK, ConnStates
  <2> QED
    BY <2>1, <2>2
<1>4. SlotTypeOK'
  BY <1>1, <1>3 DEF SlotInv, SlotTypeOK
<1>5. Fresh'
  BY <1>1, <1>3 DEF SlotInv, Fresh, SlotTypeOK, SessionLive
<1>6. SessionLive'
  BY <1>1, <1>2, <1>3 DEF SlotInv, SessionLive, SlotTypeOK
<1>7. ResultsTagged'
  BY <1>1 DEF SlotInv, ResultsTagged, SlotTypeOK
<1>8. NoForeignData'
  BY <1>1 DEF NoForeignData
<1> QED
  BY <1>4, <1>5, <1>6, <1>7, <1>8 DEF SlotInv

\* The results: new ones carry the session's generation and manager, stale ones
\* are dropped, and what is shown comes from a result of this session.
LEMMA ResultSteps ==
  ASSUME SlotInv,
         TabKey \/ \E r \in results : DropStaleResult(r) \/ ApplyResult(r)
  PROVE  SlotInv'
<1>1. UNCHANGED slot
  BY DEF TabKey, DropStaleResult, ApplyResult
<1>2. Connected => sess.gen \in Nat /\ sess.gen <= gen
  BY DEF SlotInv, SlotTypeOK, SessionLive
<1>3. /\ \A r \in results' : r \in results \/ (Connected /\ r = [gen |-> sess.gen, by |-> sess.by])
      /\ shown' \subseteq shown \union {sess.by}
  <2>1. CASE TabKey
    BY <2>1 DEF TabKey
  <2>2. CASE \E r \in results : DropStaleResult(r)
    BY <2>2 DEF DropStaleResult
  <2>3. CASE \E r \in results : ApplyResult(r)
    BY <2>3 DEF ApplyResult, SlotInv, ResultsTagged
  <2> QED
    BY <2>1, <2>2, <2>3
<1>4. SlotTypeOK' /\ Fresh' /\ SessionLive'
  BY <1>1 DEF slot, SlotInv, SlotTypeOK, Fresh, SessionLive, Connected, Attempts
<1>5. ResultsTagged'
  BY <1>1, <1>2, <1>3 DEF slot, SlotInv, ResultsTagged, Connected, SlotTypeOK
<1>6. NoForeignData'
  BY <1>1, <1>3 DEF slot, SlotInv, NoForeignData
<1> QED
  BY <1>4, <1>5, <1>6 DEF SlotInv

-----------------------------------------------------------------------------
\* Every step of the program keeps the invariant.
LEMMA NextSlotInv == SlotInv /\ [Next]_vars => SlotInv'
<1> SUFFICES ASSUME SlotInv, [Next]_vars PROVE SlotInv'
  OBVIOUS
<1>1. ASSUME NEW a \in Attempts, DialOK(a) \/ DialFails(a) \/ ManagerClosed(a)
      PROVE  SlotInv'
  <2>1. CASE DialOK(a)
    BY <2>1, OtherManager DEF DialOK, ConnStates
  <2>2. CASE DialFails(a)
    BY <2>2, OtherManager DEF DialFails, ConnStates
  <2>3. CASE ManagerClosed(a)
    BY <2>3, OtherManager DEF ManagerClosed, ConnStates
  <2> QED
    BY <1>1, <2>1, <2>2, <2>3
<1>2. ASSUME NEW a \in Attempts, DropSuperseded(a) PROVE SlotInv'
  <2>1. conn[a] \in {"up", "err"} /\ UNCHANGED <<sess, gen, attempt, data>>
    BY <1>2 DEF DropSuperseded
  <2>2. CASE conn[a] = "up"
    BY <1>2, <2>1, <2>2, OtherManager DEF DropSuperseded, CloseManager, ConnStates
  <2>3. CASE conn[a] = "err"
    BY <1>2, <2>1, <2>3, OtherManager DEF DropSuperseded, ConnStates
  <2> QED
    BY <2>1, <2>2, <2>3
<1>3. ASSUME NEW a \in Attempts, ConnectFailed(a) PROVE SlotInv'
  BY <1>3, OtherManager DEF ConnectFailed, ConnStates
<1>4. ASSUME NEW a \in Attempts, SwitchSession(a) PROVE SlotInv'
  BY <1>4, NewSession
<1>5. CASE TabKey \/ \E r \in results : DropStaleResult(r) \/ ApplyResult(r)
  BY <1>5, ResultSteps
<1>6. CASE GiveUpFirst \/ ListEsc \/ ListEnter \/ \E c \in Connection : FormSubmit(c)
  <2>1. UNCHANGED data
    BY <1>6 DEF GiveUpFirst, ListEsc, ListEnter, FormSubmit
  <2>2. \/ UNCHANGED slot
        \/ CancelConnect
        \/ \E c, u : Connect(c, u)
    BY <1>6 DEF GiveUpFirst, ListEsc, ListEnter, FormSubmit, slot
  <2> QED
    BY <2>1, <2>2, NewAttempt, Unaffected DEF part
<1>7. CASE \/ AskQuit \/ OpenHelp \/ ServersKey \/ CloseHelp \/ CloseNotice \/ StayHere \/ Quit
           \/ UpdateNow \/ UpdateLater \/ CloseUpdateAlert \/ UpdateChecked \/ UpdateResult
           \/ WindowSize
  BY <1>7, Unaffected DEF part, AskQuit, OpenHelp, ServersKey, CloseHelp, CloseNotice, StayHere,
       Quit, UpdateNow, UpdateLater, CloseUpdateAlert, UpdateChecked, UpdateResult, WindowSize
<1>8. CASE \/ ListMove \/ OpenNewForm \/ OpenEditForm \/ AskDelete \/ DeleteNo \/ DeleteYes
           \/ SetDefault \/ FormCancel \/ StartProbe \/ \E p \in probing : ProbeDone(p)
  BY <1>8, Unaffected DEF part, ListMove, OpenNewForm, OpenEditForm, AskDelete, DeleteNo,
       DeleteYes, SetDefault, FormCancel, StartProbe, ProbeDone
<1>9. CASE UNCHANGED vars
  BY <1>9, Unaffected DEF part, vars
<1> QED
  BY <1>1, <1>2, <1>3, <1>4, <1>5, <1>6, <1>7, <1>8, <1>9 DEF Next, Runtime, Keys

\* The invariant holds in every reachable state.
THEOREM SlotInvariant == Spec => []SlotInv
<1>1. Init => SlotInv
  BY InitSlotInv
<1>2. SlotInv /\ [Next]_vars => SlotInv'
  BY NextSlotInv
<1> QED
  BY <1>1, <1>2, PTL DEF Spec

-----------------------------------------------------------------------------
\* "Data from server A can never render under server B's header" (session.go), for
\* any number of servers, attempts and results in flight: handleConnected, scope
\* and the scopedMsg case of Update together.
THEOREM DataOfThisServer == Spec => []NoForeignData
<1>1. SlotInv => NoForeignData
  BY DEF SlotInv
<1> QED
  BY <1>1, SlotInvariant, PTL

\* A manager is in use exactly when it is the session's: handleConnected closes
\* every other one, also those of cancelled and superseded attempts.
THEOREM ManagerOfThisSession == Spec => []OneLiveManager
<1>1. SlotInv => OneLiveManager
  BY DEF SlotInv, SessionLive, OneLiveManager
<1> QED
  BY <1>1, SlotInvariant, PTL
-----------------------------------------------------------------------------
(***************************************************************************)
(* The connection part implements ConnectionSlot.                          *)
(***************************************************************************)
LEMMA InitRefines == Init => Slot!SlotInit
<1> SUFFICES ASSUME Init PROVE Slot!SlotInit
  OBVIOUS
<1>1. quitting = FALSE /\ sess.by = 0
  BY DEF Init, NoSession
<1>2. \A a \in Attempts : conn[a] \in {"none", "dialing"}
  BY DEF Init, NothingOpening, OpeningFirst
<1> QED
  BY <1>1, <1>2 DEF Slot!SlotInit, Slot!None, Live, Want, Held

\* What the slot sees of a step that leaves the connection and quitting alone.
LEMMA NoSlotStep ==
  ASSUME UNCHANGED <<slot, quitting>>
  PROVE  UNCHANGED Slot!slotVars
BY DEF slot, Slot!slotVars, Live, Want, Held

\* What the slot sees of the goroutine of attempt a.
LEMMA OtherManagerRefines ==
  ASSUME SlotInv, NEW a \in Attempts, NEW to \in ConnStates \ {"live", "none"},
         conn' = [conn EXCEPT ![a] = to],
         UNCHANGED <<sess, attempt, quitting>>,
         \/ conn[a] = "dialing" /\ to \in {"up", "err"}
         \/ conn[a] = "up" /\ to = "closing" /\ a # attempt
         \/ conn[a] = "err" /\ to = "over"
         \/ conn[a] = "closing" /\ to = "closed"
  PROVE  [Slot!SlotNext]_(Slot!slotVars)
<1> USE DEF Attempts
<1>1. \A b \in Attempts : conn'[b] = IF b = a THEN to ELSE conn[b]
  BY DEF SlotInv, SlotTypeOK
<1>2. Live' = Live /\ quitting' = quitting
  BY DEF Live
<1>3. a # Live
  BY DEF Live, SlotInv, SessionLive
<1>4. CASE conn[a] = "dialing" /\ to = "up"
  <2>1. Want' = Want /\ a \notin Held /\ Held' = Held \union {a}
    BY <1>1, <1>4 DEF Want, Held
  <2> QED
    BY <1>2, <1>3, <2>1 DEF Slot!SlotNext, Slot!OpenManager
<1>5. CASE conn[a] = "dialing" /\ to = "err"
  <2>1. Want' = Want /\ Held' = Held
    BY <1>1, <1>5 DEF Want, Held
  <2> QED
    BY <1>2, <2>1 DEF Slot!slotVars
<1>6. CASE conn[a] = "up" /\ to = "closing" /\ a # attempt
  <2>1. Want' = Want /\ Held' = Held
    BY <1>1, <1>6 DEF Want, Held
  <2> QED
    BY <1>2, <2>1 DEF Slot!slotVars
<1>7. CASE conn[a] = "err" /\ to = "over"
  <2>1. Held' = Held
    BY <1>1, <1>7 DEF Held
  <2>2. CASE a = attempt /\ ~quitting
    <3>1. Want = a /\ Want' = 0
      BY <1>1, <1>7, <2>2 DEF Want
    <3> QED
      BY <1>2, <2>1, <2>2, <3>1 DEF Slot!SlotNext, Slot!GiveUp, Slot!None
  <2>3. CASE a # attempt \/ quitting
    <3>1. Want' = Want
      BY <1>1, <1>7, <2>3 DEF Want
    <3> QED
      BY <1>2, <2>1, <3>1 DEF Slot!slotVars
  <2> QED
    BY <2>2, <2>3 DEF SlotInv
<1>8. CASE conn[a] = "closing" /\ to = "closed"
  <2>1. Want' = Want /\ a # Want /\ a \in Held /\ Held' = Held \ {a}
    BY <1>1, <1>8 DEF Want, Held
  <2> QED
    BY <1>2, <1>3, <2>1 DEF Slot!SlotNext, Slot!Release
<1> QED
  BY <1>4, <1>5, <1>6, <1>7, <1>8

\* What the slot sees of a new attempt: a request, or giving up the awaited one.
LEMMA NewAttemptRefines ==
  ASSUME SlotInv, ~quitting, UNCHANGED quitting,
         (\E c, u : Connect(c, u)) \/ CancelConnect
  PROVE  [Slot!SlotNext]_(Slot!slotVars)
<1> USE ShellConstants DEF Attempts
<1>1. CASE UNCHANGED slot
  BY <1>1, NoSlotStep
<1>2. CASE CancelConnect
  <2>1. attempt' = attempt + 1 /\ attempt < MaxAttempts /\ UNCHANGED <<sess, conn>>
    BY <1>2 DEF CancelConnect
  <2>2. attempt' \in Attempts /\ conn'[attempt'] = "none"
    BY <2>1 DEF SlotInv, Fresh, SlotTypeOK
  <2>3. Want' = 0 /\ Live' = Live /\ Held' = Held
    BY <2>1, <2>2 DEF Want, Live, Held
  <2> QED
    BY <2>3 DEF Slot!SlotNext, Slot!GiveUp, Slot!slotVars, Slot!None
<1>3. CASE (\E c, u : Connect(c, u)) /\ ~UNCHANGED slot
  <2>1. /\ attempt < MaxAttempts /\ attempt' = attempt + 1
        /\ conn' = [conn EXCEPT ![attempt + 1] = "dialing"]
        /\ sess' = sess
    BY <1>3 DEF Connect
  <2>2. /\ attempt' \in Attempts /\ conn[attempt'] = "none"
        /\ \A b \in Attempts : conn'[b] = IF b = attempt' THEN "dialing" ELSE conn[b]
    BY <2>1 DEF SlotInv, Fresh, SlotTypeOK
  <2>3. Want' = attempt' /\ Live' = Live /\ Held' = Held /\ attempt' \notin Held
    BY <2>1, <2>2 DEF Want, Live, Held
  <2> QED
    BY <2>2, <2>3 DEF Slot!SlotNext, Slot!Request
<1> QED
  BY <1>1, <1>2, <1>3

\* Every step is a step of the slot, or leaves it alone.
LEMMA StepRefines == SlotInv /\ [Next]_vars => [Slot!SlotNext]_(Slot!slotVars)
<1> SUFFICES ASSUME SlotInv, [Next]_vars PROVE [Slot!SlotNext]_(Slot!slotVars)
  OBVIOUS
<1>1. ASSUME NEW a \in Attempts, DialOK(a) \/ DialFails(a) \/ ManagerClosed(a)
      PROVE  [Slot!SlotNext]_(Slot!slotVars)
  BY <1>1, OtherManagerRefines DEF DialOK, DialFails, ManagerClosed, ConnStates
<1>2. ASSUME NEW a \in Attempts, DropSuperseded(a) \/ ConnectFailed(a)
      PROVE  [Slot!SlotNext]_(Slot!slotVars)
  BY <1>2, OtherManagerRefines
     DEF DropSuperseded, ConnectFailed, CloseManager, IsCurrent, ConnStates
<1>3. ASSUME NEW a \in Attempts, SwitchSession(a) PROVE Slot!TakeOver
  <2>1. /\ conn[a] = "up" /\ a = attempt /\ attempt' = attempt /\ sess'.by = a
        /\ ~quitting /\ UNCHANGED quitting
    BY <1>3 DEF SwitchSession, IsCurrent
  <2>2. \A b \in Attempts :
           conn'[b] = IF b = a THEN "live"
                      ELSE IF Connected /\ b = sess.by THEN "closing" ELSE conn[b]
    BY <1>3 DEF SwitchSession, CloseSession, CloseManager, SlotInv, SlotTypeOK
  <2>3. Connected => conn[sess.by] = "live" /\ sess.by \in Attempts
    BY DEF SlotInv, SessionLive
  <2>4. Want = a /\ a \in Held /\ Live' = a
    BY <2>1 DEF Want, Held, Live
  <2>5. Want' = 0
    BY <2>1, <2>2 DEF Want
  <2>6. Held' = Held
    BY <2>1, <2>2, <2>3 DEF Held
  <2> QED
    BY <2>1, <2>4, <2>5, <2>6 DEF Slot!TakeOver, Slot!None
<1>4. CASE GiveUpFirst \/ ListEsc \/ ListEnter \/ \E c \in Connection : FormSubmit(c)
  <2>1. ~quitting /\ UNCHANGED quitting
    BY <1>4 DEF GiveUpFirst, ListEsc, ListEnter, FormSubmit, ListKey, Key
  <2>2. \/ UNCHANGED slot
        \/ CancelConnect
        \/ \E c, u : Connect(c, u)
    BY <1>4 DEF GiveUpFirst, ListEsc, ListEnter, FormSubmit, slot
  <2>3. CASE UNCHANGED slot
    BY <2>1, <2>3, NoSlotStep
  <2> QED
    BY <2>1, <2>2, <2>3, NewAttemptRefines
<1>5. CASE Quit
  <2>1. ~quitting /\ quitting' = TRUE /\ UNCHANGED slot
    BY <1>5 DEF Quit
  <2>2. Live' = 0 /\ Want' = 0 /\ Held' = Held
    BY <2>1 DEF Live, Want, Held, slot
  <2> QED
    BY <2>1, <2>2, <1>5 DEF Quit, Slot!SlotNext, Slot!Leave, Slot!None
<1>6. CASE \/ AskQuit \/ OpenHelp \/ ServersKey \/ CloseHelp \/ CloseNotice \/ StayHere
           \/ UpdateNow \/ UpdateLater \/ CloseUpdateAlert \/ UpdateChecked \/ UpdateResult
           \/ WindowSize \/ TabKey \/ \E r \in results : DropStaleResult(r) \/ ApplyResult(r)
  <2>1. UNCHANGED <<slot, quitting>>
    BY <1>6 DEF AskQuit, OpenHelp, ServersKey, CloseHelp, CloseNotice, StayHere, UpdateNow,
         UpdateLater, CloseUpdateAlert, UpdateChecked, UpdateResult, WindowSize, TabKey,
         DropStaleResult, ApplyResult
  <2> QED
    BY <2>1, NoSlotStep
<1>7. CASE \/ ListMove \/ OpenNewForm \/ OpenEditForm \/ AskDelete \/ DeleteNo \/ DeleteYes
           \/ SetDefault \/ FormCancel \/ StartProbe \/ \E p \in probing : ProbeDone(p)
  <2>1. UNCHANGED <<slot, quitting>>
    BY <1>7 DEF ListMove, OpenNewForm, OpenEditForm, AskDelete, DeleteNo, DeleteYes, SetDefault,
         FormCancel, StartProbe, ProbeDone
  <2> QED
    BY <2>1, NoSlotStep
<1>8. CASE UNCHANGED vars
  BY <1>8, NoSlotStep DEF vars
<1> QED
  BY <1>1, <1>2, <1>3, <1>4, <1>5, <1>6, <1>7, <1>8 DEF Next, Runtime, Keys, Slot!SlotNext

\* The interface keeps the promise of ConnectionSlot, whatever the number of servers
\* and attempts: only the awaited connection takes over, and a manager is released
\* only when it is neither in use nor awaited.
THEOREM ImplementsSlot == Spec => SlotSpec
<1>1. Init => Slot!SlotInit
  BY InitRefines
<1>2. SlotInv /\ [Next]_vars => [Slot!SlotNext]_(Slot!slotVars)
  BY StepRefines
<1> QED
  BY <1>1, <1>2, SlotInvariant, PTL DEF Spec, SlotSpec, Slot!SlotSpec
----------------------------------------------------------------------------
(***************************************************************************)
(* The screens.  The parts of the invariant speak of few variables each,   *)
(* so that a step has to be looked at only for the parts it touches.       *)
(***************************************************************************)

\* A current attempt is the one the screen names, and sessions are fewer than attempts.
SlotPart ==
  /\ sess \in [gen : 0 .. MaxAttempts, by : 0 .. MaxAttempts,
               name : Names \union {NoName}, cfg : Settings \union {NoName}]
  /\ gen \in 0 .. MaxAttempts /\ gen <= attempt
  /\ attempt \in 0 .. MaxAttempts
  /\ connecting \in Names \union {NoName}
  /\ conn \in [Attempts -> ConnStates]
  /\ target \in [Attempts -> Connection \union {NoTarget}]
  /\ \A a \in Attempts : a > attempt => conn[a] = "none"
  /\ connecting # NoName =>
       /\ attempt \in Attempts /\ conn[attempt] \in {"dialing", "up", "err"}
       /\ target[attempt] \in Connection /\ target[attempt].name = connecting
  /\ attempt \in Attempts /\ conn[attempt] \in {"dialing", "up", "err"} =>
       connecting = target[attempt].name /\ connecting # NoName /\ gen < attempt

DataPart == results \subseteq Result /\ shown \subseteq Attempts

ScreenPart ==
  /\ sized \in BOOLEAN /\ up \subseteq Overlays /\ notices \in Nat
  /\ check \in {"off", "running", "done"} /\ install \in BOOLEAN /\ quitting \in BOOLEAN
  /\ NoticesMoveOn
  /\ "updating" \in up <=> install

\* The Servers screen is open while the user waits for another server, and when
\* there is none to wait for.
ServersOpen ==
  /\ Connected /\ connecting # NoName => "servers" \in up
  /\ NeverStranded

ListPart ==
  /\ store \in Stores
  /\ disk \in [conns : Seq(Connection), default : Names \union {NoName}]
  /\ told \in BOOLEAN /\ unsavedErr \in BOOLEAN
  /\ cursor \in Nat /\ editing \in Names \union {NoName}
  /\ CursorInRange

ProbesPart ==
  /\ probes \in [Names -> {"none", "running", "done"}]
  /\ probing \subseteq Probe /\ ops \in 0 .. MaxOps
  /\ \A n \in Names : probes[n] = "running" => \E p \in probing : p.name = n

ScreenInv == SlotPart /\ DataPart /\ ScreenPart /\ ServersOpen /\ ListPart /\ ProbesPart

----------------------------------------------------------------------------
(* The frames of the parts.                                                *)

LEMMA SlotStays == ASSUME SlotPart, UNCHANGED slot PROVE SlotPart'
BY DEF SlotPart, slot

LEMMA DataStays == ASSUME DataPart, UNCHANGED data PROVE DataPart'
BY DEF DataPart, data

LEMMA ScreenStays ==
  ASSUME ScreenPart, UNCHANGED <<screen, install, check, quitting>> PROVE ScreenPart'
BY DEF ScreenPart, screen, NoticesMoveOn

LEMMA ServersStay ==
  ASSUME ServersOpen, UNCHANGED <<sess, attempt, connecting>>, "servers" \in up => "servers" \in up'
  PROVE  ServersOpen'
BY DEF ServersOpen, NeverStranded, Connected

LEMMA ListStays == ASSUME ListPart, UNCHANGED <<config, cursor, editing>> PROVE ListPart'
BY DEF ListPart, config, CursorInRange, HasSelected, ListNames

LEMMA ProbesStay == ASSUME ProbesPart, UNCHANGED <<probes, probing, ops>> PROVE ProbesPart'
BY DEF ProbesPart

----------------------------------------------------------------------------
(* Overlays and notices.                                                   *)

\* A key goes to an overlay that is active, or to the page.
LEMMA KeysGoToTheTop ==
  ASSUME NEW l, Key(l), l # "page"
  PROVE  l \in up /\ ~quitting
<1>1. Top(KeyOrder) = l /\ ~quitting
  BY DEF Key, Owner
<1> DEFINE n == CHOOSE i \in DOMAIN KeyOrder :
                  KeyOrder[i] \in up /\ \A j \in 1 .. i - 1 : KeyOrder[j] \notin up
           Active == {i \in DOMAIN KeyOrder : KeyOrder[i] \in up}
<1>2. Active # {} /\ l = KeyOrder[n]
  BY <1>1 DEF Top
<1>3. DOMAIN KeyOrder \subseteq Nat /\ \A i \in DOMAIN KeyOrder : 1 .. i - 1 \subseteq DOMAIN KeyOrder
  BY DEF KeyOrder
<1>4. PICK i \in Active : \A k \in Active : i <= k
  <2>1. Active \subseteq Nat
    BY <1>3
  <2> HIDE DEF Active
  <2> QED BY <1>2, <2>1, LeastNumber
<1>5. \E k \in DOMAIN KeyOrder : KeyOrder[k] \in up /\ \A j \in 1 .. k - 1 : KeyOrder[j] \notin up
  <2>1. \A j \in 1 .. i - 1 : j \in DOMAIN KeyOrder /\ j < i
    BY <1>3
  <2>2. \A j \in 1 .. i - 1 : KeyOrder[j] \notin up
    BY <1>3, <1>4, <2>1
  <2> QED BY <1>4, <2>2
<1> QED BY <1>1, <1>2, <1>5

\* The overlays a handler may change without a thought for the notices and the install.
Mild(u) ==
  /\ u \subseteq Overlays
  /\ "notice" \in up => "notice" \in u
  /\ "updating" \in u <=> "updating" \in up

LEMMA MildScreen ==
  ASSUME ScreenPart, Mild(up'), UNCHANGED <<sized, notices, install, check>>, quitting' \in BOOLEAN
  PROVE  ScreenPart'
BY DEF ScreenPart, Mild, NoticesMoveOn

LEMMA NotifyScreen ==
  ASSUME ScreenPart, NEW u, Mild(u), Notify(u), UNCHANGED <<sized, install, check, quitting>>
  PROVE  ScreenPart' /\ u \subseteq up' /\ up' \subseteq u \union {"notice"}
<1>1. notices' \in Nat
  BY DEF Notify, ScreenPart
<1>2. up' \subseteq Overlays /\ u \subseteq up' /\ up' \subseteq u \union {"notice"}
  BY DEF Notify, Mild, Overlays
<1>3. NoticesMoveOn'
  BY DEF Notify, Mild, ScreenPart, NoticesMoveOn
<1>4. "updating" \in up' <=> install'
  BY <1>2 DEF Mild, ScreenPart
<1> QED BY <1>1, <1>2, <1>3, <1>4 DEF ScreenPart

LEMMA FlushScreen ==
  ASSUME ScreenPart, NEW u, u \in {up, up \ {"notice"}}, NEW big \in {sized, TRUE}, sized' = big,
         Flush(u, big), UNCHANGED <<install, check, quitting>>
  PROVE  ScreenPart' /\ ("servers" \in up => "servers" \in up')
<1>1. notices' \in Nat
  BY DEF Flush, ScreenPart
<1>2. up' \subseteq Overlays /\ u \subseteq up' /\ up' \subseteq u \union {"notice"}
  BY DEF Flush, Overlays, ScreenPart
<1>3. NoticesMoveOn'
  BY DEF Flush, ScreenPart, NoticesMoveOn
<1>4. "updating" \in up' <=> install'
  BY <1>2 DEF ScreenPart
<1> QED BY <1>1, <1>2, <1>3, <1>4 DEF ScreenPart

----------------------------------------------------------------------------
(* The list of servers.                                                    *)

LEMMA EnvIs == EnvConnection \in Connection /\ EnvConnection.name = EnvName
BY StoreConstants DEF EnvConnection, Connection

\* The first server of a name, if there is one.
LEMMA IndexIs ==
  ASSUME NEW s \in Stores, NEW n, IsSaved(s, n)
  PROVE  IndexOf(s, n) \in DOMAIN s.conns /\ s.conns[IndexOf(s, n)].name = n
<1> DEFINE At == {i \in DOMAIN s.conns : s.conns[i].name = n}
<1>1. s.conns \in Seq(Connection) /\ DOMAIN s.conns = 1 .. Len(s.conns) /\ Len(s.conns) \in Nat
  BY DEF Stores
<1>2. PICK i \in At : \A j \in At : i <= j
  <2>1. At # {} /\ At \subseteq Nat
    BY <1>1 DEF IsSaved
  <2> HIDE DEF At
  <2> QED BY <2>1, LeastNumber
<1>3. \A j \in 1 .. i - 1 : s.conns[j].name # n
  BY <1>1, <1>2
<1> QED BY <1>2, <1>3 DEF IndexOf

LEMMA FindIs ==
  ASSUME NEW s \in Stores, NEW n, Found(s, n)
  PROVE  Find(s, n) \in Connection /\ Find(s, n).name = n
<1>1. CASE s.env /\ n = EnvName
  BY <1>1, EnvIs DEF Find
<1>2. CASE ~(s.env /\ n = EnvName)
  <2>1. IsSaved(s, n) /\ Find(s, n) = s.conns[IndexOf(s, n)] /\ s.conns \in Seq(Connection)
    BY <1>2 DEF Found, Find, Stores
  <2> QED BY <2>1, IndexIs
<1> QED BY <1>1, <1>2

LEMMA NamesAre ==
  ASSUME NEW s \in Stores
  PROVE  /\ StoreNames(s) \in Seq(Names)
         /\ Len(StoreNames(s)) = (IF s.env THEN 1 ELSE 0) + Len(s.conns)
         /\ \A k \in DOMAIN StoreNames(s) :
              /\ Found(s, StoreNames(s)[k])
              /\ (s.env /\ StoreNames(s)[k] = EnvName) \/ IsSaved(s, StoreNames(s)[k])
         /\ \A n : IsSaved(s, n) => \E k \in DOMAIN StoreNames(s) : StoreNames(s)[k] = n
<1> DEFINE own == [i \in DOMAIN s.conns |-> s.conns[i].name]
           env == IF s.env THEN <<EnvName>> ELSE <<>>
<1>1. s.conns \in Seq(Connection) /\ s.env \in BOOLEAN /\ Len(s.conns) \in Nat
      /\ DOMAIN s.conns = 1 .. Len(s.conns)
  BY DEF Stores
<1>2. own \in Seq(Names) /\ Len(own) = Len(s.conns)
      /\ \A i \in 1 .. Len(s.conns) : own[i] = s.conns[i].name
  <2>1. \A i \in 1 .. Len(s.conns) : s.conns[i].name \in Names
    <3>1. \A i \in 1 .. Len(s.conns) : s.conns[i] \in Connection
      BY <1>1
    <3> QED BY <3>1 DEF Connection
  <2>2. own = [i \in 1 .. Len(s.conns) |-> s.conns[i].name]
    BY <1>1
  <2> HIDE DEF own
  <2> QED BY <1>1, <2>1, <2>2
<1>3. env \in Seq(Names) /\ (s.env => Len(env) = 1 /\ env[1] = EnvName) /\ (~s.env => Len(env) = 0)
  BY StoreConstants
<1>4. StoreNames(s) = env \o own
  BY DEF StoreNames
<1> HIDE DEF env, own
<1>5. /\ StoreNames(s) \in Seq(Names) /\ Len(StoreNames(s)) = Len(env) + Len(own)
      /\ DOMAIN StoreNames(s) = 1 .. Len(env) + Len(own)
      /\ \A k \in 1 .. Len(env) + Len(own) :
           StoreNames(s)[k] = IF k <= Len(env) THEN env[k] ELSE own[k - Len(env)]
  BY <1>2, <1>3, <1>4
<1>6. Len(StoreNames(s)) = (IF s.env THEN 1 ELSE 0) + Len(s.conns)
  BY <1>1, <1>2, <1>3, <1>5
<1>7. ASSUME NEW k \in DOMAIN StoreNames(s)
      PROVE  (s.env /\ StoreNames(s)[k] = EnvName) \/ IsSaved(s, StoreNames(s)[k])
  <2>1. CASE k <= Len(env)
    BY <2>1, <1>1, <1>3, <1>5
  <2>2. CASE ~(k <= Len(env))
    <3>1. k - Len(env) \in 1 .. Len(s.conns) /\ StoreNames(s)[k] = s.conns[k - Len(env)].name
      BY <2>2, <1>1, <1>2, <1>3, <1>5
    <3> QED BY <3>1, <1>1 DEF IsSaved
  <2> QED BY <2>1, <2>2
<1>8. ASSUME NEW n, IsSaved(s, n) PROVE \E k \in DOMAIN StoreNames(s) : StoreNames(s)[k] = n
  <2>1. PICK i \in 1 .. Len(s.conns) : s.conns[i].name = n
    BY <1>8, <1>1 DEF IsSaved
  <2>2. Len(env) \in Nat /\ own[i] = n /\ Len(own) = Len(s.conns)
    BY <2>1, <1>2, <1>3
  <2>3. Len(env) + i \in 1 .. Len(env) + Len(own) /\ ~(Len(env) + i <= Len(env))
        /\ Len(env) + i - Len(env) = i
    BY <2>1, <2>2, <1>1
  <2>4. Len(env) + i \in DOMAIN StoreNames(s) /\ StoreNames(s)[Len(env) + i] = n
    BY <2>2, <2>3, <1>5
  <2> QED BY <2>4
<1> QED BY <1>5, <1>6, <1>7, <1>8 DEF Found

\* The row of a name is a row of the list.
LEMMA RowIs ==
  ASSUME NEW names \in Seq(Names), NEW n, NEW r \in Nat
  PROVE  /\ RowOf(names, n, r) \in Nat
         /\ RowOf(names, n, r) < Len(names) \/ RowOf(names, n, r) = r
         /\ (\E i \in DOMAIN names : names[i] = n) => RowOf(names, n, r) < Len(names)
<1>1. CASE \E i \in DOMAIN names : names[i] = n
  <2> DEFINE Back == {Len(names) - i : i \in {j \in DOMAIN names : names[j] = n}}
  <2>1. PICK b \in Back : \A k \in Back : b <= k
    <3>1. Back # {} /\ Back \subseteq Nat
      BY <1>1
    <3> HIDE DEF Back
    <3> QED BY <3>1, LeastNumber
  <2>2. PICK i \in DOMAIN names : names[i] = n /\ b = Len(names) - i
    OBVIOUS
  <2>3. \A j \in i + 1 .. Len(names) : names[j] # n
    <3> SUFFICES ASSUME NEW j \in i + 1 .. Len(names), names[j] = n PROVE FALSE
      OBVIOUS
    <3>1. j \in DOMAIN names /\ i \in Nat /\ Len(names) \in Nat
      BY <2>2
    <3>2. Len(names) - i <= Len(names) - j
      BY <2>1, <2>2, <3>1
    <3> QED BY <3>1, <3>2
  <2>4. \E k \in DOMAIN names : names[k] = n /\ \A j \in k + 1 .. Len(names) : names[j] # n
    BY <2>2, <2>3
  <2> DEFINE c == CHOOSE k \in DOMAIN names :
                    names[k] = n /\ \A j \in k + 1 .. Len(names) : names[j] # n
  <2>5. c \in DOMAIN names /\ RowOf(names, n, r) = c - 1
    BY <1>1, <2>4 DEF RowOf
  <2> HIDE DEF c
  <2> QED BY <2>5
<1>2. CASE ~\E i \in DOMAIN names : names[i] = n
  BY <1>2 DEF RowOf
<1> QED BY <1>1, <1>2

LEMMA ClampIs ==
  ASSUME NEW n \in Nat, NEW c \in Nat
  PROVE  Clamp(n, c) \in Nat /\ (n > 0 => Clamp(n, c) < n)
BY DEF Clamp

LEMMA UpsertIs ==
  ASSUME NEW s \in Stores, NEW old \in Names \union {NoName}, NEW c \in Connection
  PROVE  Upsert(s, old, c) \in Stores /\ IsSaved(Upsert(s, old, c), c.name)
<1>1. s.conns \in Seq(Connection) /\ s.default \in Names \union {NoName} /\ c.name \in Names
  BY DEF Stores, Connection
<1> DEFINE u == Upsert(s, old, c)
<1>2. CASE IsSaved(s, old)
  <2> DEFINE k == IndexOf(s, old)
  <2>1. k \in DOMAIN s.conns
    BY <1>2, IndexIs
  <2>2. u = [s EXCEPT !.conns[k] = c, !.default = IF @ = old THEN c.name ELSE @]
    BY <1>2 DEF Upsert
  <2> HIDE DEF k, u
  <2>3. PICK conns, d : /\ conns = [s.conns EXCEPT ![k] = c]
                        /\ d = (IF s.default = old THEN c.name ELSE s.default)
    OBVIOUS
  <2>6. u = [s EXCEPT !.conns = conns, !.default = d]
    BY <2>2, <2>3 DEF Stores
  <2>7. conns \in Seq(Connection) /\ d \in Names \union {NoName}
    BY <2>1, <2>3, <1>1
  <2>4. u \in Stores /\ u.conns = conns
    BY <2>6, <2>7 DEF Stores
  <2>5. k \in DOMAIN u.conns /\ u.conns[k].name = c.name
    BY <2>1, <2>3, <2>4
  <2> QED BY <2>4, <2>5 DEF u, Stores, IsSaved
<1>3. CASE ~IsSaved(s, old)
  <2>1. u = [s EXCEPT !.conns = Append(s.conns, c)]
    BY <1>3 DEF Upsert
  <2> HIDE DEF u
  <2>4. PICK conns : conns = Append(s.conns, c)
    OBVIOUS
  <2>5. conns \in Seq(Connection)
    BY <2>4, <1>1
  <2>2. u \in Stores /\ u.conns = Append(s.conns, c)
    BY <2>1, <2>4, <2>5 DEF Stores
  <2>3. Len(s.conns) + 1 \in DOMAIN u.conns /\ u.conns[Len(s.conns) + 1] = c
    BY <2>2, <1>1
  <2> QED BY <2>2, <2>3 DEF u, Stores, IsSaved
<1> QED BY <1>2, <1>3

LEMMA RemoveIs ==
  ASSUME NEW s \in Stores, NEW n
  PROVE  Remove(s, n) \in Stores
<1> DEFINE K == [name : Names \ {n}, cfg : Settings]
<1>1. Only(s.conns, K) \in Seq(Connection)
  <2>1. s.conns \in Seq(Connection)
    BY DEF Stores
  <2> HIDE DEF K
  <2> QED BY <2>1, OnlyPicks
<1>2. Remove(s, n) = [s EXCEPT !.conns = Only(s.conns, K),
                               !.default = IF s.default = n THEN NoName ELSE s.default]
  BY DEF Remove, Stores
<1> HIDE DEF K
<1> QED BY <1>1, <1>2 DEF Stores

LEMMA SelectedIs ==
  ASSUME ListPart, HasSelected
  PROVE  /\ Selected \in Connection /\ Selected.name \in Names
         /\ Found(store, Selected.name)
         /\ ~SelectedIsEnv => IsSaved(store, Selected.name)
<1> DEFINE n == ListNames[cursor + 1]
<1>1. store \in Stores /\ cursor + 1 \in DOMAIN StoreNames(store)
  <2>1. store \in Stores /\ cursor \in Nat /\ cursor < Len(StoreNames(store))
    BY DEF ListPart, CursorInRange, ListNames
  <2>2. StoreNames(store) \in Seq(Names)
    BY <2>1, NamesAre
  <2> QED BY <2>1, <2>2
<1>2. Found(store, n) /\ ((store.env /\ n = EnvName) \/ IsSaved(store, n))
  BY <1>1, NamesAre DEF ListNames
<1>3. Selected \in Connection /\ Selected.name = n
  BY <1>1, <1>2, FindIs DEF Selected
<1> QED BY <1>2, <1>3 DEF SelectedIsEnv, Connection

----------------------------------------------------------------------------
(* The connection.                                                         *)

\* A goroutine moves on without an answer to the attempt the screen waits for.
LEMMA SlotMoves ==
  ASSUME SlotPart, NEW a \in Attempts, NEW to \in ConnStates, conn[a] # "none",
         conn' = [conn EXCEPT ![a] = to],
         UNCHANGED <<sess, gen, attempt, connecting, target>>,
         \/ a # attempt
         \/ conn[a] = "dialing" /\ to \in {"up", "err"}
         \/ conn[a] = "closing" /\ to = "closed"
  PROVE  SlotPart'
<1>1. conn' \in [Attempts -> ConnStates]
      /\ \A b \in Attempts : conn'[b] = IF b = a THEN to ELSE conn[b]
  BY DEF SlotPart
<1>2. \A b \in Attempts : b > attempt' => conn'[b] = "none"
  BY <1>1 DEF SlotPart
<1>3. attempt \in Attempts =>
        (conn'[attempt] \in {"dialing", "up", "err"} <=> conn[attempt] \in {"dialing", "up", "err"})
  BY <1>1
<1> QED BY <1>1, <1>2, <1>3 DEF SlotPart

LEMMA DialsMove ==
  ASSUME SlotPart, NEW a \in Attempts,
         DialOK(a) \/ DialFails(a) \/ ManagerClosed(a) \/ DropSuperseded(a)
  PROVE  SlotPart'
<1>1. UNCHANGED <<sess, gen, attempt, connecting, target>>
  BY DEF DialOK, DialFails, ManagerClosed, DropSuperseded
<1>2. CASE DialOK(a)
  BY <1>1, <1>2, SlotMoves DEF DialOK, ConnStates
<1>3. CASE DialFails(a)
  BY <1>1, <1>3, SlotMoves DEF DialFails, ConnStates
<1>4. CASE ManagerClosed(a)
  BY <1>1, <1>4, SlotMoves DEF ManagerClosed, ConnStates
<1>5. CASE DropSuperseded(a)
  <2>1. a # attempt /\ conn[a] # "none"
    BY <1>5 DEF DropSuperseded, IsCurrent
  <2>2. PICK to \in {"closing", "over"} : conn' = [conn EXCEPT ![a] = to]
    BY <1>5 DEF DropSuperseded, CloseManager
  <2> QED BY <1>1, <2>1, <2>2, SlotMoves DEF ConnStates
<1> QED BY <1>2, <1>3, <1>4, <1>5

\* handleConnected of the current attempt ends the waiting.
LEMMA Answered ==
  ASSUME SlotPart, NEW a \in Attempts, a = attempt, conn' \in [Attempts -> ConnStates],
         \A b \in Attempts : conn[b] = "none" => conn'[b] = "none",
         conn'[a] \notin {"dialing", "up", "err"},
         connecting' = NoName, UNCHANGED <<attempt, target>>,
         gen' \in 0 .. MaxAttempts, gen' <= attempt,
         sess' \in [gen : 0 .. MaxAttempts, by : 0 .. MaxAttempts,
                    name : Names \union {NoName}, cfg : Settings \union {NoName}]
  PROVE  SlotPart'
BY DEF SlotPart

LEMMA FailedSlot ==
  ASSUME SlotPart, NEW a \in Attempts, ConnectFailed(a)
  PROVE  SlotPart'
<1>1. /\ a = attempt /\ conn' = [conn EXCEPT ![a] = "over"] /\ connecting' = NoName
      /\ conn[a] = "err" /\ UNCHANGED <<sess, gen, attempt, target>>
  BY DEF ConnectFailed, IsCurrent, AnsweredName
<1>2. conn' \in [Attempts -> ConnStates]
      /\ \A b \in Attempts : conn'[b] = IF b = a THEN "over" ELSE conn[b]
  BY <1>1 DEF SlotPart, ConnStates
<1> QED BY <1>1, <1>2, Answered DEF SlotPart

LEMMA SwitchSlot ==
  ASSUME SlotPart, SlotInv, NEW a \in Attempts, SwitchSession(a)
  PROVE  /\ SlotPart' /\ sess'.name = connecting /\ connecting # NoName
         /\ gen' \in Attempts /\ connecting' = NoName /\ Connected'
<1> USE ShellConstants DEF Attempts
<1>1. /\ a = attempt /\ conn[a] = "up" /\ connecting' = NoName /\ gen' = gen + 1
      /\ sess' = [gen |-> gen', by |-> a, name |-> target[a].name, cfg |-> target[a].cfg]
      /\ UNCHANGED <<attempt, target>>
  BY DEF SwitchSession, IsCurrent, AnsweredName, NextGen
<1>2. /\ connecting = target[a].name /\ connecting # NoName /\ gen < attempt
      /\ target[a] \in Connection
  BY <1>1 DEF SlotPart
<1>3. target[a].name \in Names /\ target[a].cfg \in Settings
  BY <1>2 DEF Connection
<1>4. gen' \in 1 .. MaxAttempts /\ gen' <= attempt
  BY <1>1, <1>2 DEF SlotPart
<1>5. sess' \in [gen : 0 .. MaxAttempts, by : 0 .. MaxAttempts,
                 name : Names \union {NoName}, cfg : Settings \union {NoName}]
  BY <1>1, <1>3, <1>4
<1>6. conn' \in [Attempts -> ConnStates]
      /\ \A b \in Attempts :
           conn'[b] = IF b = a THEN "live"
                      ELSE IF Connected /\ b = sess.by THEN "closing" ELSE conn[b]
  <2>1. CASE Connected
    BY <2>1 DEF SwitchSession, CloseSession, CloseManager, SlotInv, SlotTypeOK, SessionLive, ConnStates
  <2>2. CASE ~Connected
    BY <2>2 DEF SwitchSession, CloseSession, SlotInv, SlotTypeOK, ConnStates
  <2> QED BY <2>1, <2>2
<1>7. \A b \in Attempts : conn[b] = "none" => conn'[b] = "none"
  BY <1>1, <1>6 DEF SlotInv, SessionLive
<1>8. SlotPart'
  BY <1>1, <1>4, <1>5, <1>6, <1>7, Answered
<1>9. Connected'
  BY <1>1, <1>4 DEF Connected, NoSession
<1> QED BY <1>1, <1>2, <1>4, <1>8, <1>9

LEMMA CancelSlot ==
  ASSUME SlotPart, CancelConnect
  PROVE  SlotPart'
<1> USE ShellConstants DEF Attempts
<1>1. /\ attempt < MaxAttempts /\ attempt' = attempt + 1 /\ connecting' = NoName
      /\ UNCHANGED <<sess, gen, conn, target>>
  BY DEF CancelConnect
<1>2. attempt' \in Attempts /\ conn'[attempt'] = "none"
  BY <1>1 DEF SlotPart
<1> QED BY <1>1, <1>2 DEF SlotPart

\* Model.connect: to another server, or nowhere.
LEMMA ConnectSlot ==
  ASSUME SlotPart, NEW c \in Connection, NEW u, Connect(c, u)
  PROVE  /\ SlotPart' /\ sess' = sess
         /\ \/ UNCHANGED slot /\ Notify(u)
            \/ connecting' # NoName /\ attempt' # 0 /\ up' = u /\ UNCHANGED notices
<1> USE ShellConstants DEF Attempts
<1>1. CASE UNCHANGED slot /\ Notify(u)
  BY <1>1, SlotStays DEF slot
<1>2. CASE ~(UNCHANGED slot /\ Notify(u))
  <2>1. /\ attempt < MaxAttempts /\ attempt' = attempt + 1 /\ connecting' = c.name
        /\ conn' = [conn EXCEPT ![attempt + 1] = "dialing"]
        /\ target' = [target EXCEPT ![attempt + 1] = c]
        /\ up' = u /\ UNCHANGED <<sess, gen, notices>>
    BY <1>2 DEF Connect
  <2>2. c.name \in Names /\ c.name # NoName
    BY StoreConstants DEF Connection
  <2>3. attempt' \in Attempts /\ attempt' # 0
    BY <2>1 DEF SlotPart
  <2>4. /\ conn' \in [Attempts -> ConnStates] /\ conn'[attempt'] = "dialing"
        /\ \A b \in Attempts : b # attempt' => conn'[b] = conn[b]
    BY <2>1, <2>3 DEF SlotPart, ConnStates
  <2>5. target' \in [Attempts -> Connection \union {NoTarget}] /\ target'[attempt'] = c
    BY <2>1, <2>3 DEF SlotPart
  <2>6. \A b \in Attempts : b > attempt' => conn'[b] = "none"
    BY <2>1, <2>4 DEF SlotPart
  <2>7. SlotPart'
    BY <2>1, <2>2, <2>3, <2>4, <2>5, <2>6 DEF SlotPart
  <2> QED BY <2>1, <2>2, <2>3, <2>7
<1> QED BY <1>1, <1>2

LEMMA DataSteps ==
  ASSUME DataPart, SlotPart, SlotInv,
         TabKey \/ \E r \in results : DropStaleResult(r) \/ ApplyResult(r)
  PROVE  DataPart'
<1> USE ShellConstants DEF Attempts
<1>1. Connected => [gen |-> sess.gen, by |-> sess.by] \in Result
  <2>1. Connected => sess.gen \in Attempts /\ sess.by \in Attempts
    BY DEF SlotInv, SessionLive, SlotPart
  <2> QED BY <2>1 DEF Result
<1>2. \A r \in results : r.by \in Attempts
  BY DEF DataPart, Result
<1>3. CASE TabKey
  BY <1>1, <1>3 DEF DataPart, TabKey
<1>4. CASE \E r \in results : DropStaleResult(r)
  BY <1>4 DEF DataPart, DropStaleResult
<1>5. CASE \E r \in results : ApplyResult(r)
  BY <1>1, <1>2, <1>5 DEF DataPart, ApplyResult
<1> QED BY <1>3, <1>4, <1>5

----------------------------------------------------------------------------
(* Every action keeps the parts it touches.                                *)

LEMMA RuntimeScreens ==
  ASSUME SlotInv, ScreenInv, NEW a \in Attempts,
         \/ DialOK(a) \/ DialFails(a) \/ ManagerClosed(a) \/ DropSuperseded(a)
  PROVE  ScreenInv'
<1>1. UNCHANGED <<sess, attempt, connecting, data, screen, updates, config, list, quitting>>
  BY DEF DialOK, DialFails, ManagerClosed, DropSuperseded
<1>2. SlotPart'
  BY DialsMove DEF ScreenInv
<1>3. DataPart' /\ ScreenPart' /\ ServersOpen'
  BY <1>1, DataStays, ScreenStays, ServersStay DEF ScreenInv, screen, updates
<1>4. ListPart' /\ ProbesPart'
  BY <1>1, ListStays, ProbesStay DEF ScreenInv, list
<1> QED BY <1>2, <1>3, <1>4 DEF ScreenInv

\* The cursor openServers leaves.
LEMMA CursorIs ==
  ASSUME ListPart, NEW n, UNCHANGED <<config, editing>>,
         cursor' = Clamp(Len(ListNames), RowOf(ListNames, n, cursor))
  PROVE  ListPart'
<1>1. ListNames \in Seq(Names) /\ ListNames' = ListNames
  BY NamesAre DEF ListPart, ListNames, config
<1>2. RowOf(ListNames, n, cursor) \in Nat
  BY <1>1, RowIs DEF ListPart
<1>3. cursor' \in Nat /\ (Len(ListNames) > 0 => cursor' < Len(ListNames))
  BY <1>1, <1>2, ClampIs
<1> QED BY <1>1, <1>3 DEF ListPart, CursorInRange, HasSelected, config

LEMMA FailedScreens ==
  ASSUME SlotInv, ScreenInv, NEW a \in Attempts, ConnectFailed(a)
  PROVE  ScreenInv'
<1>1. /\ Notify(AfterFailure(up)) /\ connecting' = NoName
      /\ UNCHANGED <<sess, attempt, data, sized, updates, config, editing, probes, probing, ops,
                     quitting>>
  BY DEF ConnectFailed, AnsweredName
<1>2. Mild(AfterFailure(up))
  BY DEF AfterFailure, Mild, ScreenInv, ScreenPart, Overlays
<1>3. ScreenPart' /\ AfterFailure(up) \subseteq up'
  BY <1>1, <1>2, NotifyScreen DEF ScreenInv, updates
<1>4. ServersOpen'
  BY <1>1, <1>3 DEF ServersOpen, NeverStranded, Connected, AfterFailure
<1>5. ListPart'
  <2>1. CASE Connected
    BY <1>1, <2>1, ListStays DEF ConnectFailed, ScreenInv
  <2>2. CASE ~Connected
    BY <1>1, <2>2, CursorIs DEF ConnectFailed, ScreenInv
  <2> QED BY <2>1, <2>2
<1> QED BY <1>1, <1>3, <1>4, <1>5, FailedSlot, DataStays, ProbesStay DEF ScreenInv

LEMMA SwitchScreens ==
  ASSUME SlotInv, ScreenInv, NEW a \in Attempts, SwitchSession(a)
  PROVE  ScreenInv'
<1>1. /\ up' = up \ ServersOverlays /\ results' = results \union {[gen |-> gen', by |-> a]}
      /\ shown' = {} /\ UNCHANGED <<sized, notices, updates, config, list, quitting>>
  BY DEF SwitchSession
<1>2. SlotPart' /\ gen' \in Attempts /\ connecting' = NoName /\ Connected'
  BY SwitchSlot DEF ScreenInv
<1>3. DataPart'
  BY <1>1, <1>2 DEF ScreenInv, DataPart, Result
<1>4. Mild(up')
  BY <1>1 DEF Mild, ScreenInv, ScreenPart, ServersOverlays
<1>5. ScreenPart'
  BY <1>1, <1>4, MildScreen DEF ScreenInv, ScreenPart, updates
<1>6. ServersOpen'
  BY <1>2 DEF ServersOpen, NeverStranded
<1> QED BY <1>1, <1>2, <1>3, <1>5, <1>6, ListStays, ProbesStay DEF ScreenInv, list

LEMMA DataScreens ==
  ASSUME SlotInv, ScreenInv,
         TabKey \/ \E r \in results : DropStaleResult(r) \/ ApplyResult(r)
  PROVE  ScreenInv'
<1>1. UNCHANGED <<slot, screen, updates, config, list, quitting>>
  BY DEF TabKey, DropStaleResult, ApplyResult
<1>2. SlotPart' /\ ScreenPart' /\ ServersOpen'
  BY <1>1, SlotStays, ScreenStays, ServersStay DEF ScreenInv, slot, screen, updates
<1>3. ListPart' /\ ProbesPart'
  BY <1>1, ListStays, ProbesStay DEF ScreenInv, list
<1> QED BY <1>2, <1>3, DataSteps DEF ScreenInv

LEMMA ProbeScreens ==
  ASSUME ScreenInv, NEW p \in probing, ProbeDone(p)
  PROVE  ScreenInv'
<1>1. /\ probes' = [probes EXCEPT ![p.name] = "done"] /\ probing' = probing \ {p}
      /\ UNCHANGED <<slot, data, screen, updates, config, cursor, editing, ops, quitting>>
  BY DEF ProbeDone
<1>2. p.name \in Names
  BY DEF ScreenInv, ProbesPart, Probe
<1>3. ProbesPart'
  <2>1. /\ probes' \in [Names -> {"none", "running", "done"}]
        /\ \A n \in Names : probes'[n] = IF n = p.name THEN "done" ELSE probes[n]
    BY <1>1, <1>2 DEF ScreenInv, ProbesPart
  <2>2. \A n \in Names : probes'[n] = "running" => \E q \in probing' : q.name = n
    BY <1>1, <2>1 DEF ScreenInv, ProbesPart
  <2> QED BY <1>1, <2>1, <2>2 DEF ScreenInv, ProbesPart
<1> QED BY <1>1, <1>3, SlotStays, DataStays, ScreenStays, ServersStay, ListStays
        DEF ScreenInv, slot, screen, updates

\* Keys that only open or close an overlay.
LEMMA OverlayScreens ==
  ASSUME ScreenInv,
         \/ AskQuit \/ OpenHelp \/ CloseHelp \/ StayHere \/ Quit \/ UpdateChecked \/ UpdateLater
         \/ CloseUpdateAlert \/ DeleteNo \/ FormCancel \/ OpenNewForm \/ AskDelete
  PROVE  ScreenInv'
<1>1. /\ UNCHANGED <<slot, data, sized, notices, install, store, disk, told, cursor, probes,
                     probing, ops>>
      /\ quitting' \in BOOLEAN /\ check' \in {"off", "running", "done"}
  BY DEF AskQuit, OpenHelp, CloseHelp, StayHere, Quit, UpdateChecked, UpdateLater, ScreenPart,
         CloseUpdateAlert, DeleteNo, FormCancel, OpenNewForm, AskDelete, ScreenInv, updates, config, list
<1>2. Mild(up') /\ ("servers" \in up => "servers" \in up')
  BY DEF AskQuit, OpenHelp, CloseHelp, StayHere, Quit, UpdateChecked, UpdateLater, ScreenPart,
         CloseUpdateAlert, DeleteNo, FormCancel, OpenNewForm, AskDelete, ScreenInv, Mild, Overlays
<1>3. ScreenPart'
  BY <1>1, <1>2 DEF ScreenInv, ScreenPart, Mild, NoticesMoveOn
<1>4. ListPart'
  <2>1. CASE OpenNewForm
    BY <1>1, <2>1 DEF OpenNewForm, ScreenInv, ListPart, CursorInRange, HasSelected, ListNames
  <2>2. CASE AskDelete
    <3>1. editing' \in Names
      BY <2>2, SelectedIs DEF AskDelete, ScreenInv
    <3> QED BY <1>1, <3>1, <2>2
            DEF AskDelete, config, ScreenInv, ListPart, CursorInRange, HasSelected, ListNames
  <2>3. CASE ~OpenNewForm /\ ~AskDelete
    <3>1. UNCHANGED <<config, editing>>
      BY <2>3 DEF AskQuit, OpenHelp, CloseHelp, StayHere, Quit, UpdateChecked, UpdateLater,
                  CloseUpdateAlert, DeleteNo, FormCancel, config, list
    <3> QED BY <1>1, <3>1, ListStays DEF ScreenInv
  <2> QED BY <2>1, <2>2, <2>3
<1> QED BY <1>1, <1>2, <1>3, <1>4, SlotStays, DataStays, ServersStay, ProbesStay DEF ScreenInv, slot

\* The self-update starts with its window and ends with it.
LEMMA InstallScreens ==
  ASSUME ScreenInv, UpdateNow \/ UpdateResult
  PROVE  ScreenInv'
<1>1. UNCHANGED <<slot, data, sized, notices, check, config, list, quitting>>
  BY DEF UpdateNow, UpdateResult
<1>2. ScreenPart' /\ ("servers" \in up => "servers" \in up')
  BY <1>1 DEF UpdateNow, UpdateResult, ScreenInv, ScreenPart, NoticesMoveOn, Overlays
<1> QED BY <1>1, <1>2, SlotStays, DataStays, ServersStay, ListStays, ProbesStay DEF ScreenInv, slot, list

LEMMA FlushScreens ==
  ASSUME ScreenInv, WindowSize \/ CloseNotice
  PROVE  ScreenInv'
<1>1. UNCHANGED <<slot, data, install, check, config, list, quitting>>
  BY DEF WindowSize, CloseNotice, updates
<1>2. ScreenPart' /\ ("servers" \in up => "servers" \in up')
  <2>1. CASE WindowSize
    BY <1>1, <2>1, FlushScreen DEF WindowSize, ScreenInv
  <2>2. CASE CloseNotice
    BY <1>1, <2>2, FlushScreen DEF CloseNotice, ScreenInv
  <2> QED BY <2>1, <2>2
<1> QED BY <1>1, <1>2, SlotStays, DataStays, ServersStay, ListStays, ProbesStay DEF ScreenInv, slot, list

LEMMA OpeningScreens ==
  ASSUME ScreenInv, ServersKey \/ GiveUpFirst
  PROVE  ScreenInv'
<1>1. /\ UNCHANGED <<data, sized, notices, updates, config, editing, probes, probing, ops, quitting>>
      /\ (UNCHANGED slot \/ CancelConnect)
      /\ \E n : cursor' = Clamp(Len(ListNames), RowOf(ListNames, n, cursor))
  BY DEF ServersKey, GiveUpFirst, OpenServers
<1>2. up' = up \union {"servers"}
  BY DEF ServersKey, GiveUpFirst, OpenServers
<1>3. SlotPart'
  BY <1>1, SlotStays, CancelSlot DEF ScreenInv
<1>4. Mild(up')
  BY <1>2 DEF Mild, ScreenInv, ScreenPart, Overlays
<1>5. ScreenPart'
  BY <1>1, <1>4, MildScreen DEF ScreenInv, ScreenPart, updates
<1>6. ServersOpen'
  BY <1>2 DEF ServersOpen, NeverStranded
<1>7. ListPart'
  BY <1>1, CursorIs DEF ScreenInv
<1> QED BY <1>1, <1>3, <1>5, <1>6, <1>7, DataStays, ProbesStay DEF ScreenInv

LEMMA EscScreens ==
  ASSUME ScreenInv, ListEsc
  PROVE  ScreenInv'
<1>1. /\ UNCHANGED <<data, sized, notices, updates, config, list, quitting>>
      /\ Key("servers")
  BY DEF ListEsc, ListKey
<1>2. "servers" \in up
  BY <1>1, KeysGoToTheTop
<1>3. \/ CancelConnect /\ UNCHANGED up
      \/ connecting = NoName /\ Connected /\ up' = up \ ServersOverlays /\ UNCHANGED slot
  BY DEF ListEsc
<1>4. SlotPart'
  BY <1>3, SlotStays, CancelSlot DEF ScreenInv
<1>5. Mild(up')
  BY <1>3 DEF Mild, ScreenInv, ScreenPart, ServersOverlays
<1>6. ScreenPart'
  BY <1>1, <1>5, MildScreen DEF ScreenInv, ScreenPart, updates
<1>7. ServersOpen'
  BY <1>2, <1>3 DEF ServersOpen, NeverStranded, Connected, slot, ScreenInv
<1> QED BY <1>1, <1>4, <1>6, <1>7, DataStays, ListStays, ProbesStay DEF ScreenInv, list

LEMMA MoveScreens ==
  ASSUME ScreenInv, ListMove
  PROVE  ScreenInv'
<1>1. UNCHANGED <<slot, data, screen, updates, config, editing, probes, probing, ops, quitting>>
  BY DEF ListMove
<1>2. Len(ListNames) \in Nat \ {0} /\ ListNames' = ListNames
  BY <1>1, NamesAre DEF ListMove, HasSelected, ListNames, ScreenInv, ListPart, config
<1>3. cursor' \in Nat /\ cursor' < Len(ListNames)
  BY <1>2 DEF ListMove, ScreenInv, ListPart
<1>4. ListPart'
  BY <1>1, <1>2, <1>3 DEF ScreenInv, ListPart, CursorInRange, HasSelected, config
<1> QED BY <1>1, <1>4, SlotStays, DataStays, ScreenStays, ServersStay, ProbesStay
        DEF ScreenInv, slot, screen, updates

\* What a connect from the Servers screen leaves of the connection and the overlays.
LEMMA ConnectScreens ==
  ASSUME ScreenInv, NEW c \in Connection, NEW u, Mild(u), Connect(c, u), "servers" \in u,
         UNCHANGED <<sized, updates, quitting>>
  PROVE  SlotPart' /\ ScreenPart' /\ ServersOpen'
<1>1. /\ SlotPart' /\ sess' = sess
      /\ \/ UNCHANGED slot /\ Notify(u)
         \/ connecting' # NoName /\ attempt' # 0 /\ up' = u /\ UNCHANGED notices
  BY ConnectSlot DEF ScreenInv
<1>2. CASE UNCHANGED slot /\ Notify(u)
  <2>1. ScreenPart' /\ "servers" \in up'
    BY <1>2, NotifyScreen DEF ScreenInv, updates
  <2> QED BY <1>1, <2>1 DEF ServersOpen, NeverStranded
<1>3. CASE up' = u /\ UNCHANGED notices
  <2>1. ScreenPart'
    BY <1>3, MildScreen DEF ScreenInv, ScreenPart, updates
  <2> QED BY <1>1, <1>3, <2>1 DEF ServersOpen, NeverStranded
<1> QED BY <1>1, <1>2, <1>3

LEMMA EnterScreens ==
  ASSUME ScreenInv, ListEnter
  PROVE  ScreenInv'
<1>1. /\ UNCHANGED <<data, sized, updates, config, list, quitting>>
      /\ HasSelected /\ Key("servers")
  BY DEF ListEnter, ListKey
<1>2. "servers" \in up
  BY <1>1, KeysGoToTheTop
<1>3. SlotPart' /\ ScreenPart' /\ ServersOpen'
  <2>1. CASE Connect(Selected, up)
    <3>1. Selected \in Connection /\ Mild(up)
      BY <1>1, SelectedIs DEF ScreenInv, ScreenPart, Mild
    <3> QED BY <1>1, <1>2, <2>1, <3>1, ConnectScreens
  <2>2. CASE Connected /\ connecting = NoName /\ up' = up \ ServersOverlays
             /\ UNCHANGED <<slot, notices>>
    <3>1. Mild(up')
      BY <2>2 DEF Mild, ScreenInv, ScreenPart, ServersOverlays
    <3>2. ScreenPart'
      BY <1>1, <2>2, <3>1, MildScreen DEF ScreenInv, ScreenPart, updates
    <3>3. ServersOpen'
      BY <2>2 DEF ServersOpen, NeverStranded, Connected, slot
    <3> QED BY <2>2, <3>2, <3>3, SlotStays DEF ScreenInv
  <2> QED BY <2>1, <2>2 DEF ListEnter
<1> QED BY <1>1, <1>3, DataStays, ListStays, ProbesStay DEF ScreenInv, list

LEMMA EditScreens ==
  ASSUME ScreenInv, OpenEditForm
  PROVE  ScreenInv'
<1>1. /\ UNCHANGED <<slot, data, sized, updates, store, disk, told, cursor, probes, probing, ops,
                     quitting>>
      /\ HasSelected
  BY DEF OpenEditForm
<1>2. Mild(up) /\ Mild(up \union {"form"})
  BY DEF Mild, ScreenInv, ScreenPart, Overlays
<1>3. ScreenPart' /\ ("servers" \in up => "servers" \in up')
  <2>1. CASE Notify(up)
    BY <1>1, <1>2, <2>1, NotifyScreen DEF ScreenInv, updates
  <2>2. CASE up' = up \union {"form"} /\ UNCHANGED notices
    BY <1>1, <1>2, <2>2, MildScreen DEF ScreenInv, ScreenPart, updates
  <2> QED BY <2>1, <2>2 DEF OpenEditForm
<1>4. editing' \in Names \union {NoName} /\ unsavedErr' \in BOOLEAN
  BY <1>1, SelectedIs DEF OpenEditForm, ScreenInv, ListPart
<1>5. ListPart'
  BY <1>1, <1>4 DEF ScreenInv, ListPart, CursorInRange, HasSelected, ListNames
<1> QED BY <1>1, <1>3, <1>5, SlotStays, DataStays, ServersStay, ProbesStay DEF ScreenInv, slot

\* A change of the store that is written, or told of.
LEMMA SavedIs ==
  ASSUME NEW s \in Stores
  PROVE  Saved(s) \in [conns : Seq(Connection), default : Names \union {NoName}]
BY DEF Saved, Stores

LEMMA SavingScreens ==
  ASSUME ScreenInv, store' \in Stores, NEW u, Mild(u), "servers" \in up => "servers" \in u,
         SaveOrNotify(store', u), UNCHANGED <<slot, data, sized, updates, quitting>>,
         UNCHANGED <<unsavedErr, editing>>, cursor' \in Nat, CursorInRange'
  PROVE  SlotPart' /\ DataPart' /\ ScreenPart' /\ ServersOpen' /\ ListPart'
<1>1. ScreenPart' /\ u \subseteq up'
      /\ disk' \in [conns : Seq(Connection), default : Names \union {NoName}]
      /\ told' \in BOOLEAN
  <2>1. CASE disk' = Saved(store') /\ told' = FALSE /\ up' = u /\ UNCHANGED notices
    <3>1. ScreenPart'
      BY <2>1, MildScreen DEF ScreenInv, ScreenPart, updates
    <3> QED BY <2>1, <3>1, SavedIs
  <2>2. CASE Notify(u) /\ told' = TRUE /\ UNCHANGED disk
    BY <2>2, NotifyScreen DEF ScreenInv, ListPart, updates
  <2> QED BY <2>1, <2>2 DEF SaveOrNotify
<1>2. ListPart'
  BY <1>1 DEF ScreenInv, ListPart
<1> QED BY <1>1, <1>2, SlotStays, DataStays, ServersStay DEF ScreenInv, slot

LEMMA CountedOp == ASSUME ProbesPart, ops < MaxOps, ops' = ops + 1 PROVE ops' \in 0 .. MaxOps
BY ShellConstants DEF ProbesPart

LEMMA DeleteScreens ==
  ASSUME ScreenInv, DeleteYes
  PROVE  ScreenInv'
<1>1. /\ store' = Remove(store, editing) /\ SaveOrNotify(store', up \ {"delete"})
      /\ probes' = [probes EXCEPT ![editing] = "none"]
      /\ cursor' = Clamp(Len(StoreNames(store')), cursor)
      /\ ops < MaxOps /\ ops' = ops + 1
      /\ UNCHANGED <<slot, data, sized, updates, unsavedErr, editing, probing, quitting>>
  BY DEF DeleteYes
<1>2. store' \in Stores
  BY <1>1, RemoveIs DEF ScreenInv, ListPart
<1>3. StoreNames(store') \in Seq(Names)
  BY <1>2, NamesAre
<1>4. cursor' \in Nat /\ CursorInRange'
  <2>1. Len(StoreNames(store')) \in Nat /\ cursor \in Nat
    BY <1>3 DEF ScreenInv, ListPart
  <2>2. cursor' \in Nat /\ (Len(StoreNames(store')) > 0 => cursor' < Len(StoreNames(store')))
    BY <1>1, <2>1, ClampIs
  <2> QED BY <2>2 DEF CursorInRange, HasSelected, ListNames
<1>5. Mild(up \ {"delete"})
  BY DEF Mild, ScreenInv, ScreenPart
<1>6. SlotPart' /\ DataPart' /\ ScreenPart' /\ ServersOpen' /\ ListPart'
  BY <1>1, <1>2, <1>4, <1>5, SavingScreens
<1>7. ProbesPart'
  <2>1. /\ probes' \in [Names -> {"none", "running", "done"}]
        /\ \A n \in Names : probes'[n] = "running" => probes[n] = "running"
    BY <1>1 DEF ScreenInv, ProbesPart
  <2> QED BY <1>1, <2>1, CountedOp DEF ScreenInv, ProbesPart
<1> QED BY <1>6, <1>7 DEF ScreenInv

LEMMA DefaultScreens ==
  ASSUME ScreenInv, SetDefault
  PROVE  ScreenInv'
<1>1. /\ store' = [store EXCEPT !.default = Selected.name] /\ SaveOrNotify(store', up)
      /\ HasSelected /\ ops < MaxOps /\ ops' = ops + 1
      /\ UNCHANGED <<slot, data, sized, updates, unsavedErr, cursor, editing, probes, probing, quitting>>
  BY DEF SetDefault
<1>2. Selected.name \in Names /\ store \in Stores
  BY <1>1, SelectedIs DEF ScreenInv, ListPart
<1>3. store' \in Stores /\ store'.conns = store.conns /\ store'.env = store.env
  BY <1>1, <1>2 DEF Stores
<1>4. cursor' \in Nat /\ CursorInRange'
  BY <1>1, <1>3 DEF ScreenInv, ListPart, CursorInRange, HasSelected, ListNames, StoreNames
<1>5. Mild(up)
  BY DEF Mild, ScreenInv, ScreenPart
<1>6. SlotPart' /\ DataPart' /\ ScreenPart' /\ ServersOpen' /\ ListPart'
  BY <1>1, <1>3, <1>4, <1>5, SavingScreens
<1>7. ProbesPart'
  BY <1>1, CountedOp DEF ScreenInv, ProbesPart
<1> QED BY <1>6, <1>7 DEF ScreenInv

LEMMA StartProbeScreens ==
  ASSUME ScreenInv, StartProbe
  PROVE  ScreenInv'
<1>1. /\ probes' = [probes EXCEPT ![Selected.name] = ProbeMark(Selected)]
      /\ probing' = probing \union
           (IF Resolvable(Selected) THEN {[id |-> ops + 1, name |-> Selected.name]} ELSE {})
      /\ HasSelected /\ ops < MaxOps /\ ops' = ops + 1
      /\ UNCHANGED <<slot, data, screen, updates, config, cursor, editing, quitting>>
  BY DEF StartProbe
<1>2. Selected.name \in Names
  BY <1>1, SelectedIs DEF ScreenInv
<1>3. ops + 1 \in 1 .. MaxOps
  BY <1>1, ShellConstants DEF ScreenInv, ProbesPart
<1> DEFINE p == [id |-> ops + 1, name |-> Selected.name]
<1>4. probing' \subseteq Probe /\ probing \subseteq probing' /\ (Resolvable(Selected) => p \in probing')
  BY <1>1, <1>2, <1>3 DEF ScreenInv, ProbesPart, Probe
<1>5. ProbesPart'
  <2>1. ProbeMark(Selected) \in {"running", "done"}
        /\ (ProbeMark(Selected) = "running" => Resolvable(Selected))
    BY DEF ProbeMark
  <2>2. /\ probes' \in [Names -> {"none", "running", "done"}]
        /\ \A n \in Names :
             probes'[n] = IF n = Selected.name THEN ProbeMark(Selected) ELSE probes[n]
    BY <1>1, <1>2, <2>1 DEF ScreenInv, ProbesPart
  <2>3. ASSUME NEW n \in Names, probes'[n] = "running" PROVE \E q \in probing' : q.name = n
    <3>1. CASE n = Selected.name
      <4>1. p \in probing' /\ p.name = n
        BY <1>4, <2>1, <2>2, <2>3, <3>1
      <4> QED BY <4>1
    <3>2. CASE n # Selected.name
      <4>1. probes[n] = "running"
        BY <2>2, <2>3, <3>2
      <4> QED BY <1>4, <4>1 DEF ScreenInv, ProbesPart
    <3> QED BY <3>1, <3>2
  <2> QED BY <1>1, <1>4, <2>2, <2>3, CountedOp DEF ScreenInv, ProbesPart
<1> QED BY <1>1, <1>5, SlotStays, DataStays, ScreenStays, ServersStay, ListStays
        DEF ScreenInv, slot, screen, updates

LEMMA SubmitScreens ==
  ASSUME ScreenInv, NEW c \in Connection, FormSubmit(c)
  PROVE  ScreenInv'
<1>1. /\ store' = Upsert(store, editing, c) /\ Key("servers") /\ ops < MaxOps /\ ops' = ops + 1
      /\ probes' = (IF editing = NoName THEN probes ELSE [probes EXCEPT ![editing] = "none"])
      /\ cursor' = RowOf(StoreNames(store'), c.name, cursor)
      /\ UNCHANGED <<data, sized, updates, editing, probing, quitting>>
      /\ told' = FALSE /\ disk' \in {disk, Saved(store')} /\ unsavedErr' \in {unsavedErr, TRUE}
  BY DEF FormSubmit
<1>2. store' \in Stores /\ IsSaved(store', c.name) /\ c.name \in Names
  BY <1>1, UpsertIs DEF ScreenInv, ListPart, Connection
<1>3. ListPart'
  <2>1. StoreNames(store') \in Seq(Names)
        /\ \E k \in DOMAIN StoreNames(store') : StoreNames(store')[k] = c.name
    BY <1>2, NamesAre
  <2>2. cursor' \in Nat /\ cursor' < Len(StoreNames(store'))
    BY <1>1, <2>1, RowIs DEF ScreenInv, ListPart
  <2> QED BY <1>1, <1>2, <2>2, SavedIs DEF ScreenInv, ListPart, CursorInRange, HasSelected, ListNames
<1>4. "servers" \in up
  BY <1>1, KeysGoToTheTop
<1>5. Mild(up \ {"form"}) /\ "servers" \in up \ {"form"}
  BY <1>4 DEF Mild, ScreenInv, ScreenPart
<1>6. SlotPart' /\ ScreenPart' /\ ServersOpen'
  <2>1. CASE Connect(c, up \ {"form"})
    BY <1>1, <1>5, <2>1, ConnectScreens
  <2>2. CASE up' = up \ {"form"} /\ UNCHANGED <<slot, notices>>
    <3>1. ScreenPart'
      BY <1>1, <1>5, <2>2, MildScreen DEF ScreenInv, ScreenPart, updates
    <3> QED BY <1>5, <2>2, <3>1, SlotStays, ServersStay DEF ScreenInv, slot
  <2> QED BY <2>1, <2>2 DEF FormSubmit
<1>7. ProbesPart'
  <2>1. /\ probes' \in [Names -> {"none", "running", "done"}]
        /\ \A n \in Names : probes'[n] = "running" => probes[n] = "running"
    BY <1>1 DEF ScreenInv, ProbesPart
  <2> QED BY <1>1, <2>1, CountedOp DEF ScreenInv, ProbesPart
<1> QED BY <1>1, <1>3, <1>6, <1>7, DataStays DEF ScreenInv

----------------------------------------------------------------------------
LEMMA NextScreens == ASSUME SlotInv, ScreenInv, [Next]_vars PROVE ScreenInv'
<1>1. CASE UNCHANGED vars
  BY <1>1, SlotStays, DataStays, ScreenStays, ServersStay, ListStays, ProbesStay
     DEF ScreenInv, vars, slot, screen, updates, list
<1>2. CASE Runtime
  BY <1>2, RuntimeScreens, FailedScreens, SwitchScreens, DataScreens, ProbeScreens,
     OverlayScreens, InstallScreens DEF Runtime
<1>3. CASE Keys
  BY <1>3, DataScreens, OverlayScreens, InstallScreens, FlushScreens, OpeningScreens, EscScreens,
     MoveScreens, EnterScreens, EditScreens, DeleteScreens, DefaultScreens, StartProbeScreens,
     SubmitScreens DEF Keys
<1>4. CASE WindowSize
  BY <1>4, FlushScreens
<1> QED BY <1>1, <1>2, <1>3, <1>4 DEF Next

\* Startup: what opens first is a connection of the store, or nothing does.
LEMMA StartIs ==
  ASSUME NEW s \in Stores, NEW c, <<c>> \in StartChoices(s)
  PROVE  c \in Connection
<1>1. c \in {Find(s, n) : n \in {m \in Names : Found(s, m)}} \union Initial(s)
  BY DEF StartChoices
<1>2. CASE c \in {Find(s, n) : n \in {m \in Names : Found(s, m)}}
  BY <1>2, FindIs
<1>3. CASE c \in Initial(s)
  <2> DEFINE hasDefault == s.default # NoName /\ Found(s, s.default)
  <2>1. CASE s.env
    <3>1. Initial(s) = {EnvConnection}
      BY <2>1 DEF Initial
    <3> QED BY <1>3, <3>1, EnvIs
  <2>2. CASE ~s.env /\ hasDefault
    <3>1. Initial(s) = {Find(s, s.default)}
      BY <2>2 DEF Initial
    <3> QED BY <1>3, <2>2, <3>1, FindIs
  <2>3. CASE ~s.env /\ ~hasDefault
    <3>1. Initial(s) = {s.conns[i] : i \in {j \in DOMAIN s.conns : Len(s.conns) = 1}}
      BY <2>3 DEF Initial
    <3> QED BY <1>3, <3>1 DEF Stores
  <2> QED BY <2>1, <2>2, <2>3
<1> QED BY <1>1, <1>2, <1>3

LEMMA InitScreens == ASSUME Init PROVE ScreenInv
<1> USE ShellConstants DEF Attempts
<1>1. store \in Stores /\ disk = Saved(store) /\ told = FALSE /\ unsavedErr = FALSE /\ editing = NoName
      /\ sess = [gen |-> 0, by |-> 0, name |-> NoName, cfg |-> NoName] /\ gen = 0
      /\ results = {} /\ shown = {} /\ sized = FALSE /\ install = FALSE /\ quitting = FALSE
      /\ check \in {"off", "running"} /\ probes = [n \in Names |-> "none"] /\ probing = {} /\ ops = 0
  BY DEF Init, NoSession
<1>2. DataPart /\ ProbesPart
  BY <1>1 DEF DataPart, ProbesPart
<1>3. PICK waiting \in StartNotices, start \in StartChoices(store) :
       \/ /\ start = <<>>
          /\ up = {"servers"}
          /\ cursor = Clamp(Len(ListNames), RowOf(ListNames, store.default, 0))
          /\ notices = waiting /\ NothingOpening
       \/ /\ start # <<>> /\ Resolvable(start[1])
          /\ up = {} /\ cursor = 0 /\ notices = waiting /\ OpeningFirst(start[1])
       \/ /\ start # <<>> /\ ~Resolvable(start[1])
          /\ up = {} /\ cursor = 0 /\ notices = waiting + 1 /\ NothingOpening
  BY DEF Init
<1>4. ScreenPart
  <2>1. waiting \in Nat
    OBVIOUS
  <2>2. notices \in Nat /\ up \in {{}, {"servers"}}
    BY <1>3, <2>1
  <2> QED BY <1>1, <2>2 DEF ScreenPart, Overlays, NoticesMoveOn
<1>5. ~Connected
  BY <1>1 DEF Connected, NoSession
<1>6. ASSUME NothingOpening PROVE SlotPart /\ ServersOpen
  <2>1. attempt = 0 /\ connecting = NoName /\ conn = [a \in Attempts |-> "none"]
        /\ target = [a \in Attempts |-> NoTarget]
    BY <1>6 DEF NothingOpening
  <2>2. conn \in [Attempts -> ConnStates] /\ target \in [Attempts -> Connection \union {NoTarget}]
        /\ \A a \in Attempts : conn[a] = "none"
    BY <2>1 DEF ConnStates
  <2>3. sess \in [gen : 0 .. MaxAttempts, by : 0 .. MaxAttempts,
                  name : Names \union {NoName}, cfg : Settings \union {NoName}]
    BY <1>1
  <2>4. attempt \notin Attempts /\ attempt \in 0 .. MaxAttempts
    BY <2>1
  <2>5. SlotPart
    BY <1>1, <2>1, <2>2, <2>3, <2>4 DEF SlotPart
  <2> QED BY <1>5, <2>1, <2>5 DEF ServersOpen, NeverStranded
<1>7. ASSUME start # <<>>, OpeningFirst(start[1]) PROVE SlotPart /\ ServersOpen
  <2> DEFINE c == start[1]
  <2>1. c \in Connection
    <3>1. start = <<c>>
      BY <1>7 DEF StartChoices
    <3> QED BY <1>1, <3>1, StartIs
  <2>2. attempt = 1 /\ connecting = c.name
        /\ conn = [a \in Attempts |-> IF a = 1 THEN "dialing" ELSE "none"]
        /\ target = [a \in Attempts |-> IF a = 1 THEN c ELSE NoTarget]
    BY <1>7 DEF OpeningFirst
  <2>3. c.name \in Names /\ c.name # NoName
    BY <2>1, StoreConstants DEF Connection
  <2> HIDE DEF c
  <2>4. conn[1] = "dialing" /\ target[1] = c /\ 1 \in Attempts
    BY <2>2
  <2>5. SlotPart
    BY <1>1, <2>1, <2>2, <2>3, <2>4 DEF SlotPart, ConnStates
  <2> QED BY <1>5, <2>2, <2>3, <2>5 DEF ServersOpen, NeverStranded
<1>8. ListPart
  <2>1. ListNames \in Seq(Names)
    BY <1>1, NamesAre DEF ListNames
  <2>2. RowOf(ListNames, store.default, 0) \in Nat
    BY <2>1, RowIs
  <2>3. cursor \in Nat /\ (Len(ListNames) > 0 => cursor < Len(ListNames))
    <3>1. Len(ListNames) \in Nat
      BY <2>1
    <3>2. CASE cursor = Clamp(Len(ListNames), RowOf(ListNames, store.default, 0))
      BY <2>2, <3>1, <3>2, ClampIs
    <3>3. CASE cursor = 0
      BY <3>1, <3>3
    <3> QED BY <1>3, <3>2, <3>3
  <2> QED BY <1>1, <2>3, SavedIs DEF ListPart, CursorInRange, HasSelected
<1> QED BY <1>2, <1>3, <1>4, <1>6, <1>7, <1>8 DEF ScreenInv

\* The invariant of the screens holds in every reachable state.
THEOREM ScreenInvariant == Spec => []ScreenInv
<1>1. Init => ScreenInv
  BY InitScreens
<1>2. SlotInv /\ ScreenInv /\ [Next]_vars => ScreenInv'
  BY NextScreens
<1> QED BY <1>1, <1>2, SlotInvariant, PTL DEF Spec

\* Every variable has its type, for any names, settings, stores and bounds.
THEOREM TypesOfTheShell == Spec => []TypeOK
<1>1. ScreenInv => TypeOK
  BY DEF ScreenInv, SlotPart, DataPart, ScreenPart, ListPart, ProbesPart, TypeOK
<1> QED BY <1>1, ScreenInvariant, PTL

\* Without a session and with nothing being opened the Servers screen is open, from the
\* first attempt on (handleConnected, cancelConnect, the esc keys).
THEOREM NobodyStranded == Spec => []NeverStranded
<1>1. ScreenInv => NeverStranded
  BY DEF ScreenInv, ServersOpen
<1> QED BY <1>1, ScreenInvariant, PTL

\* Every spinner of the shell has its goroutine, and a current attempt on its way is
\* never hidden (connect, cancelConnect, handleConnected, probeMsg, updateResultMsg).
THEOREM SpinnersHaveWork == Spec => []SpinnersBacked
<1>1. ScreenInv => SpinnersBacked
  BY DEF ScreenInv, SlotPart, ScreenPart, ProbesPart, SpinnersBacked
<1> QED BY <1>1, ScreenInvariant, PTL

\* A queued notice waits only for the one on screen or for the first window size,
\* whatever comes between (notify, flushNotices).
THEOREM NoticesAreShown == Spec => []NoticesMoveOn
<1>1. ScreenInv => NoticesMoveOn
  BY DEF ScreenInv, ScreenPart
<1> QED BY <1>1, ScreenInvariant, PTL

\* The session changes only to the server last asked for, and only under the Servers
\* screen: never while a tab has the keyboard (handleConnected).
THEOREM SwitchesWhenAsked == Spec => SwitchOnlyWhenAsked
<1> DEFINE Asked == sess' # sess =>
                      /\ connecting # NoName /\ sess'.name = connecting
                      /\ Connected => "servers" \in up
<1>1. ASSUME SlotInv, ScreenInv, [Next]_vars, sess' # sess
      PROVE  \E a \in Attempts : SwitchSession(a)
  <2>1. Next
    BY <1>1 DEF vars, slot
  <2>2. CASE Runtime
    BY <1>1, <2>2 DEF Runtime, DialOK, DialFails, ManagerClosed, DropSuperseded, ConnectFailed,
       DropStaleResult, ApplyResult, ProbeDone, UpdateChecked, UpdateResult, slot
  <2>3. CASE Keys \/ WindowSize
    BY <1>1, <2>3 DEF Keys, TabKey, AskQuit, OpenHelp, ServersKey, GiveUpFirst, CloseHelp, CloseNotice,
       StayHere, Quit, UpdateNow, UpdateLater, CloseUpdateAlert, ListEsc, ListMove, ListEnter,
       OpenNewForm, OpenEditForm, AskDelete, DeleteNo, DeleteYes, SetDefault, FormCancel, StartProbe,
       FormSubmit, WindowSize, Connect, CancelConnect, slot
  <2> QED BY <2>1, <2>2, <2>3 DEF Next
<1>2. SlotInv /\ ScreenInv /\ [Next]_vars => [Asked]_vars
  BY <1>1, SwitchSlot DEF ScreenInv, ServersOpen
<1> QED BY <1>2, SlotInvariant, ScreenInvariant, PTL DEF Spec, SwitchOnlyWhenAsked

----------------------------------------------------------------------------
(* The overlay that has the keys is the one drawn.                         *)

\* What the overlays may lie over: the help only over the page of a session, with the
\* windows a message opens over it; the form and the delete confirmation only over the
\* Servers screen, and not together.
Stacked ==
  /\ "help" \in up => Connected /\ up \subseteq {"help"} \union MessageWindows
  /\ "form" \in up => "delete" \notin up
  /\ "form" \in up \/ "delete" \in up => "servers" \in up

\* The two orders name seven overlays, and differ by the place of the help.
LEMMA OrdersAre ==
  /\ DOMAIN KeyOrder = 1 .. 7 /\ DOMAIN DrawOrder = 1 .. 7
  /\ KeyOrder[7] = "help" /\ DrawOrder[1] = "help"
  /\ \A k \in 1 .. 6 : DrawOrder[k + 1] = KeyOrder[k]
  /\ \A k \in 1 .. 7 : KeyOrder[k] # "page" /\ DrawOrder[k] # "page"
<1>1. \A k \in 1 .. 6 : k = 1 \/ k = 2 \/ k = 3 \/ k = 4 \/ k = 5 \/ k = 6
  OBVIOUS
<1>2. \A k \in 1 .. 7 : k \in 1 .. 6 \/ k = 7
  OBVIOUS
<1> QED BY <1>1, <1>2 DEF KeyOrder, DrawOrder

\* The first active overlay of an order is its top.
LEMMA TopIs ==
  ASSUME NEW order \in {KeyOrder, DrawOrder}, NEW k \in DOMAIN order,
         order[k] \in up, \A j \in 1 .. k - 1 : order[j] \notin up
  PROVE  Top(order) = order[k]
<1> DEFINE First(i) == order[i] \in up /\ \A j \in 1 .. i - 1 : order[j] \notin up
<1>1. DOMAIN order = 1 .. 7
  BY OrdersAre
<1>2. ASSUME NEW i \in DOMAIN order, First(i) PROVE i = k
  <2>1. ~(i < k) /\ ~(k < i)
    BY <1>1, <1>2
  <2> QED BY <1>1, <2>1
<1>3. (CHOOSE i \in DOMAIN order : First(i)) = k
  BY <1>2
<1> QED BY <1>3 DEF Top

\* Some overlay of an order is active: there is a first one.
LEMMA HasFirst ==
  ASSUME NEW order \in {KeyOrder, DrawOrder}, NEW m \in DOMAIN order, order[m] \in up
  PROVE  \E k \in DOMAIN order : k <= m /\ order[k] \in up /\ \A j \in 1 .. k - 1 : order[j] \notin up
<1> DEFINE Active == {i \in DOMAIN order : order[i] \in up}
<1>1. DOMAIN order = 1 .. 7
  BY OrdersAre
<1>2. m \in Active /\ Active \subseteq Nat
  BY <1>1
<1>3. PICK k \in Active : \A i \in Active : k <= i
  <2> HIDE DEF Active
  <2> QED BY <1>2, LeastNumber
<1>4. \A j \in 1 .. k - 1 : j \in DOMAIN order /\ ~(k <= j)
  BY <1>1, <1>3
<1> QED BY <1>2, <1>3, <1>4

\* A key of the page finds no overlay.
LEMMA PageIsBare == ASSUME Key("page") PROVE up \cap {KeyOrder[k] : k \in 1 .. 7} = {}
<1> SUFFICES ASSUME NEW m \in 1 .. 7, KeyOrder[m] \in up PROVE FALSE
  OBVIOUS
<1>1. PICK k \in DOMAIN KeyOrder :
        k <= m /\ KeyOrder[k] \in up /\ \A j \in 1 .. k - 1 : KeyOrder[j] \notin up
  BY HasFirst, OrdersAre
<1>2. Top(KeyOrder) = KeyOrder[k]
  BY <1>1, TopIs
<1> QED BY <1>1, <1>2, OrdersAre DEF Key, Owner

LEMMA PageHasNone == ASSUME ScreenPart, Stacked, Key("page") PROVE up = {}
<1>1. /\ KeyOrder[1] = "updateAlert" /\ KeyOrder[2] = "updating" /\ KeyOrder[3] = "updateMenu"
      /\ KeyOrder[4] = "notice" /\ KeyOrder[5] = "quitConfirm" /\ KeyOrder[6] = "servers"
      /\ KeyOrder[7] = "help"
  BY DEF KeyOrder
<1>2. \A k \in 1 .. 7 : KeyOrder[k] \notin up
  BY PageIsBare
<1>3. /\ "updateAlert" \notin up /\ "updating" \notin up /\ "updateMenu" \notin up
      /\ "notice" \notin up /\ "quitConfirm" \notin up /\ "servers" \notin up /\ "help" \notin up
  BY <1>1, <1>2
<1>4. "form" \notin up /\ "delete" \notin up
  BY <1>3 DEF Stacked
<1> QED BY <1>3, <1>4 DEF ScreenPart, Overlays

\* A key of the Servers screen finds no help.
LEMMA ServersHasNoHelp ==
  ASSUME Stacked, Key("servers") PROVE "servers" \in up /\ "help" \notin up
BY KeysGoToTheTop DEF Stacked, MessageWindows

\* A step that opens no window but those of the messages.
LEMMA StaysStacked ==
  ASSUME Stacked, up' \subseteq up \union MessageWindows, Connected => Connected',
         "servers" \in up => "servers" \in up' \/ up' \cap {"form", "delete"} = {}
  PROVE  Stacked'
BY DEF Stacked, MessageWindows

\* A step that opens an overlay of the Servers screen, or the question, over it.
LEMMA OverServers ==
  ASSUME Stacked, Key("servers"), NEW l \in {"form", "delete", "quitConfirm"},
         l = "form" => "delete" \notin up, l = "delete" => "form" \notin up,
         up' = up \union {l}
  PROVE  Stacked'
BY ServersHasNoHelp DEF Stacked, MessageWindows

\* A session, once there, is only replaced by a later one.
LEMMA StaysConnected == ASSUME SlotInv, [Next]_vars, Connected PROVE Connected'
<1>1. CASE \E a \in Attempts : SwitchSession(a)
  <2>1. sess'.gen = gen + 1 /\ gen \in Nat
    BY <1>1 DEF SwitchSession, NextGen, SlotInv, SlotTypeOK
  <2> QED BY <2>1 DEF Connected, NoSession
<1>2. CASE sess' = sess
  BY <1>2 DEF Connected
<1>3. CASE Runtime /\ ~ \E a \in Attempts : SwitchSession(a)
  BY <1>2, <1>3 DEF Runtime, DialOK, DialFails, ManagerClosed, DropSuperseded, ConnectFailed,
     DropStaleResult, ApplyResult, ProbeDone, UpdateChecked, UpdateResult, slot
<1>4. CASE Keys \/ WindowSize
  BY <1>2, <1>4 DEF Keys, TabKey, AskQuit, OpenHelp, ServersKey, GiveUpFirst, CloseHelp, CloseNotice,
     StayHere, Quit, UpdateNow, UpdateLater, CloseUpdateAlert, ListEsc, ListMove, ListEnter,
     OpenNewForm, OpenEditForm, AskDelete, DeleteNo, DeleteYes, SetDefault, FormCancel, StartProbe,
     FormSubmit, WindowSize, Connect, CancelConnect, slot
<1> QED BY <1>1, <1>2, <1>3, <1>4 DEF Next, vars, slot

LEMMA NextStacked ==
  ASSUME SlotInv, ScreenInv, Stacked, [Next]_vars
  PROVE  Stacked'
<1>0. Connected => Connected'
  BY StaysConnected
<1> USE <1>0
<1>1. CASE UNCHANGED up
  BY <1>1, StaysStacked
<1>2. CASE Runtime
  <2>1. CASE \E a \in Attempts : ConnectFailed(a)
    <3>1. CASE Connected
      BY <2>1, <3>1, StaysStacked DEF ConnectFailed, Notify, AfterFailure, MessageWindows
    <3>2. CASE ~Connected
      <4>1. up' \subseteq up \union {"servers", "notice"} /\ "servers" \in up' /\ "help" \notin up
        BY <2>1, <3>2 DEF ConnectFailed, Notify, AfterFailure, Stacked
      <4> QED BY <4>1 DEF Stacked
    <3> QED BY <3>1, <3>2
  <2>2. CASE \E a \in Attempts : SwitchSession(a)
    <3>1. up' = up \ ServersOverlays
      BY <2>2 DEF SwitchSession
    <3> QED BY <3>1, StaysStacked DEF ServersOverlays
  <2>3. CASE UpdateChecked \/ UpdateResult
    <3>1. up' \subseteq up \union MessageWindows /\ ("servers" \in up => "servers" \in up')
      BY <2>3 DEF UpdateChecked, UpdateResult, MessageWindows
    <3> QED BY <3>1, StaysStacked
  <2>4. CASE \/ \E a \in Attempts : DialOK(a) \/ DialFails(a) \/ ManagerClosed(a) \/ DropSuperseded(a)
             \/ \E r \in results : DropStaleResult(r) \/ ApplyResult(r)
             \/ \E p \in probing : ProbeDone(p)
    BY <1>1, <2>4 DEF DialOK, DialFails, ManagerClosed, DropSuperseded, DropStaleResult, ApplyResult,
                      ProbeDone, screen
  <2> QED BY <1>2, <2>1, <2>2, <2>3, <2>4 DEF Runtime
<1>3. CASE AskQuit \/ OpenHelp \/ ServersKey \/ GiveUpFirst
  <2>1. CASE Key("page")
    <3>1. up = {}
      BY <2>1, PageHasNone DEF ScreenInv
    <3>2. up' = {"quitConfirm"} \/ up' = {"servers"} \/ (up' = {"help"} /\ Connected)
      BY <1>3, <3>1 DEF AskQuit, OpenHelp, ServersKey, GiveUpFirst, OpenServers
    <3> QED BY <3>2 DEF Stacked
  <2>2. CASE AskQuit /\ ListKey
    <3>1. up' = up \union {"quitConfirm"}
      BY <2>2 DEF AskQuit
    <3> QED BY <2>2, <3>1, OverServers DEF ListKey
  <2> QED BY <1>3, <2>1, <2>2 DEF AskQuit, OpenHelp, ServersKey, GiveUpFirst
<1>4. CASE TabKey \/ ListMove \/ StartProbe
  BY <1>1, <1>4 DEF TabKey, ListMove, StartProbe, screen
<1>5. CASE CloseHelp \/ CloseNotice \/ StayHere \/ Quit \/ WindowSize
  <2>1. up' \subseteq up \union MessageWindows /\ ("servers" \in up => "servers" \in up')
    BY <1>5 DEF CloseHelp, CloseNotice, StayHere, Quit, WindowSize, Flush, MessageWindows
  <2> QED BY <2>1, StaysStacked
<1>6. CASE UpdateNow \/ UpdateLater \/ CloseUpdateAlert
  <2>1. up' \subseteq up \union MessageWindows /\ ("servers" \in up => "servers" \in up')
    BY <1>6 DEF UpdateNow, UpdateLater, CloseUpdateAlert, MessageWindows
  <2> QED BY <2>1, StaysStacked
<1>7. CASE ListEsc \/ ListEnter
  <2>1. \/ up' = up \ ServersOverlays
        \/ up' \subseteq up \union {"notice"} /\ ("servers" \in up => "servers" \in up')
    BY <1>7 DEF ListEsc, ListEnter, Connect, Notify
  <2> QED BY <2>1, StaysStacked DEF ServersOverlays, MessageWindows
<1>8. CASE OpenNewForm \/ OpenEditForm \/ AskDelete
  <2>1. Key("servers") /\ "form" \notin up /\ "delete" \notin up
    BY <1>8 DEF OpenNewForm, OpenEditForm, AskDelete, ListKey
  <2>2. \/ up' = up \union {"form"} \/ up' = up \union {"delete"}
        \/ up' \subseteq up \union {"notice"} /\ ("servers" \in up => "servers" \in up')
    BY <1>8 DEF OpenNewForm, OpenEditForm, AskDelete, Notify
  <2>3. CASE up' \subseteq up \union {"notice"} /\ ("servers" \in up => "servers" \in up')
    BY <2>3, StaysStacked DEF MessageWindows
  <2> QED BY <2>1, <2>2, <2>3, OverServers
<1>9. CASE DeleteNo \/ DeleteYes \/ SetDefault \/ FormCancel \/ \E c \in Connection : FormSubmit(c)
  <2>1. up' \subseteq up \union {"notice"} /\ ("servers" \in up => "servers" \in up')
    BY <1>9 DEF DeleteNo, DeleteYes, SetDefault, FormCancel, FormSubmit, SaveOrNotify, Connect, Notify
  <2> QED BY <2>1, StaysStacked DEF MessageWindows
<1> QED
  BY <1>1, <1>2, <1>3, <1>4, <1>5, <1>6, <1>7, <1>8, <1>9 DEF Next, Keys, vars, screen

\* Drawn first and first for the keys: the same overlay, the help apart.
LEMMA StackedAgrees == ASSUME Stacked PROVE KeysFollowScreen
<1>1. CASE "help" \in up
  <2>1. Top(DrawOrder) = "help"
    BY <1>1, TopIs, OrdersAre
  <2> QED BY <1>1, <2>1 DEF KeysFollowScreen, Stacked, Drawn
<1>2. CASE "help" \notin up /\ \E m \in DOMAIN KeyOrder : KeyOrder[m] \in up
  <2>1. PICK k \in 1 .. 7 : KeyOrder[k] \in up /\ \A j \in 1 .. k - 1 : KeyOrder[j] \notin up
    BY <1>2, HasFirst, OrdersAre
  <2>2. k \in 1 .. 6 /\ k + 1 \in DOMAIN DrawOrder /\ DrawOrder[k + 1] = KeyOrder[k]
    BY <1>2, <2>1, OrdersAre
  <2>3. ASSUME NEW j \in 1 .. (k + 1) - 1 PROVE DrawOrder[j] \notin up
    <3>1. CASE j = 1
      BY <1>2, <3>1, OrdersAre
    <3>2. CASE j # 1
      <4>1. j - 1 \in 1 .. 6 /\ j - 1 \in 1 .. k - 1 /\ (j - 1) + 1 = j
        BY <2>2, <2>3, <3>2
      <4>2. DrawOrder[(j - 1) + 1] = KeyOrder[j - 1]
        BY <4>1, OrdersAre
      <4> QED BY <2>1, <4>1, <4>2
    <3> QED BY <3>1, <3>2
  <2>4. Top(DrawOrder) = DrawOrder[k + 1]
    BY <2>1, <2>2, <2>3, TopIs
  <2>5. Top(KeyOrder) = KeyOrder[k]
    BY <2>1, OrdersAre, TopIs
  <2> QED BY <2>2, <2>4, <2>5 DEF KeysFollowScreen, Stacked, Drawn, Owner
<1>3. CASE "help" \notin up /\ ~ \E m \in DOMAIN KeyOrder : KeyOrder[m] \in up
  <2>1. ASSUME NEW m \in DOMAIN DrawOrder PROVE DrawOrder[m] \notin up
    <3>1. CASE m = 1
      BY <1>3, <3>1, OrdersAre
    <3>2. CASE m # 1
      <4>1. m - 1 \in 1 .. 6 /\ (m - 1) + 1 = m
        BY <3>2, OrdersAre
      <4>2. m - 1 \in DOMAIN KeyOrder /\ DrawOrder[(m - 1) + 1] = KeyOrder[m - 1]
        BY <4>1, OrdersAre
      <4> QED BY <1>3, <4>1, <4>2
    <3> QED BY <3>1, <3>2
  <2>2. Top(DrawOrder) = "page" /\ Top(KeyOrder) = "page"
    BY <1>3, <2>1 DEF Top
  <2> QED BY <2>2 DEF KeysFollowScreen, Stacked, Drawn, Owner
<1> QED BY <1>1, <1>2, <1>3

\* Whatever keys and messages opened, in any order, the overlay that has the keys
\* (handleKey) is the one drawn (view), but for the windows of messages under the help.
THEOREM TheScreenHasTheKeys == Spec => []KeysFollowScreen
<1>1. Init => Stacked
  BY DEF Init, Stacked
<1>2. SlotInv /\ ScreenInv /\ Stacked /\ [Next]_vars => Stacked'
  BY NextStacked
<1>3. Stacked => KeysFollowScreen
  BY StackedAgrees
<1> QED BY <1>1, <1>2, <1>3, SlotInvariant, ScreenInvariant, PTL DEF Spec

----------------------------------------------------------------------------
(* The list and the store.                                                 *)

\* A store as the screen leaves it.
Consistent(s) ==
  /\ s.default # NoName => IsSaved(s, s.default)
  /\ \A i, j \in DOMAIN s.conns : s.conns[i].name = s.conns[j].name => i = j

LEMMA UpsertConsistent ==
  ASSUME NEW s \in Stores, Consistent(s), NEW old \in Names \union {NoName}, NEW c \in Connection,
         UpsertOK(s, old, c)
  PROVE  Consistent(Upsert(s, old, c))
<1> DEFINE u == Upsert(s, old, c)
<1>1. s.conns \in Seq(Connection) /\ s.default \in Names \union {NoName} /\ c.name \in Names
      /\ DOMAIN s.conns = 1 .. Len(s.conns) /\ Len(s.conns) \in Nat
  BY DEF Stores, Connection
<1>2. \A i \in DOMAIN s.conns : s.conns[i].name = c.name => s.conns[i].name = old
  BY DEF UpsertOK
<1>3. CASE IsSaved(s, old)
  <2> DEFINE k == IndexOf(s, old)
  <2>1. k \in DOMAIN s.conns /\ s.conns[k].name = old
    BY <1>3, IndexIs
  <2>2. u = [s EXCEPT !.conns[k] = c, !.default = IF @ = old THEN c.name ELSE @]
    BY <1>3 DEF Upsert
  <2> HIDE DEF k, u
  <2>3. u.conns = [s.conns EXCEPT ![k] = c]
        /\ u.default = (IF s.default = old THEN c.name ELSE s.default)
    BY <2>2 DEF Stores
  <2>4. DOMAIN u.conns = DOMAIN s.conns /\ u.conns[k] = c
        /\ \A i \in DOMAIN s.conns : i # k => u.conns[i] = s.conns[i]
    BY <2>1, <2>3
  <2>5. ASSUME NEW i \in DOMAIN u.conns, NEW j \in DOMAIN u.conns, u.conns[i].name = u.conns[j].name
        PROVE  i = j
    BY <1>2, <2>1, <2>4, <2>5 DEF Consistent
  <2>6. u.default # NoName => IsSaved(u, u.default)
    <3>1. CASE s.default = old
      BY <2>1, <2>3, <2>4, <3>1 DEF IsSaved
    <3>2. CASE s.default # old
      <4>1. s.default # NoName => \E i \in DOMAIN s.conns : s.conns[i].name = s.default
        BY DEF Consistent, IsSaved
      <4> QED BY <2>1, <2>3, <2>4, <3>2, <4>1 DEF IsSaved
    <3> QED BY <3>1, <3>2
  <2> QED BY <2>5, <2>6 DEF Consistent, u
<1>4. CASE ~IsSaved(s, old)
  <2>1. u = [s EXCEPT !.conns = Append(s.conns, c)]
    BY <1>4 DEF Upsert
  <2> HIDE DEF u
  <2>2. u.conns = Append(s.conns, c) /\ u.default = s.default
    BY <2>1 DEF Stores
  <2>3. DOMAIN u.conns = 1 .. Len(s.conns) + 1 /\ u.conns[Len(s.conns) + 1] = c
        /\ \A i \in 1 .. Len(s.conns) : u.conns[i] = s.conns[i]
    BY <1>1, <2>2
  <2>4. \A i \in 1 .. Len(s.conns) : s.conns[i].name # c.name
    BY <1>1, <1>2, <1>4 DEF IsSaved
  <2>5. \A i \in 1 .. Len(s.conns) + 1 : i \in 1 .. Len(s.conns) \/ i = Len(s.conns) + 1
    BY <1>1
  <2>6. ASSUME NEW i \in DOMAIN u.conns, NEW j \in DOMAIN u.conns, u.conns[i].name = u.conns[j].name
        PROVE  i = j
    BY <1>1, <2>3, <2>4, <2>5, <2>6 DEF Consistent
  <2>7. u.default # NoName => IsSaved(u, u.default)
    <3>1. s.default # NoName => \E i \in 1 .. Len(s.conns) : s.conns[i].name = s.default
      BY <1>1 DEF Consistent, IsSaved
    <3>2. \A i \in 1 .. Len(s.conns) : i \in DOMAIN u.conns
      BY <1>1, <2>3
    <3> QED BY <2>2, <2>3, <3>1, <3>2 DEF IsSaved
  <2> QED BY <2>6, <2>7 DEF Consistent, u
<1> QED BY <1>3, <1>4

LEMMA RemoveConsistent ==
  ASSUME NEW s \in Stores, Consistent(s), NEW n \in Names \union {NoName}
  PROVE  Consistent(Remove(s, n))
<1> DEFINE K == [name : Names \ {n}, cfg : Settings]
           t == Only(s.conns, K)
           u == Remove(s, n)
<1>1. s.conns \in Seq(Connection) /\ Len(s.conns) \in Nat /\ DOMAIN s.conns = 1 .. Len(s.conns)
  BY DEF Stores
<1>2. t \in Seq(Connection) /\ \E h : CopiedFrom(h, t, s.conns, K, Len(s.conns))
  <2> HIDE DEF K
  <2> QED BY <1>1, OnlyPicks
<1>3. u.conns = t /\ u.default = (IF s.default = n THEN NoName ELSE s.default)
  BY DEF Remove, Stores
<1>4. \A c \in Connection : c \in K <=> c.name # n
  BY DEF Connection
<1> HIDE DEF K, t, u
<1>5. PICK h : CopiedFrom(h, t, s.conns, K, Len(s.conns))
  BY <1>2
<1>6. DOMAIN t = 1 .. Len(t) /\ Len(t) \in Nat
  BY <1>2
<1>7. ASSUME NEW i \in DOMAIN t, NEW j \in DOMAIN t, t[i].name = t[j].name PROVE i = j
  <2>1. h[i] = h[j]
    BY <1>1, <1>5, <1>6, <1>7 DEF CopiedFrom, Consistent
  <2>2. h[i] \in 1 .. Len(s.conns) /\ h[j] \in 1 .. Len(s.conns)
    BY <1>5, <1>6 DEF CopiedFrom
  <2>3. ~(i < j) /\ ~(j < i)
    BY <1>5, <1>6, <2>1, <2>2 DEF CopiedFrom
  <2> QED BY <1>6, <2>3
<1>8. ASSUME u.default # NoName PROVE IsSaved(u, u.default)
  <2>1. u.default = s.default /\ s.default # n
    BY <1>3, <1>8
  <2>2. PICK i \in 1 .. Len(s.conns) : s.conns[i].name = s.default
    BY <1>1, <1>8, <2>1 DEF Consistent, IsSaved
  <2>3. s.conns[i] \in K
    BY <1>1, <1>4, <2>1, <2>2
  <2>4. PICK k \in 1 .. Len(t) : h[k] = i
    BY <1>5, <2>3 DEF CopiedFrom
  <2>5. t[k] = s.conns[i]
    BY <1>5, <2>4 DEF CopiedFrom
  <2> QED BY <1>3, <1>6, <2>1, <2>2, <2>4, <2>5 DEF IsSaved
<1> QED BY <1>3, <1>7, <1>8 DEF Consistent, u

LEMMA NextConsistent ==
  ASSUME ScreenInv, Consistent(store), [Next]_vars
  PROVE  Consistent(store')
<1>1. store \in Stores /\ editing \in Names \union {NoName}
  BY DEF ScreenInv, ListPart
<1>2. CASE \E c \in Connection : FormSubmit(c)
  BY <1>1, <1>2, UpsertConsistent DEF FormSubmit
<1>3. CASE DeleteYes
  BY <1>1, <1>3, RemoveConsistent DEF DeleteYes
<1>4. CASE SetDefault
  <2>1. store' = [store EXCEPT !.default = Selected.name] /\ IsSaved(store, Selected.name)
    BY <1>4, SelectedIs DEF SetDefault, ScreenInv
  <2>2. store'.conns = store.conns /\ store'.default = Selected.name
    BY <1>1, <2>1 DEF Stores
  <2> QED BY <2>1, <2>2 DEF Consistent, IsSaved
<1>5. CASE UNCHANGED store
  BY <1>5 DEF Consistent, IsSaved
<1>6. CASE UNCHANGED vars
  BY <1>5, <1>6 DEF vars, config
<1>7. CASE Runtime \/ WindowSize
  <2>1. UNCHANGED config
    BY <1>7 DEF Runtime, DialOK, DialFails, ManagerClosed, DropSuperseded, ConnectFailed, SwitchSession,
       DropStaleResult, ApplyResult, ProbeDone, UpdateChecked, UpdateResult, WindowSize
  <2> QED BY <1>5, <2>1 DEF config
<1>8. CASE Keys /\ ~DeleteYes /\ ~SetDefault /\ ~\E c \in Connection : FormSubmit(c)
  <2>1. UNCHANGED store
    BY <1>8 DEF Keys, TabKey, AskQuit, OpenHelp, ServersKey, GiveUpFirst, CloseHelp, CloseNotice,
       StayHere, Quit, UpdateNow, UpdateLater, CloseUpdateAlert, ListEsc, ListMove, ListEnter,
       OpenNewForm, OpenEditForm, AskDelete, DeleteNo, FormCancel, StartProbe, config
  <2> QED BY <1>5, <2>1
<1> QED BY <1>2, <1>3, <1>4, <1>6, <1>7, <1>8 DEF Next

\* Whatever is added, renamed, deleted and made the default, in any order, the cursor is
\* in the list, the default exists and names are unique, if they were in the file the
\* program started with (serversModal, Store.Upsert, Store.Remove).
THEOREM ListAgrees ==
  ASSUME \A s \in StartStores : Consistent(s)
  PROVE  Spec => []ListConsistent
<1>1. Init => Consistent(store)
  BY DEF Init
<1>2. ScreenInv /\ Consistent(store) /\ [Next]_vars => Consistent(store')
  BY NextConsistent
<1>3. Consistent(store') <=> Consistent(store)'
  BY DEF Consistent, IsSaved
<1>4. ScreenInv /\ Consistent(store) => ListConsistent
  BY DEF ScreenInv, ListPart, Consistent, ListConsistent, DefaultExists, NamesUnique
<1> QED BY <1>1, <1>2, <1>3, <1>4, ScreenInvariant, PTL DEF Spec
=============================================================================
