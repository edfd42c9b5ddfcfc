------------------------------ MODULE HbaProofs ------------------------------
(***************************************************************************)
(* Proofs about HbaEditor, for any files, rules and number of changes: a   *)
(* change of pg_hba.conf that overlaps no other does what is reported of   *)
(* it, whichever statements fail, and never locks the administrator out.   *)
(***************************************************************************)
EXTENDS HbaEditor, ListProofs, TLAPS

----------------------------------------------------------------------------
(* The inductive invariant: what ApplyHBAContent knows at each statement.  *)

ApplyFields == {"pc", "new", "old", "wish", "err", "was"}
Shape ==
  /\ DOMAIN apply = Changes
  /\ \A a \in Changes : DOMAIN apply[a] = ApplyFields
  /\ confirmed \in Nat /\ mixed \subseteq Changes

\* Two changes that run at the same time are both known to.
Apart == \A a, b \in Running : a = b \/ a \in mixed

\* The server never uses a file that does not parse.
ConfParses ==
  /\ Parses(conf)
  /\ \A a \in Running : Parses(apply[a].was.conf)

At(a, pcs) == apply[a].pc \in pcs
FoundInUse(a) == apply[a].was.file = apply[a].was.conf

\* What a change that overlaps no other knows, whichever statements failed so far.
StageOK(a) ==
  /\ At(a, {"read", "backup", "write"}) => Undone(a)
  /\ At(a, {"backup", "write", "check", "reload", "verify", "undo", "reundo"}) =>
       apply[a].old = apply[a].was.file
  /\ At(a, {"write", "check", "reload", "verify", "undo", "reundo"}) => bak = apply[a].old
  /\ At(a, {"check", "reload", "verify"}) => file = apply[a].new
  /\ At(a, {"reload", "verify"}) => Parses(file)
  /\ At(a, {"verify"}) => conf = file
  /\ At(a, {"reundo"}) /\ a \notin torn => file = apply[a].old
  /\ At(a, {"read", "backup", "write", "check", "reload", "verify"}) => apply[a].err = FALSE
  /\ At(a, {"undo", "reundo"}) => apply[a].err = TRUE
  /\ Reported(a, FALSE) => file = apply[a].new /\ conf = file /\ Admits(conf)
  /\ Reported(a, FALSE) \/ apply[a].was.file \in {file, bak}
  /\ Reported(a, TRUE) /\ a \notin torn /\ FoundInUse(a) => Undone(a)
  /\ At(a, {"sent"}) => apply[a].err \in BOOLEAN

\* As long as nothing overlapped and nothing tore, every change found a good file in use.
Sound(f) == Parses(f) /\ Admits(f)
Quiet ==
  /\ Running = {} => file = conf /\ Sound(file)
  /\ \A a \in Running : FoundInUse(a) /\ Sound(apply[a].was.file)

HbaInv ==
  /\ Shape /\ Apart /\ ConfParses
  /\ \A a \in Running \ mixed : StageOK(a)
  /\ mixed = {} /\ torn = {} => Quiet

----------------------------------------------------------------------------
(* A statement of one change moves that change on, and no other.           *)

\* What a step makes of the command a, and of it alone.
Moves(a, pc, old, err) ==
  /\ DOMAIN apply' = Changes /\ DOMAIN apply'[a] = ApplyFields
  /\ apply'[a].pc = pc /\ apply'[a].new = apply[a].new /\ apply'[a].was = apply[a].was
  /\ apply'[a].old = old /\ apply'[a].err = err
  /\ \A b \in Changes \ {a} : apply'[b] = apply[b]

LEMMA GotoMoves ==
  ASSUME Shape, NEW a \in Changes, NEW pc, Goto(a, pc)
  PROVE  Moves(a, pc, apply[a].old, apply[a].err)
BY DEF Goto, Moves, Shape, ApplyFields

LEMMA FailMoves ==
  ASSUME Shape, NEW a \in Changes, NEW pc, Fail(a, pc)
  PROVE  Moves(a, pc, apply[a].old, TRUE)
BY DEF Fail, Moves, Shape, ApplyFields

\* A statement that works, one that fails, and one that tears the change a.
Outcome(a) == Works \/ Fails \/ Tears(a)

LEMMA TornGrows ==
  ASSUME NEW a, Outcome(a)
  PROVE  /\ torn \subseteq torn' /\ (torn' = {} => torn = {})
         /\ (a \notin torn' => a \notin torn /\ (Works \/ Fails))
BY DEF Outcome, Works, Fails, Tears, failed

LEMMA Advance ==
  ASSUME HbaInv, NEW a \in Running, NEW pc, NEW old, NEW err, Moves(a, pc, old, err),
         pc \notin {"none", "over"}, UNCHANGED <<confirmed, mixed>>, Outcome(a),
         Parses(conf'), a \notin mixed => StageOK(a)'
  PROVE  HbaInv'
<1>1. /\ a \in Changes /\ Running' = Running
      /\ \A b \in Running : apply'[b].was = apply[b].was
  BY DEF Running, Moves, Changes
<1>2. Shape'
  BY <1>1 DEF HbaInv, Shape, Moves, Changes
<1>3. Apart' /\ ConfParses'
  BY <1>1 DEF HbaInv, Apart, ConfParses
<1>4. \A b \in Running' \ mixed' : b = a
  BY <1>1 DEF HbaInv, Apart
<1>5. mixed' = {} /\ torn' = {} => Quiet'
  <2> SUFFICES ASSUME mixed' = {}, torn' = {} PROVE Quiet'
    OBVIOUS
  <2>1. Quiet
    BY TornGrows DEF HbaInv
  <2> QED BY <1>1, <2>1 DEF Quiet, FoundInUse
<1> QED BY <1>1, <1>2, <1>3, <1>4, <1>5 DEF HbaInv

----------------------------------------------------------------------------
(* ApplyHBAContent, statement by statement.                                *)

\* What every statement of a change starts from.
LEMMA Stage ==
  ASSUME HbaInv, NEW a \in Changes, ~At(a, {"none", "over"})
  PROVE  /\ a \in Running /\ Shape /\ Parses(conf) /\ Parses(apply[a].was.conf)
         /\ a \notin mixed => StageOK(a)
BY DEF HbaInv, ConfParses, Running, At

LEMMA ReadOldKeeps == ASSUME HbaInv, NEW a \in Changes, ReadOld(a) PROVE HbaInv'
<1> USE DEF others, past
<1>1. /\ a \in Running /\ Shape /\ Parses(conf') /\ At(a, {"read"})
      /\ a \notin mixed => StageOK(a)
      /\ UNCHANGED server /\ UNCHANGED <<confirmed, mixed>>
  BY Stage DEF ReadOld, At, server
<1>2. CASE Works /\ apply' = [apply EXCEPT ![a].pc = "backup", ![a].old = file]
  <2>1. Moves(a, "backup", file, apply[a].err)
    BY <1>1, <1>2 DEF Moves, Shape, ApplyFields
  <2>2. a \notin mixed => StageOK(a)'
    BY <1>1, <2>1 DEF StageOK, At, Moves, Undone, Reported, server
  <2> QED BY <1>1, <1>2, <2>1, <2>2, Advance DEF Outcome
<1>3. CASE Fails /\ Fail(a, "sent")
  <2>1. Moves(a, "sent", apply[a].old, TRUE)
    BY <1>1, <1>3, FailMoves
  <2>2. a \notin mixed => StageOK(a)'
    BY <1>1, <2>1 DEF StageOK, At, Moves, Undone, Reported, server
  <2> QED BY <1>1, <1>3, <2>1, <2>2, Advance DEF Outcome
<1> QED BY <1>2, <1>3 DEF ReadOld

LEMMA WriteBackupKeeps == ASSUME HbaInv, NEW a \in Changes, WriteBackup(a) PROVE HbaInv'
<1> USE DEF others, past
<1>1. /\ a \in Running /\ Shape /\ Parses(conf') /\ At(a, {"backup"})
      /\ a \notin mixed => StageOK(a)
      /\ UNCHANGED <<file, conf>> /\ UNCHANGED <<confirmed, mixed>>
  BY Stage DEF WriteBackup, At
<1>2. CASE Works /\ bak' = BackupOf(a) /\ Goto(a, "write")
  <2>1. Moves(a, "write", apply[a].old, apply[a].err)
    BY <1>1, <1>2, GotoMoves
  <2>2. a \notin mixed => StageOK(a)'
    BY <1>1, <1>2, <2>1 DEF StageOK, At, Moves, Undone, Reported, BackupOf
  <2> QED BY <1>1, <1>2, <2>1, <2>2, Advance DEF Outcome
<1>3. CASE Fails /\ Fail(a, "sent")
  <2>1. Moves(a, "sent", apply[a].old, TRUE)
    BY <1>1, <1>3, FailMoves
  <2>2. a \notin mixed => StageOK(a)'
    BY <1>1, <2>1 DEF StageOK, At, Moves, Undone, Reported
  <2> QED BY <1>1, <1>3, <2>1, <2>2, Advance DEF Outcome
<1> QED BY <1>2, <1>3 DEF WriteBackup

LEMMA WriteNewKeeps == ASSUME HbaInv, NEW a \in Changes, WriteNew(a) PROVE HbaInv'
<1> USE DEF others, past
<1>1. /\ a \in Running /\ Shape /\ Parses(conf') /\ At(a, {"write"})
      /\ a \notin mixed => StageOK(a)
      /\ UNCHANGED <<conf, bak>> /\ UNCHANGED <<confirmed, mixed>>
  BY Stage DEF WriteNew, At
<1>2. CASE Works /\ file' = apply[a].new /\ Goto(a, "check")
  <2>1. Moves(a, "check", apply[a].old, apply[a].err)
    BY <1>1, <1>2, GotoMoves
  <2>2. a \notin mixed => StageOK(a)'
    BY <1>1, <1>2, <2>1 DEF StageOK, At, Moves, Undone, Reported
  <2> QED BY <1>1, <1>2, <2>1, <2>2, Advance DEF Outcome
<1>3. CASE Tears(a) /\ Fail(a, "sent")
  <2>1. Moves(a, "sent", apply[a].old, TRUE) /\ a \in torn'
    BY <1>1, <1>3, FailMoves DEF Tears
  <2>2. a \notin mixed => StageOK(a)'
    BY <1>1, <2>1 DEF StageOK, At, Moves, Undone, Reported
  <2> QED BY <1>1, <1>3, <2>1, <2>2, Advance DEF Outcome
<1> QED BY <1>2, <1>3 DEF WriteNew

\* A check that fails, for whatever reason, leads to the way back with the old file in hand.
LEMMA UndoKeeps ==
  ASSUME HbaInv, NEW a \in Changes, At(a, {"check", "reload", "verify"}),
         Fail(a, "undo"), Works \/ Fails, UNCHANGED <<bak, confirmed, mixed>>, Parses(conf')
  PROVE  HbaInv'
<1>1. a \in Running /\ Shape /\ (a \notin mixed => StageOK(a))
  BY Stage DEF At
<1>2. Moves(a, "undo", apply[a].old, TRUE)
  BY <1>1, FailMoves
<1>3. a \notin mixed => StageOK(a)'
  BY <1>1, <1>2 DEF StageOK, At, Moves, Reported
<1> QED BY <1>1, <1>2, <1>3, Advance DEF Outcome

LEMMA CheckRulesKeeps == ASSUME HbaInv, NEW a \in Changes, CheckRules(a) PROVE HbaInv'
<1> USE DEF others, past
<1>1. /\ a \in Running /\ Shape /\ Parses(conf') /\ At(a, {"check"})
      /\ a \notin mixed => StageOK(a)
      /\ UNCHANGED <<file, conf, bak>> /\ UNCHANGED <<confirmed, mixed>>
  BY Stage DEF CheckRules, At, server
<1>2. CASE Works /\ RulesParse(a) /\ Goto(a, "reload")
  <2>1. Moves(a, "reload", apply[a].old, apply[a].err)
    BY <1>1, <1>2, GotoMoves
  <2>2. a \notin mixed => StageOK(a)'
    BY <1>1, <1>2, <2>1 DEF StageOK, At, Moves, Reported, RulesParse
  <2> QED BY <1>1, <1>2, <2>1, <2>2, Advance DEF Outcome
<1>3. CASE (Works \/ Fails) /\ Fail(a, "undo")
  BY <1>1, <1>3, UndoKeeps DEF At
<1> QED BY <1>2, <1>3 DEF CheckRules, Undo

LEMMA ReloadKeeps == ASSUME HbaInv, NEW a \in Changes, Reload(a) PROVE HbaInv'
<1> USE DEF others, past
<1>1. /\ a \in Running /\ Shape /\ Parses(conf) /\ At(a, {"reload"})
      /\ a \notin mixed => StageOK(a)
      /\ UNCHANGED <<file, bak>> /\ UNCHANGED <<confirmed, mixed>>
  BY Stage DEF Reload, At
<1>2. Parses(Reloaded)
  BY <1>1 DEF Reloaded
<1>3. CASE Works /\ conf' = Reloaded /\ Goto(a, "verify")
  <2>1. Moves(a, "verify", apply[a].old, apply[a].err)
    BY <1>1, <1>3, GotoMoves
  <2>2. a \notin mixed => conf' = file
    BY <1>1, <1>3 DEF StageOK, At, Reloaded
  <2>3. a \notin mixed => StageOK(a)'
    BY <1>1, <2>1, <2>2 DEF StageOK, At, Moves, Reported
  <2> QED BY <1>1, <1>2, <1>3, <2>1, <2>3, Advance DEF Outcome
<1>4. CASE Fails /\ conf' \in {conf, Reloaded} /\ Fail(a, "undo")
  <2>1. Parses(conf')
    BY <1>1, <1>2, <1>4
  <2> QED BY <1>1, <1>4, <2>1, UndoKeeps DEF At
<1> QED BY <1>3, <1>4 DEF Reload, Undo

LEMMA VerifyLoginKeeps == ASSUME HbaInv, NEW a \in Changes, VerifyLogin(a) PROVE HbaInv'
<1> USE DEF others, past
<1>1. /\ a \in Running /\ Shape /\ Parses(conf') /\ At(a, {"verify"})
      /\ a \notin mixed => StageOK(a)
      /\ UNCHANGED <<file, conf, bak>> /\ UNCHANGED <<confirmed, mixed>>
  BY Stage DEF VerifyLogin, At, server
<1>2. CASE Works /\ LoginWorks /\ Goto(a, "sent")
  <2>1. Moves(a, "sent", apply[a].old, apply[a].err)
    BY <1>1, <1>2, GotoMoves
  <2>2. a \notin mixed => StageOK(a)'
    BY <1>1, <1>2, <2>1 DEF StageOK, At, Moves, Reported, LoginWorks
  <2> QED BY <1>1, <1>2, <2>1, <2>2, Advance DEF Outcome
<1>3. CASE (Works \/ Fails) /\ Fail(a, "undo")
  BY <1>1, <1>3, UndoKeeps DEF At
<1> QED BY <1>2, <1>3 DEF VerifyLogin, Undo

LEMMA RestoreOldKeeps == ASSUME HbaInv, NEW a \in Changes, RestoreOld(a) PROVE HbaInv'
<1> USE DEF others, past
<1>1. /\ a \in Running /\ Shape /\ Parses(conf') /\ At(a, {"undo"})
      /\ a \notin mixed => StageOK(a)
      /\ UNCHANGED <<conf, bak>> /\ UNCHANGED <<confirmed, mixed>>
  BY Stage DEF RestoreOld, At
<1>2. Moves(a, "reundo", apply[a].old, apply[a].err) /\ Outcome(a)
  BY <1>1, GotoMoves DEF RestoreOld, Outcome
<1>3. a \notin torn' => file' = apply[a].old
  BY DEF RestoreOld, Tears
<1>4. a \notin mixed => StageOK(a)'
  BY <1>1, <1>2, <1>3 DEF StageOK, At, Moves, Reported
<1> QED BY <1>1, <1>2, <1>4, Advance

LEMMA ReloadOldKeeps == ASSUME HbaInv, NEW a \in Changes, ReloadOld(a) PROVE HbaInv'
<1> USE DEF others, past
<1>1. /\ a \in Running /\ Shape /\ Parses(conf) /\ At(a, {"reundo"})
      /\ a \notin mixed => StageOK(a)
      /\ UNCHANGED <<file, bak>> /\ UNCHANGED <<confirmed, mixed>>
      /\ Parses(apply[a].was.conf)
  BY Stage DEF ReloadOld, At
<1>2. Moves(a, "sent", apply[a].old, apply[a].err) /\ Outcome(a)
  BY <1>1, GotoMoves DEF ReloadOld, Outcome
<1>3. Parses(conf')
  BY <1>1 DEF ReloadOld, Reloaded
<1>4. a \notin torn' => a \notin torn /\ conf' = Reloaded
  BY DEF ReloadOld, Works, Tears, failed
<1>5. ASSUME a \notin mixed, a \notin torn', FoundInUse(a)
      PROVE  file' = apply[a].was.file /\ conf' = apply[a].was.conf
  BY <1>1, <1>4, <1>5 DEF StageOK, At, FoundInUse, Reloaded
<1>6. a \notin mixed => StageOK(a)'
  BY <1>1, <1>2, <1>5 DEF StageOK, At, Moves, Reported, Undone, FoundInUse
<1> QED BY <1>1, <1>2, <1>3, <1>6, Advance

----------------------------------------------------------------------------
(* The rest of the program: no other step touches the server.              *)

\* A change that has been answered runs no longer; what it leaves is a good file in use,
\* as long as nothing overlapped and nothing tore.
LEMMA HbaApplyMsgKeeps == ASSUME HbaInv, NEW a \in Changes, HbaApplyMsg(a) PROVE HbaInv'
<1> USE DEF past, failed
<1>1. /\ a \in Running /\ Shape /\ Parses(conf) /\ At(a, {"sent"})
      /\ a \notin mixed => StageOK(a)
      /\ UNCHANGED <<file, conf, bak, confirmed, mixed, torn>>
      /\ apply' = [apply EXCEPT ![a] = NoApply("over")]
  BY Stage DEF HbaApplyMsg, At, server
<1>2. /\ Running' = Running \ {a}
      /\ \A b \in Running \ {a} : apply'[b] = apply[b]
  BY <1>1 DEF Shape, Running, NoApply, Command, Changes
<1>3. Shape'
  <2> DEFINE cmd == NoApply("over")
  <2>1. DOMAIN cmd = ApplyFields
    BY DEF NoApply, Command, ApplyFields
  <2> HIDE DEF cmd
  <2>2. apply' = [apply EXCEPT ![a] = cmd]
    BY <1>1 DEF cmd
  <2> QED BY <1>1, <2>1, <2>2 DEF Shape, Changes
<1>4. Apart' /\ ConfParses'
  BY <1>1, <1>2 DEF HbaInv, Apart, ConfParses
<1>5. \A b \in Running' \ mixed' : StageOK(b)'
  BY <1>1, <1>2 DEF HbaInv, StageOK, At, Reported, Undone, FoundInUse
<1>6. ASSUME mixed = {}, torn = {} PROVE Quiet'
  <2>1. FoundInUse(a) /\ Sound(apply[a].was.file) /\ StageOK(a)
    BY <1>1, <1>6 DEF HbaInv, Quiet
  <2>2. file = conf /\ Sound(file)
    <3>1. CASE Reported(a, TRUE)
      BY <1>6, <2>1, <3>1 DEF StageOK, Undone, FoundInUse
    <3>2. CASE Reported(a, FALSE)
      BY <1>1, <2>1, <3>2 DEF StageOK, Sound
    <3> QED BY <1>1, <2>1, <3>1, <3>2 DEF StageOK, At, Reported
  <2> QED BY <1>1, <1>2, <1>6, <2>2 DEF HbaInv, Quiet, FoundInUse
<1> QED BY <1>1, <1>3, <1>4, <1>5, <1>6 DEF HbaInv

\* A change starts, and it and those that run already are known to overlap.
LEMMA ConfirmKeeps == ASSUME HbaInv, Confirm PROVE HbaInv'
<1> USE DEF failed
<1> DEFINE cmd == Command("read", pending, wish, [file |-> file, conf |-> conf])
<1>1. /\ confirmed < MaxChanges /\ confirmed' = confirmed + 1
      /\ apply' = [apply EXCEPT ![confirmed + 1] = cmd]
      /\ mixed' = IF Running = {} THEN mixed ELSE mixed \union Running \union {confirmed + 1}
      /\ UNCHANGED <<file, conf, bak, torn>>
  BY DEF Confirm, MoreToCome, server
<1>2. PICK n \in Changes : n = confirmed + 1
  BY <1>1, HbaConstants DEF HbaInv, Shape, Changes
<1>3. /\ DOMAIN cmd = ApplyFields /\ cmd.pc = "read" /\ cmd.err = FALSE
      /\ cmd.was.file = file /\ cmd.was.conf = conf
  BY DEF Command, ApplyFields
<1> HIDE DEF cmd
<1>4. /\ DOMAIN apply' = Changes /\ apply'[n] = cmd
      /\ \A b \in Changes \ {n} : apply'[b] = apply[b]
      /\ confirmed' \in Nat
  BY <1>1, <1>2 DEF HbaInv, Shape
<1>5. Running' = Running \union {n} /\ Running \subseteq Changes
  BY <1>2, <1>3, <1>4 DEF Running, Changes
<1>6. Shape'
  BY <1>1, <1>2, <1>3, <1>4, <1>5 DEF HbaInv, Shape, Changes
<1>7. Apart' /\ ConfParses'
  BY <1>1, <1>2, <1>3, <1>4, <1>5 DEF HbaInv, Apart, ConfParses
<1>8. StageOK(n)'
  BY <1>1, <1>3, <1>4 DEF StageOK, At, Undone, Reported
<1>9. \A b \in Running' \ mixed' : b = n
  BY <1>1, <1>5
<1>10. ASSUME mixed' = {}, torn' = {} PROVE Quiet'
  <2>1. Running = {} /\ file = conf /\ Sound(file)
    BY <1>1, <1>10 DEF HbaInv, Quiet
  <2> QED BY <1>1, <1>3, <1>4, <1>5, <2>1 DEF Quiet, FoundInUse
<1> QED BY <1>6, <1>7, <1>8, <1>9, <1>10 DEF HbaInv

\* The loads read, and may fail; the keys change what is shown.
LEMMA IdleKeeps ==
  ASSUME HbaInv, UNCHANGED <<server, apply, confirmed, mixed>>, Works \/ Fails
  PROVE  HbaInv'
<1> USE DEF server
<1>1. Running' = Running /\ torn' = torn
  BY DEF Running, Changes, Works, Fails, failed
<1>2. Shape' /\ Apart' /\ ConfParses'
  BY <1>1 DEF HbaInv, Shape, Apart, ConfParses, Changes
<1>3. \A a \in Running' \ mixed' : StageOK(a)'
  BY <1>1 DEF HbaInv, StageOK, At, Reported, Undone, FoundInUse
<1>4. mixed' = {} /\ torn' = {} => Quiet'
  BY <1>1 DEF HbaInv, Quiet, FoundInUse
<1> QED BY <1>2, <1>3, <1>4 DEF HbaInv

LEMMA LoadingIdles ==
  ASSUME NEW l \in loads, Loading(l)
  PROVE  UNCHANGED <<server, apply, confirmed, mixed>> /\ (Works \/ Fails)
BY DEF Loading, ReadContent, ReadRules, HbaMsg, Works, past

LEMMA KeysIdle ==
  ASSUME Keys, ~Confirm
  PROVE  UNCHANGED <<server, apply, confirmed, mixed>> /\ Works
BY DEF Keys, Refresh, OpenAdd, Dismiss, CloseAlert, OpenEdit, AskDelete, SubmitForm, Works, past

LEMMA HbaStep == ASSUME HbaInv, [Next]_vars PROVE HbaInv'
<1>1. ASSUME NEW a \in Changes, Applying(a) PROVE HbaInv'
  BY <1>1, ReadOldKeeps, WriteBackupKeeps, WriteNewKeeps, CheckRulesKeeps, ReloadKeeps,
     VerifyLoginKeeps, RestoreOldKeeps, ReloadOldKeeps, HbaApplyMsgKeeps DEF Applying
<1>2. ASSUME NEW l \in loads, Loading(l) PROVE HbaInv'
  BY <1>2, LoadingIdles, IdleKeeps
<1>3. ASSUME Keys PROVE HbaInv'
  BY <1>3, KeysIdle, ConfirmKeeps, IdleKeeps
<1>4. ASSUME UNCHANGED vars PROVE HbaInv'
  BY <1>4, IdleKeeps DEF vars, past, Works
<1> QED BY <1>1, <1>2, <1>3, <1>4 DEF Next

LEMMA HbaStart == ASSUME Init PROVE HbaInv
<1> DEFINE cmd == NoApply("none")
<1>1. DOMAIN apply = Changes /\ \A a \in Changes : apply[a] = cmd
  BY DEF Init
<1>2. DOMAIN cmd = ApplyFields /\ cmd.pc = "none"
  BY DEF NoApply, Command, ApplyFields
<1> HIDE DEF cmd
<1>3. Shape
  BY <1>1, <1>2 DEF Init, Shape
<1>4. Running = {}
  BY <1>1, <1>2 DEF Running
<1>5. file = conf /\ Sound(file)
  BY HbaConstants DEF Init, Sound
<1> QED BY <1>3, <1>4, <1>5 DEF HbaInv, Apart, ConfParses, Quiet, Sound

----------------------------------------------------------------------------
(* What a change of pg_hba.conf promises.                                  *)

\* ApplyHBAContent knows, at each statement of a change that overlaps no other, what the file,
\* the backup and the rules in use are, whichever statements failed; and as long as nothing
\* overlapped and no write or way back failed, every change found a good file in use.
THEOREM ApplyKnowsTheServer == Spec => []HbaInv
<1>1. Init => HbaInv
  BY HbaStart
<1>2. HbaInv /\ [Next]_vars => HbaInv'
  BY HbaStep
<1> QED BY <1>1, <1>2, PTL DEF Spec

\* Between two changes, as long as none overlapped and no write of pg_hba.conf and no way back
\* failed, the file parses, is what the server uses and lets the administrator in:
\* ApplyHBAContent checks the rules before it reloads and the login before it answers, and
\* takes everything back otherwise.
THEOREM AdministratorStaysIn == Spec => []NeverLockedOut
<1>1. HbaInv => NeverLockedOut
  BY DEF HbaInv, Quiet, NeverLockedOut, Sound
<1> QED BY <1>1, ApplyKnowsTheServer, PTL

\* What hbaApplyMsg reports as failed, because the change was refused or one of its statements
\* failed, has left the file and the rules in use as they were when it was confirmed.
THEOREM RefusedLeavesNoTrace == Spec => []RefusedIsUndone
<1>1. HbaInv => RefusedIsUndone
  BY DEF HbaInv, StageOK, Running, Reported, FoundInUse, RefusedIsUndone
<1> QED BY <1>1, ApplyKnowsTheServer, PTL

\* Whichever statements fail, the way back included, pg_hba.conf or pg_hba.conf.pgtower.bak
\* holds the file as it was when the change was confirmed, until a success is reported.
THEOREM OldFileIsNeverLost == Spec => []OldFileKept
<1>1. HbaInv => OldFileKept
  BY DEF HbaInv, StageOK, OldFileKept
<1> QED BY <1>1, ApplyKnowsTheServer, PTL

\* What hbaApplyMsg reports as applied, if it overlapped no other change, is in the file and is
\* what the server uses, as it was confirmed, and lets the administrator in.
THEOREM AppliedIsInUse == Spec => []SuccessIsInUse
<1>1. HbaInv => SuccessIsInUse
  BY DEF HbaInv, StageOK, Running, Reported, SuccessIsInUse
<1> QED BY <1>1, ApplyKnowsTheServer, PTL

----------------------------------------------------------------------------
(* Types.                                                                  *)

Stages == {"none", "read", "backup", "write", "check", "reload", "verify",
           "undo", "reundo", "sent", "over"}
Found == [file : Files, conf : Files]
Loaded == [id : LoadIds, at : {"content", "rules", "sent"}, content : Files,
           rules : Seq(RuleRows), writable : BOOLEAN, ok : BOOLEAN]

ServerTyped == file \in Files /\ conf \in Files /\ bak \in Files
ViewTyped == content \in Files /\ rules \in Seq(RuleRows) /\ writable \in BOOLEAN
DialogTyped ==
  /\ modal \in {"none", "form", "confirm"} /\ alert \in BOOLEAN
  /\ editLine \in Nat /\ pending \in Files
CommandsTyped ==
  /\ confirmed \in 0 .. MaxChanges /\ DOMAIN apply = Changes
  /\ \A a \in Changes :
       /\ DOMAIN apply[a] = ApplyFields /\ apply[a].pc \in Stages
       /\ apply[a].new \in Files /\ apply[a].old \in Files /\ apply[a].err \in BOOLEAN
       /\ apply[a].was \in Found
       /\ a > confirmed => apply[a].pc = "none"
HistoryTyped == asked \in 0 .. MaxLoads /\ mixed \subseteq Changes /\ torn \subseteq Changes
LoadsTyped == loads \subseteq Loaded /\ IsFiniteSet(loads)

\* A load is started by Init, by a key and by a change that is over.
Over == {a \in Changes : apply[a].pc = "over"}
FewLoads == Cardinality(loads) <= asked + 1 + Cardinality(Over)

TypeInv ==
  /\ ServerTyped /\ ViewTyped /\ DialogTyped /\ CommandsTyped /\ HistoryTyped
  /\ LoadsTyped /\ FewLoads

----------------------------------------------------------------------------
(* The operators on files keep files.                                      *)

LEMMA RulesTyped == ASSUME NEW f \in Files PROVE RulesOf(f) \in Seq(RuleRows)
<1> DEFINE rows == [i \in DOMAIN f |-> [line |-> i, val |-> f[i]]]
           K == [line : Nat, val : Lines \ Comments]
<1>1. rows \in Seq(RuleRows)
  <2>1. DOMAIN f = 1 .. Len(f) /\ Len(f) \in Nat /\ \A i \in 1 .. Len(f) : f[i] \in Lines
    BY DEF Files
  <2>2. rows \in [1 .. Len(f) -> RuleRows]
    BY <2>1 DEF RuleRows
  <2> QED BY <2>1, <2>2
<1>2. Only(rows, K) \in Seq(RuleRows)
  <2> HIDE DEF rows, K
  <2> QED BY <1>1, OnlyPicks
<1> QED BY <1>2 DEF RulesOf

LEMMA ChangedIsFile ==
  ASSUME NEW f \in Files, NEW l \in Lines, NEW n \in Nat \ {0}
  PROVE  HBAAppendLine(f, l) \in Files /\ HBAReplaceLine(f, n, l) \in Files
BY DEF Files, HBAAppendLine, HBAReplaceLine

LEMMA DeletedIsFile ==
  ASSUME NEW f \in Files, NEW n \in Nat \ {0}
  PROVE  HBADeleteLine(f, n) \in Files
<1>1. CASE n <= Len(f)
  <2>1. SubSeq(f, 1, n - 1) \in Seq(Lines) /\ SubSeq(f, n + 1, Len(f)) \in Seq(Lines)
    BY <1>1 DEF Files
  <2> QED BY <1>1, <2>1 DEF Files, HBADeleteLine
<1>2. CASE ~(n <= Len(f))
  BY <1>2 DEF HBADeleteLine
<1> QED BY <1>1, <1>2

----------------------------------------------------------------------------
(* There is a number for every load.                                       *)

LEMMA OversCounted ==
  ASSUME CommandsTyped
  PROVE  /\ IsFiniteSet(Over) /\ Cardinality(Over) \in 0 .. MaxChanges
         /\ \A a \in Changes \ Over : Cardinality(Over) < MaxChanges
<1>1. IsFiniteSet(Changes) /\ Cardinality(Changes) = MaxChanges
  BY HbaConstants, FS_Interval DEF Changes
<1>2. /\ IsFiniteSet(Over) /\ Cardinality(Over) <= MaxChanges
      /\ Cardinality(Over) = MaxChanges => Over = Changes
  BY <1>1, FS_Subset DEF Over
<1>3. Cardinality(Over) \in Nat
  BY <1>2, FS_CardinalityType
<1> QED BY <1>2, <1>3, HbaConstants

LEMMA ANumberIsFree ==
  ASSUME LoadsTyped, Cardinality(loads) <= MaxLoads + MaxChanges
  PROVE  FreeId \in LoadIds
<1> DEFINE N == MaxLoads + MaxChanges + 1
           pick == [i \in LoadIds |-> CHOOSE l \in loads : l.id = i]
<1>1. IsFiniteSet(LoadIds) /\ Cardinality(LoadIds) = N
  BY HbaConstants, FS_Interval DEF LoadIds
<1>2. Cardinality(loads) \in Nat
  BY FS_CardinalityType DEF LoadsTyped
<1>3. SUFFICES ASSUME \A i \in LoadIds : \E l \in loads : l.id = i PROVE FALSE
  BY DEF FreeId
<1>4. pick \in [LoadIds -> loads] /\ \A i \in LoadIds : pick[i].id = i
  BY <1>3
<1>5. Cardinality(loads) < Cardinality(LoadIds)
  BY <1>1, <1>2, HbaConstants
<1>6. \E i, j \in LoadIds : i # j /\ pick[i] = pick[j]
  <2> HIDE DEF pick
  <2> QED BY <1>1, <1>4, <1>5, FS_PigeonHole DEF LoadsTyped
<1> HIDE DEF pick
<1> QED BY <1>4, <1>6

LEMMA FirstReadTyped == ASSUME NEW i \in LoadIds PROVE FirstRead(i) \in Loaded
BY DEF FirstRead, Loaded, Files

LEMMA LoadAdded ==
  ASSUME LoadsTyped, Cardinality(loads) <= MaxLoads + MaxChanges,
         loads' = loads \union {NewLoad}
  PROVE  LoadsTyped' /\ Cardinality(loads') <= Cardinality(loads) + 1
<1>1. NewLoad \in Loaded
  BY ANumberIsFree, FirstReadTyped DEF NewLoad
<1>2. /\ IsFiniteSet(loads')
      /\ Cardinality(loads') = IF NewLoad \in loads THEN Cardinality(loads) ELSE Cardinality(loads) + 1
  BY FS_AddElement DEF LoadsTyped
<1>3. Cardinality(loads) \in Nat
  BY FS_CardinalityType DEF LoadsTyped
<1> QED BY <1>1, <1>2, <1>3 DEF LoadsTyped

LEMMA LoadReplaced ==
  ASSUME LoadsTyped, NEW l \in loads, NEW x \in Loaded, loads' = (loads \ {l}) \union {x}
  PROVE  LoadsTyped' /\ Cardinality(loads') <= Cardinality(loads)
<1>1. IsFiniteSet(loads \ {l}) /\ Cardinality(loads \ {l}) = Cardinality(loads) - 1
  BY FS_RemoveElement DEF LoadsTyped
<1>2. /\ IsFiniteSet(loads')
      /\ Cardinality(loads') = IF x \in loads \ {l} THEN Cardinality(loads \ {l})
                               ELSE Cardinality(loads \ {l}) + 1
  <2> DEFINE rest == loads \ {l}
  <2>1. IsFiniteSet(rest)
    BY <1>1
  <2> HIDE DEF rest
  <2>2. /\ IsFiniteSet(rest \union {x})
        /\ Cardinality(rest \union {x}) =
             IF x \in rest THEN Cardinality(rest) ELSE Cardinality(rest) + 1
    BY <2>1, FS_AddElement
  <2> QED BY <2>2 DEF rest
<1>3. Cardinality(loads) \in Nat
  BY FS_CardinalityType DEF LoadsTyped
<1> QED BY <1>1, <1>2, <1>3 DEF LoadsTyped

LEMMA LoadTaken ==
  ASSUME LoadsTyped, NEW l \in loads, loads' = loads \ {l}
  PROVE  LoadsTyped' /\ Cardinality(loads') <= Cardinality(loads)
<1>1. IsFiniteSet(loads') /\ Cardinality(loads') = Cardinality(loads) - 1
  BY FS_RemoveElement DEF LoadsTyped
<1>2. Cardinality(loads) \in Nat
  BY FS_CardinalityType DEF LoadsTyped
<1> QED BY <1>1, <1>2 DEF LoadsTyped

\* No more loads than before, and the changes that are over still are.
LEMMA FewLoadsStays ==
  ASSUME CommandsTyped, HistoryTyped, FewLoads, LoadsTyped, LoadsTyped',
         Cardinality(loads') <= Cardinality(loads), Over' = Over, UNCHANGED asked
  PROVE  FewLoads'
<1>1. /\ Cardinality(loads) \in Nat /\ Cardinality(loads') \in Nat
      /\ asked + 1 + Cardinality(Over) \in Nat
  BY FS_CardinalityType, OversCounted, HbaConstants DEF LoadsTyped, HistoryTyped
<1>2. Cardinality(Over)' = Cardinality(Over)
  OBVIOUS
<1> QED BY <1>1, <1>2 DEF FewLoads

----------------------------------------------------------------------------
(* What a step leaves alone keeps its type.                                *)

LEMMA ServerStays == ASSUME ServerTyped, UNCHANGED server PROVE ServerTyped'
BY DEF ServerTyped, server

LEMMA ViewStays == ASSUME ViewTyped, UNCHANGED view PROVE ViewTyped'
BY DEF ViewTyped, view

LEMMA DialogStays == ASSUME DialogTyped, UNCHANGED <<dialog, alert>> PROVE DialogTyped'
BY DEF DialogTyped, dialog

LEMMA CommandsStay ==
  ASSUME CommandsTyped, UNCHANGED <<apply, confirmed>>
  PROVE  CommandsTyped' /\ Over' = Over
BY DEF CommandsTyped, Over, Changes

LEMMA LoadsStay ==
  ASSUME LoadsTyped, FewLoads, UNCHANGED <<loads, asked>>, Over' = Over
  PROVE  LoadsTyped' /\ FewLoads'
BY DEF LoadsTyped, FewLoads

\* A command goes on: what it is about stays, and it is not over.
LEMMA CommandMoves ==
  ASSUME CommandsTyped, NEW a \in Changes, apply[a].pc \notin {"none", "over"},
         NEW pc \in Stages \ {"over"}, NEW old \in Files, NEW err \in BOOLEAN,
         Moves(a, pc, old, err), UNCHANGED confirmed
  PROVE  CommandsTyped' /\ Over' = Over
<1>1. ~(a > confirmed)
  BY DEF CommandsTyped
<1>2. CommandsTyped'
  BY <1>1 DEF CommandsTyped, Moves, Changes
<1>3. Over' = Over
  BY DEF Over, Moves, Changes
<1> QED BY <1>2, <1>3

LEMMA GotoTyped ==
  ASSUME CommandsTyped, NEW a \in Changes, apply[a].pc \notin {"none", "over"},
         NEW pc \in Stages \ {"over"}, Goto(a, pc) \/ Fail(a, pc), UNCHANGED confirmed
  PROVE  CommandsTyped' /\ Over' = Over
<1>1. CASE Goto(a, pc)
  <2>1. Moves(a, pc, apply[a].old, apply[a].err)
    BY <1>1 DEF Goto, Moves, CommandsTyped, ApplyFields
  <2> QED BY <2>1, CommandMoves DEF CommandsTyped
<1>2. CASE Fail(a, pc)
  <2>1. Moves(a, pc, apply[a].old, TRUE)
    BY <1>2 DEF Fail, Moves, CommandsTyped, ApplyFields
  <2> QED BY <2>1, CommandMoves DEF CommandsTyped
<1> QED BY <1>1, <1>2

----------------------------------------------------------------------------
(* A step of ApplyHBAContent changes the server and its own command.       *)

\* The frame of all of them but HbaApplyMsg.
LEMMA StatementTyped ==
  ASSUME TypeInv, UNCHANGED others, ServerTyped', CommandsTyped', HistoryTyped', Over' = Over
  PROVE  TypeInv'
BY ViewStays, DialogStays, LoadsStay DEF TypeInv, others, past

\* Every statement works, fails, or tears its own change.
LEMMA StatementEnds ==
  ASSUME TypeInv, NEW a \in Changes, Applying(a), ~HbaApplyMsg(a)
  PROVE  HistoryTyped'
<1>1. Outcome(a) /\ UNCHANGED past
  BY DEF Applying, Outcome, ReadOld, WriteBackup, WriteNew, CheckRules, Reload, VerifyLogin,
         RestoreOld, ReloadOld, others
<1>2. torn' \subseteq Changes
  BY <1>1 DEF Outcome, Works, Fails, Tears, failed, TypeInv, HistoryTyped
<1> QED BY <1>1, <1>2 DEF TypeInv, HistoryTyped, past, Changes

LEMMA TornTyped == ASSUME NEW f \in Files, NEW g \in Files PROVE Torn(f, g) \subseteq Files
BY DEF Torn, Files

LEMMA ApplyingTyped ==
  ASSUME TypeInv, NEW a \in Changes, Applying(a), ~HbaApplyMsg(a)
  PROVE  TypeInv'
<1>1. /\ ServerTyped /\ CommandsTyped
      /\ file \in Files /\ conf \in Files /\ bak \in Files
      /\ apply[a].new \in Files /\ apply[a].old \in Files /\ apply[a].err \in BOOLEAN
      /\ HistoryTyped'
  BY StatementEnds DEF TypeInv, ServerTyped, CommandsTyped
<1>2. Reloaded \in Files
  BY <1>1 DEF Reloaded
<1>3. CASE ReadOld(a)
  <2>1. apply[a].pc = "read" /\ UNCHANGED <<server, others>> /\ UNCHANGED confirmed
    BY <1>3 DEF ReadOld, others, past
  <2>2. CommandsTyped' /\ Over' = Over
    <3>1. CASE apply' = [apply EXCEPT ![a].pc = "backup", ![a].old = file]
      <4>1. Moves(a, "backup", file, apply[a].err)
        BY <1>1, <3>1 DEF Moves, CommandsTyped, ApplyFields
      <4> QED BY <1>1, <2>1, <4>1, CommandMoves DEF Stages
    <3>2. CASE Fail(a, "sent")
      BY <1>1, <2>1, <3>2, GotoTyped DEF Stages
    <3> QED BY <1>3, <3>1, <3>2 DEF ReadOld
  <2> QED BY <1>1, <2>1, <2>2, ServerStays, StatementTyped
<1>4. CASE WriteBackup(a)
  <2>1. /\ apply[a].pc = "backup" /\ UNCHANGED <<file, conf>> /\ UNCHANGED others
        /\ UNCHANGED confirmed
    BY <1>4 DEF WriteBackup, others, past
  <2>2. bak' \in Torn(bak, apply[a].old) /\ (Goto(a, "write") \/ Fail(a, "sent"))
    BY <1>4 DEF WriteBackup, BackupOf, Torn
  <2>3. ServerTyped'
    BY <1>1, <2>1, <2>2, TornTyped DEF ServerTyped
  <2>4. CommandsTyped' /\ Over' = Over
    <3>1. CASE Goto(a, "write")
      BY <1>1, <2>1, <3>1, GotoTyped DEF Stages
    <3>2. CASE Fail(a, "sent")
      BY <1>1, <2>1, <3>2, GotoTyped DEF Stages
    <3> QED BY <2>2, <3>1, <3>2
  <2> QED BY <1>1, <2>1, <2>3, <2>4, StatementTyped
<1>5. CASE WriteNew(a)
  <2>1. /\ apply[a].pc = "write" /\ UNCHANGED <<conf, bak>> /\ UNCHANGED others
        /\ UNCHANGED confirmed
    BY <1>5 DEF WriteNew, others, past
  <2>2. file' \in Torn(file, apply[a].new) /\ (Goto(a, "check") \/ Fail(a, "sent"))
    BY <1>5 DEF WriteNew, Torn
  <2>3. ServerTyped'
    BY <1>1, <2>1, <2>2, TornTyped DEF ServerTyped
  <2>4. CommandsTyped' /\ Over' = Over
    <3>1. CASE Goto(a, "check")
      BY <1>1, <2>1, <3>1, GotoTyped DEF Stages
    <3>2. CASE Fail(a, "sent")
      BY <1>1, <2>1, <3>2, GotoTyped DEF Stages
    <3> QED BY <2>2, <3>1, <3>2
  <2> QED BY <1>1, <2>1, <2>3, <2>4, StatementTyped
<1>6. CASE CheckRules(a)
  <2>1. apply[a].pc = "check" /\ UNCHANGED <<server, others>> /\ UNCHANGED confirmed
    BY <1>6 DEF CheckRules, others, past
  <2>2. CommandsTyped' /\ Over' = Over
    <3>1. CASE Goto(a, "reload")
      BY <1>1, <2>1, <3>1, GotoTyped DEF Stages
    <3>2. CASE Fail(a, "undo")
      BY <1>1, <2>1, <3>2, GotoTyped DEF Stages
    <3> QED BY <1>6, <3>1, <3>2 DEF CheckRules, Undo
  <2> QED BY <1>1, <2>1, <2>2, ServerStays, StatementTyped
<1>7. CASE Reload(a)
  <2>1. /\ apply[a].pc = "reload" /\ UNCHANGED <<file, bak>> /\ UNCHANGED others
        /\ UNCHANGED confirmed
    BY <1>7 DEF Reload, others, past
  <2>2. conf' \in {conf, Reloaded} /\ (Goto(a, "verify") \/ Fail(a, "undo"))
    BY <1>7 DEF Reload, Undo
  <2>3. ServerTyped'
    BY <1>1, <1>2, <2>1, <2>2 DEF ServerTyped
  <2>4. CommandsTyped' /\ Over' = Over
    <3>1. CASE Goto(a, "verify")
      BY <1>1, <2>1, <3>1, GotoTyped DEF Stages
    <3>2. CASE Fail(a, "undo")
      BY <1>1, <2>1, <3>2, GotoTyped DEF Stages
    <3> QED BY <2>2, <3>1, <3>2
  <2> QED BY <1>1, <2>1, <2>3, <2>4, StatementTyped
<1>8. CASE VerifyLogin(a)
  <2>1. apply[a].pc = "verify" /\ UNCHANGED <<server, others>> /\ UNCHANGED confirmed
    BY <1>8 DEF VerifyLogin, others, past
  <2>2. CommandsTyped' /\ Over' = Over
    <3>1. CASE Goto(a, "sent")
      BY <1>1, <2>1, <3>1, GotoTyped DEF Stages
    <3>2. CASE Fail(a, "undo")
      BY <1>1, <2>1, <3>2, GotoTyped DEF Stages
    <3> QED BY <1>8, <3>1, <3>2 DEF VerifyLogin, Undo
  <2> QED BY <1>1, <2>1, <2>2, ServerStays, StatementTyped
<1>9. CASE RestoreOld(a)
  <2>1. /\ apply[a].pc = "undo" /\ UNCHANGED <<conf, bak>> /\ UNCHANGED others
        /\ UNCHANGED confirmed /\ Goto(a, "reundo") /\ file' \in Torn(file, apply[a].old)
    BY <1>9 DEF RestoreOld, others, past, Torn
  <2>2. ServerTyped'
    BY <1>1, <2>1, TornTyped DEF ServerTyped
  <2>3. CommandsTyped' /\ Over' = Over
    BY <1>1, <2>1, GotoTyped DEF Stages
  <2> QED BY <1>1, <2>1, <2>2, <2>3, StatementTyped
<1>10. CASE ReloadOld(a)
  <2>1. /\ apply[a].pc = "reundo" /\ UNCHANGED <<file, bak>> /\ UNCHANGED others
        /\ UNCHANGED confirmed /\ Goto(a, "sent") /\ conf' \in {conf, Reloaded}
    BY <1>10 DEF ReloadOld, others, past
  <2>2. ServerTyped'
    BY <1>1, <1>2, <2>1 DEF ServerTyped
  <2>3. CommandsTyped' /\ Over' = Over
    BY <1>1, <2>1, GotoTyped DEF Stages
  <2> QED BY <1>1, <2>1, <2>2, <2>3, StatementTyped
<1> QED BY <1>3, <1>4, <1>5, <1>6, <1>7, <1>8, <1>9, <1>10 DEF Applying

\* The answer: the change is over, so the load it may start has its number.
LEMMA AnswerTyped ==
  ASSUME TypeInv, NEW a \in Changes, HbaApplyMsg(a)
  PROVE  TypeInv'
<1>1. /\ apply[a].pc = "sent" /\ apply' = [apply EXCEPT ![a] = NoApply("over")]
      /\ UNCHANGED <<server, view, dialog, confirmed, asked>> /\ HistoryTyped'
      /\ alert' \in {TRUE, alert}
      /\ loads' = loads \/ loads' = loads \union {NewLoad}
  BY DEF HbaApplyMsg, past, failed, TypeInv, HistoryTyped, Changes
<1>2. CommandsTyped'
  <2> DEFINE cmd == NoApply("over")
  <2>1. /\ DOMAIN cmd = ApplyFields /\ cmd.pc = "over" /\ cmd.new \in Files
        /\ cmd.old \in Files /\ cmd.err \in BOOLEAN /\ cmd.was \in Found
    BY DEF NoApply, Command, ApplyFields, Files, Found
  <2>2. /\ DOMAIN apply' = Changes /\ apply'[a] = cmd
        /\ \A b \in Changes \ {a} : apply'[b] = apply[b]
    BY <1>1 DEF TypeInv, CommandsTyped
  <2>3. ~(a > confirmed) /\ confirmed' = confirmed
    BY <1>1 DEF TypeInv, CommandsTyped
  <2> HIDE DEF cmd
  <2> QED BY <2>1, <2>2, <2>3 DEF TypeInv, CommandsTyped, Stages, Changes
<1>3. Over' = Over \union {a} /\ a \notin Over
  BY <1>1 DEF TypeInv, CommandsTyped, Over, NoApply, Command, Changes
<1>4. Cardinality(Over') = Cardinality(Over) + 1
  <2>1. IsFiniteSet(Over)
    BY OversCounted DEF TypeInv
  <2> QED BY <1>3, <2>1, FS_AddElement
<1>5. /\ Cardinality(Over) \in Nat /\ Cardinality(Over) < MaxChanges /\ asked \in 0 .. MaxLoads
      /\ Cardinality(loads) \in Nat /\ Cardinality(loads) <= asked + 1 + Cardinality(Over)
  BY <1>3, OversCounted, FS_CardinalityType, HbaConstants
  DEF TypeInv, HistoryTyped, LoadsTyped, FewLoads
<1>6. LoadsTyped' /\ FewLoads'
  <2>1. CASE loads' = loads
    BY <1>1, <1>4, <1>5, <2>1, HbaConstants DEF TypeInv, LoadsTyped, FewLoads
  <2>2. CASE loads' = loads \union {NewLoad}
    <3>1. Cardinality(loads) <= MaxLoads + MaxChanges
      BY <1>5, HbaConstants
    <3>2. LoadsTyped' /\ Cardinality(loads') <= Cardinality(loads) + 1
      BY <2>2, <3>1, LoadAdded DEF TypeInv
    <3>3. Cardinality(loads') \in Nat
      BY <3>2, FS_CardinalityType DEF LoadsTyped
    <3> QED BY <1>1, <1>4, <1>5, <3>2, <3>3, HbaConstants DEF FewLoads
  <2> QED BY <1>1, <2>1, <2>2
<1>7. DialogTyped'
  BY <1>1 DEF TypeInv, DialogTyped, dialog
<1> QED BY <1>1, <1>2, <1>6, <1>7, ServerStays, ViewStays DEF TypeInv

----------------------------------------------------------------------------
(* loadHBA and hbaMsg.                                                     *)

LEMMA LoadingTyped ==
  ASSUME TypeInv, NEW l \in loads, Loading(l)
  PROVE  TypeInv'
<1>1. /\ l \in Loaded /\ file \in Files /\ RulesOf(file) \in Seq(RuleRows)
  BY RulesTyped DEF TypeInv, LoadsTyped, ServerTyped
<1>2. /\ UNCHANGED <<server, dialog, alert, apply, confirmed, asked>> /\ HistoryTyped'
  <2>1. UNCHANGED <<server, dialog, alert, apply, past, torn>>
    BY DEF Loading, ReadContent, ReadRules, HbaMsg, Works, Fails, failed
  <2> QED BY <2>1 DEF TypeInv, HistoryTyped, past, Changes
<1>3. ServerTyped' /\ DialogTyped' /\ CommandsTyped' /\ Over' = Over
  BY <1>2, ServerStays, DialogStays, CommandsStay DEF TypeInv
<1>4. SUFFICES ViewTyped' /\ LoadsTyped' /\ Cardinality(loads') <= Cardinality(loads)
  BY <1>2, <1>3, FewLoadsStays DEF TypeInv
<1>5. CASE ReadContent(l)
  <2>1. UNCHANGED view
    BY <1>5 DEF ReadContent
  <2>2. \E x \in Loaded : loads' = (loads \ {l}) \union {x}
    <3>1. /\ [l EXCEPT !.at = "rules", !.content = file, !.writable = TRUE] \in Loaded
          /\ \A w \in BOOLEAN : [l EXCEPT !.at = "rules", !.writable = w] \in Loaded
          /\ [l EXCEPT !.at = "sent"] \in Loaded
      BY <1>1 DEF Loaded
    <3> QED BY <1>5, <3>1 DEF ReadContent
  <2> QED BY <2>1, <2>2, LoadReplaced, ViewStays DEF TypeInv
<1>6. CASE ReadRules(l)
  <2>1. UNCHANGED view
    BY <1>6 DEF ReadRules
  <2>2. \E x \in Loaded : loads' = (loads \ {l}) \union {x}
    <3>1. /\ [l EXCEPT !.at = "sent", !.rules = RulesOf(file), !.ok = TRUE] \in Loaded
          /\ [l EXCEPT !.at = "sent"] \in Loaded
      BY <1>1 DEF Loaded
    <3> QED BY <1>6, <3>1 DEF ReadRules
  <2> QED BY <2>1, <2>2, LoadReplaced, ViewStays DEF TypeInv
<1>7. CASE HbaMsg(l)
  <2>1. ViewTyped'
    BY <1>1, <1>7 DEF HbaMsg, TypeInv, ViewTyped, Loaded
  <2>2. loads' = loads \ {l}
    BY <1>7 DEF HbaMsg
  <2> QED BY <2>1, <2>2, LoadTaken DEF TypeInv
<1> QED BY <1>5, <1>6, <1>7 DEF Loading

----------------------------------------------------------------------------
(* Keys.                                                                   *)

\* The frame of the keys of the form and of the confirmation.
LEMMA DialogMoves ==
  ASSUME TypeInv, DialogTyped', UNCHANGED <<server, view, loads, apply, past, failed>>
  PROVE  TypeInv'
<1>1. HistoryTyped' /\ UNCHANGED <<asked, confirmed>>
  BY DEF TypeInv, HistoryTyped, past, failed, Changes
<1> QED BY <1>1, ServerStays, ViewStays, CommandsStay, LoadsStay DEF TypeInv

LEMMA RowTyped ==
  ASSUME ViewTyped, NEW i \in DOMAIN rules
  PROVE  rules[i].line \in Nat \ {0} /\ content \in Files
<1>1. rules[i] \in RuleRows
  BY DEF ViewTyped
<1> QED BY <1>1 DEF RuleRows, ViewTyped

LEMMA KeysTyped == ASSUME TypeInv, Keys PROVE TypeInv'
<1>1. CASE Refresh
  <2>1. /\ UNCHANGED <<server, view, dialog, alert, apply, confirmed, mixed, failed>>
        /\ asked < MaxLoads /\ asked' = asked + 1 /\ loads' = loads \union {NewLoad}
    BY <1>1 DEF Refresh
  <2>2. /\ ServerTyped' /\ ViewTyped' /\ DialogTyped' /\ CommandsTyped' /\ Over' = Over
        /\ HistoryTyped'
    BY <2>1, ServerStays, ViewStays, DialogStays, CommandsStay, HbaConstants
    DEF TypeInv, HistoryTyped, failed, Changes
  <2>3. /\ Cardinality(loads) \in Nat /\ Cardinality(Over) \in 0 .. MaxChanges
        /\ Cardinality(Over') = Cardinality(Over)
    BY <2>2, FS_CardinalityType, OversCounted DEF TypeInv, LoadsTyped
  <2>4. LoadsTyped' /\ Cardinality(loads') <= Cardinality(loads) + 1
    <3>1. Cardinality(loads) <= MaxLoads + MaxChanges
      BY <2>1, <2>3, HbaConstants DEF TypeInv, HistoryTyped, FewLoads
    <3> QED BY <2>1, <3>1, LoadAdded DEF TypeInv
  <2>5. Cardinality(loads') \in Nat
    BY <2>4, FS_CardinalityType DEF LoadsTyped
  <2>6. FewLoads'
    BY <2>1, <2>3, <2>4, <2>5 DEF TypeInv, HistoryTyped, FewLoads
  <2> QED BY <2>2, <2>4, <2>6 DEF TypeInv
<1>2. CASE OpenAdd
  <2>1. DialogTyped'
    BY <1>2 DEF OpenAdd, TypeInv, DialogTyped
  <2> QED BY <1>2, <2>1, DialogMoves DEF OpenAdd
<1>3. CASE Dismiss
  <2>1. DialogTyped'
    BY <1>3 DEF Dismiss, Forget, TypeInv, DialogTyped, Files
  <2> QED BY <1>3, <2>1, DialogMoves DEF Dismiss
<1>4. CASE CloseAlert
  <2>1. DialogTyped'
    BY <1>4 DEF CloseAlert, dialog, TypeInv, DialogTyped
  <2> QED BY <1>4, <2>1, DialogMoves DEF CloseAlert
<1>5. ASSUME NEW i \in DOMAIN rules, OpenEdit(i) PROVE TypeInv'
  <2>1. DialogTyped'
    BY <1>5, RowTyped DEF OpenEdit, TypeInv, DialogTyped
  <2> QED BY <1>5, <2>1, DialogMoves DEF OpenEdit
<1>6. ASSUME NEW i \in DOMAIN rules, AskDelete(i) PROVE TypeInv'
  <2>1. pending' \in Files
    BY <1>6, RowTyped, DeletedIsFile DEF AskDelete, TypeInv
  <2>2. DialogTyped'
    BY <1>6, <2>1 DEF AskDelete, TypeInv, DialogTyped
  <2> QED BY <1>6, <2>2, DialogMoves DEF AskDelete
<1>7. ASSUME NEW l \in FormLines, SubmitForm(l) PROVE TypeInv'
  <2>1. l \in Lines /\ content \in Files /\ editLine \in Nat
    BY HbaConstants DEF TypeInv, ViewTyped, DialogTyped
  <2>2. pending' \in Files
    BY <1>7, <2>1, ChangedIsFile DEF SubmitForm, HBAAppendLine, Files
  <2>3. DialogTyped'
    BY <1>7, <2>2 DEF SubmitForm, TypeInv, DialogTyped
  <2> QED BY <1>7, <2>3, DialogMoves DEF SubmitForm
<1>8. CASE Confirm
  <2> DEFINE n == confirmed + 1
             cmd == Command("read", pending, wish, [file |-> file, conf |-> conf])
  <2>1. /\ confirmed < MaxChanges /\ confirmed' = n /\ apply' = [apply EXCEPT ![n] = cmd]
        /\ mixed' \subseteq mixed \union Running \union {n}
        /\ Forget /\ UNCHANGED <<server, view, alert, loads, asked, torn>>
    BY <1>8 DEF Confirm, MoreToCome, failed
  <2>2. n \in Changes /\ n > confirmed /\ n \in 0 .. MaxChanges
    BY <2>1, HbaConstants DEF TypeInv, CommandsTyped, Changes
  <2>3. apply[n].pc = "none" /\ DOMAIN apply = Changes
    BY <2>2 DEF TypeInv, CommandsTyped
  <2>4. /\ DOMAIN cmd = ApplyFields /\ cmd.pc = "read" /\ cmd.new \in Files
        /\ cmd.old \in Files /\ cmd.err \in BOOLEAN /\ cmd.was \in Found
    BY DEF Command, ApplyFields, TypeInv, ServerTyped, DialogTyped, Files, Found
  <2>5. /\ DOMAIN apply' = Changes /\ apply'[n] = cmd
        /\ \A b \in Changes \ {n} : apply'[b] = apply[b]
    BY <2>1, <2>2, <2>3
  <2> HIDE DEF cmd
  <2>6. CommandsTyped'
    <3> SUFFICES ASSUME NEW b \in Changes
                 PROVE  /\ DOMAIN apply'[b] = ApplyFields /\ apply'[b].pc \in Stages
                        /\ apply'[b].new \in Files /\ apply'[b].old \in Files
                        /\ apply'[b].err \in BOOLEAN /\ apply'[b].was \in Found
                        /\ b > n => apply'[b].pc = "none"
      BY <2>1, <2>2, <2>5 DEF CommandsTyped, Changes
    <3>1. CASE b = n
      BY <2>2, <2>4, <2>5, <3>1 DEF Stages, Changes
    <3>2. CASE b # n
      BY <2>2, <2>5, <3>2 DEF TypeInv, CommandsTyped, Changes
    <3> QED BY <3>1, <3>2
  <2>7. Over' = Over
    BY <2>3, <2>4, <2>5 DEF Over, Changes
  <2>8. DialogTyped' /\ HistoryTyped'
    BY <2>1, <2>2 DEF Forget, TypeInv, DialogTyped, HistoryTyped, Running, Files, Changes
  <2> QED BY <2>1, <2>6, <2>7, <2>8, ServerStays, ViewStays, LoadsStay DEF TypeInv
<1> QED BY <1>1, <1>2, <1>3, <1>4, <1>5, <1>6, <1>7, <1>8 DEF Keys

----------------------------------------------------------------------------
LEMMA TypesStart == Init => TypeInv
<1> SUFFICES ASSUME Init PROVE TypeInv
  OBVIOUS
<1>1. ServerTyped /\ ViewTyped /\ DialogTyped
  <2>1. <<>> \in Files /\ <<>> \in Seq(RuleRows)
    BY DEF Files
  <2> QED BY <2>1, HbaConstants DEF Init, ServerTyped, ViewTyped, DialogTyped
<1>2. CommandsTyped
  <2> DEFINE cmd == NoApply("none")
  <2>1. /\ DOMAIN cmd = ApplyFields /\ cmd.pc = "none" /\ cmd.new \in Files
        /\ cmd.old \in Files /\ cmd.err \in BOOLEAN /\ cmd.was \in Found
    BY DEF NoApply, Command, ApplyFields, Files, Found
  <2>2. DOMAIN apply = Changes /\ \A a \in Changes : apply[a] = cmd
    BY DEF Init
  <2>3. confirmed \in 0 .. MaxChanges
    BY HbaConstants DEF Init
  <2> HIDE DEF cmd
  <2> QED BY <2>1, <2>2, <2>3 DEF CommandsTyped, Stages
<1>3. 1 \in LoadIds
  BY HbaConstants DEF LoadIds
<1>4. LoadsTyped /\ Cardinality(loads) = 1
  BY <1>3, FirstReadTyped, FS_Singleton DEF Init, LoadsTyped
<1>5. HistoryTyped
  BY HbaConstants DEF Init, HistoryTyped
<1>6. FewLoads
  BY <1>2, <1>4, OversCounted DEF Init, FewLoads
<1> QED BY <1>1, <1>2, <1>4, <1>5, <1>6 DEF TypeInv

LEMMA TypesStep == TypeInv /\ [Next]_vars => TypeInv'
<1> SUFFICES ASSUME TypeInv, [Next]_vars PROVE TypeInv'
  OBVIOUS
<1>1. ASSUME NEW a \in Changes, Applying(a) PROVE TypeInv'
  BY <1>1, ApplyingTyped, AnswerTyped
<1>2. CASE UNCHANGED vars
  BY <1>2, DialogMoves, DialogStays DEF vars, TypeInv
<1> QED BY <1>1, <1>2, LoadingTyped, KeysTyped DEF Next

\* The editor's state has its types, and a load on its way its number: the line operations of
\* hba.go make files of files, and what OpenEdit and AskDelete take for a line number is one.
THEOREM TypesOfTheEditor == Spec => []TypeOK
<1>1. TypeInv => TypeOK
  BY DEF TypeInv, ServerTyped, ViewTyped, DialogTyped, CommandsTyped, LoadsTyped, Loaded,
         HistoryTyped,
         Found, Stages, TypeOK
<1> QED BY <1>1, TypesStart, TypesStep, PTL DEF Spec
=============================================================================
