----------------------------- MODULE HbaEditor -----------------------------
(***************************************************************************)
(* Editing pg_hba.conf: the pg_hba section of the Tuning tab, the          *)
(* goroutines that read the file (loadHBA) and rewrite it                  *)
(* (ApplyHBAContent), and the server's file and loaded rules.              *)
(*                                                                         *)
(* A file is a sequence of lines.  What a line does is all that matters:   *)
(* it is a comment, it does not parse, it lets the administrator in, it    *)
(* turns the administrator away, or it is about somebody else.             *)
(* Left out: the text of rules and the end of the last line, so that line  *)
(* Len + 1, which strings.Split finds after a final newline, is in range.  *)
(***************************************************************************)
EXTENDS Naturals, Sequences, Lists

CONSTANTS
  Lines, Comments, Broken, Admitting, Refusing,
  StartFiles,   \* what pg_hba.conf may hold at first
  FormLines,    \* the rules a user may type
  MaxChanges,   \* bound on confirmed changes
  MaxLoads,     \* bound on loads that a key asks for
  MaxFaults,    \* bound on statements that fail once the session is open
  MaxEvents     \* bound on all three together

Files == Seq(Lines)
Parses(f) == \A i \in DOMAIN f : f[i] \notin Broken

\* The first line about the administrator decides.
Admits(f) ==
  \E i \in DOMAIN f : f[i] \in Admitting /\ \A j \in 1 .. i - 1 : f[j] \notin Refusing

ASSUME HbaConstants ==
  /\ Comments \subseteq Lines /\ Broken \subseteq Lines
  /\ Admitting \subseteq Lines /\ Refusing \subseteq Lines
  /\ FormLines \subseteq Lines \ Comments
  /\ StartFiles \subseteq Files
  /\ \A f \in StartFiles : Parses(f) /\ Admits(f)
  /\ MaxChanges \in Nat \ {0} /\ MaxLoads \in Nat
  /\ MaxFaults \in Nat /\ MaxEvents \in Nat

VARIABLES
  file,      \* pg_hba.conf on the server
  conf,      \* the rules the server uses, as the file they came from
  bak,       \* the file pg_hba.conf.pgtower.bak
  content,   \* tuningView.hbaContent
  rules,     \* tuningView.hbaRules: the line number and the line of each rule
  writable,  \* tuningView.hbaWritable
  modal,     \* which of hbaForm, hbaConfirm is active, "none" when neither
  alert,     \* tuningView.hbaAlert.active
  editLine,  \* tuningView.hbaEditLine
  pending,   \* tuningView.hbaPending
  wish,      \* history: the change the user is asking for
  loads,     \* loadHBA goroutines and their messages
  apply,     \* per confirmed change: ApplyHBAContent and its message
  confirmed, \* number of changes confirmed
  faults,    \* number of statements that failed
  asked,     \* number of loads that a key asked for
  mixed,     \* history: the changes that ran while another one did
  torn       \* history: those whose write of pg_hba.conf or way back failed

server == <<file, conf, bak>>
view == <<content, rules, writable>>
dialog == <<modal, editLine, pending, wish>>
failed == <<faults, torn>>
past == <<confirmed, asked, mixed>>
vars == <<server, view, dialog, alert, loads, apply, past, failed>>

Changes == 1 .. MaxChanges
Add(l) == [kind |-> "add", was |-> l, line |-> l]
Edit(w, l) == [kind |-> "edit", was |-> w, line |-> l]
Delete(w) == [kind |-> "delete", was |-> w, line |-> w]
NoWish == [kind |-> "none"]
Command(pc, new, w, was) ==
  [pc |-> pc, new |-> new, old |-> <<>>, err |-> FALSE, wish |-> w, was |-> was]
NoApply(pc) == Command(pc, <<>>, NoWish, [file |-> <<>>, conf |-> <<>>])

\* pg_hba_file_rules: a row per line that is not a comment.
RulesOf(f) ==
  Only([i \in DOMAIN f |-> [line |-> i, val |-> f[i]]], [line : Nat, val : Lines \ Comments])

----------------------------------------------------------------------------
(* The line operations of hba.go.                                          *)

\* As if the file were not made to end with a newline first.
AppendToLastLine(f, l) == [f EXCEPT ![Len(f)] = <<@, l>>]

HBAAppendLine(f, l) == Append(f, l)

InRange(f, n) == n \in 1 .. Len(f) + 1
HBAReplaceLine(f, n, l) == IF n <= Len(f) THEN [f EXCEPT ![n] = l] ELSE Append(f, l)
HBADeleteLine(f, n) ==
  IF n <= Len(f) THEN SubSeq(f, 1, n - 1) \o SubSeq(f, n + 1, Len(f)) ELSE f

\* The files that have exactly the change the user asked for.
Wished(f, w) ==
  CASE w.kind = "add" -> {Append(f, w.line)}
    [] w.kind = "edit" -> {[f EXCEPT ![i] = w.line] : i \in {j \in DOMAIN f : f[j] = w.was}}
    [] w.kind = "delete" -> {HBADeleteLine(f, i) : i \in {j \in DOMAIN f : f[j] = w.was}}

----------------------------------------------------------------------------
(* loadHBA: the content and the rules are read one after the other, and an  *)
(* error of the first read is ignored.                                      *)

LoadIds == 1 .. MaxLoads + MaxChanges + 1
FreeId == CHOOSE i \in LoadIds : (\A l \in loads : l.id # i)
FirstRead(i) == [id |-> i, at |-> "content", content |-> <<>>, rules |-> <<>>,
                 writable |-> FALSE, ok |-> FALSE]
NewLoad == FirstRead(FreeId)

\* A statement works, or is one of those that fail.
Works == UNCHANGED failed
AFault == faults < MaxFaults /\ confirmed + asked + faults < MaxEvents /\ faults' = faults + 1
Fails == AFault /\ UNCHANGED torn

\* A statement of the change a that leaves the server otherwise than the program thinks.
Tears(a) == AFault /\ torn' = torn \union {a}

ReadContent(l) ==
  /\ l \in loads /\ l.at = "content"
  /\ \/ /\ Works
        /\ loads' = (loads \ {l}) \union
             {[l EXCEPT !.at = "rules", !.content = file, !.writable = TRUE]}
     \/ /\ Fails
        /\ \E w \in BOOLEAN :
             loads' = (loads \ {l}) \union {[l EXCEPT !.at = "rules", !.writable = w]}
     \/ Fails /\ loads' = (loads \ {l}) \union {[l EXCEPT !.at = "sent"]}
  /\ UNCHANGED <<server, view, dialog, alert, apply, past>>

ReadRules(l) ==
  /\ l \in loads /\ l.at = "rules"
  /\ \/ Works /\ loads' = (loads \ {l}) \union
           {[l EXCEPT !.at = "sent", !.rules = RulesOf(file), !.ok = TRUE]}
     \/ Fails /\ loads' = (loads \ {l}) \union {[l EXCEPT !.at = "sent"]}
  /\ UNCHANGED <<server, view, dialog, alert, apply, past>>

\* hbaMsg: the content is taken even when the rules could not be read.
HbaMsg(l) ==
  /\ l \in loads /\ l.at = "sent"
  /\ content' = l.content /\ writable' = l.writable
  /\ rules' = IF l.ok THEN l.rules ELSE rules
  /\ loads' = loads \ {l}
  /\ UNCHANGED <<server, dialog, alert, apply, past, failed>>

----------------------------------------------------------------------------
(* Keys of the pg_hba section.  The alert has the first claim on them.      *)

Idle == ~alert /\ modal = "none"

\* The bound on changes: after the last one the user asks for nothing more.
MoreToCome == confirmed < MaxChanges /\ confirmed + asked + faults < MaxEvents
Running == {a \in Changes : apply[a].pc \notin {"none", "over"}}

\* The line and the new file are not read again before they are set again.
Forget == modal' = "none" /\ editLine' = 0 /\ pending' = <<>> /\ wish' = NoWish

\* r, or a switch to the tab.
Refresh ==
  /\ Idle
  /\ MoreToCome /\ asked < MaxLoads /\ asked' = asked + 1
  /\ loads' = loads \union {NewLoad}
  /\ UNCHANGED <<server, view, dialog, alert, apply, confirmed, mixed, failed>>

OpenAdd ==
  /\ Idle /\ MoreToCome /\ writable
  /\ modal' = "form" /\ editLine' = 0
  /\ wish' = [kind |-> "add"]
  /\ UNCHANGED <<server, view, pending, alert, loads, apply, past, failed>>

OpenEdit(i) ==
  /\ Idle /\ MoreToCome /\ writable /\ i \in DOMAIN rules
  /\ modal' = "form" /\ editLine' = rules[i].line
  /\ wish' = [kind |-> "edit", was |-> rules[i].val]
  /\ UNCHANGED <<server, view, pending, alert, loads, apply, past, failed>>

\* The new file is built from the content held now; a line that is out of range
\* is an error of the form.
SubmitForm(l) ==
  /\ ~alert /\ modal = "form"
  /\ editLine = 0 \/ InRange(content, editLine)
  /\ pending' = IF editLine = 0 THEN HBAAppendLine(content, l)
                ELSE HBAReplaceLine(content, editLine, l)
  /\ wish' = IF editLine = 0 THEN Add(l) ELSE Edit(wish.was, l)
  /\ modal' = "confirm" /\ editLine' = 0
  /\ UNCHANGED <<server, view, alert, loads, apply, past, failed>>

AskDelete(i) ==
  /\ Idle /\ MoreToCome /\ writable /\ i \in DOMAIN rules
  /\ InRange(content, rules[i].line)
  /\ pending' = HBADeleteLine(content, rules[i].line)
  /\ wish' = Delete(rules[i].val)
  /\ modal' = "confirm"
  /\ UNCHANGED <<server, view, editLine, alert, loads, apply, past, failed>>

\* esc in the form, n or esc in the confirmation.
Dismiss ==
  /\ ~alert /\ modal # "none"
  /\ Forget
  /\ UNCHANGED <<server, view, alert, loads, apply, past, failed>>

\* Nothing asks whether an earlier change is still being applied.
Confirm ==
  /\ ~alert /\ modal = "confirm"
  /\ MoreToCome /\ confirmed' = confirmed + 1
  /\ apply' = [apply EXCEPT ![confirmed'] =
                 Command("read", pending, wish, [file |-> file, conf |-> conf])]
  /\ mixed' = IF Running = {} THEN mixed ELSE mixed \union Running \union {confirmed'}
  /\ Forget
  /\ UNCHANGED <<server, view, alert, loads, asked, failed>>

CloseAlert ==
  /\ alert /\ alert' = FALSE
  /\ UNCHANGED <<server, view, dialog, loads, apply, past, failed>>

----------------------------------------------------------------------------
(* ApplyHBAContent, one statement at a time.                               *)

Goto(a, pc) == apply' = [apply EXCEPT ![a].pc = pc]
Fail(a, pc) == apply' = [apply EXCEPT ![a].pc = pc, ![a].err = TRUE]
others == <<view, dialog, alert, loads, past>>

\* What COPY TO PROGRAM may leave when it fails: the shell truncates the file
\* first, and the error may come after the last byte.
Torn(f, new) == {f, <<>>, new}

\* As if an error of a statement after the write were just returned.
NoUndo == "sent"

\* Where such an error leads.
Undo == "undo"

\* The pool, the path and the present content.
ReadOld(a) ==
  /\ apply[a].pc = "read"
  /\ \/ Works /\ apply' = [apply EXCEPT ![a].pc = "backup", ![a].old = file]
     \/ Fails /\ Fail(a, "sent")
  /\ UNCHANGED <<server, others>>

\* As if the backup were taken from the new content.
BackupOfNew(a) == apply[a].new

BackupOf(a) == apply[a].old

WriteBackup(a) ==
  /\ apply[a].pc = "backup"
  /\ \/ Works /\ bak' = BackupOf(a) /\ Goto(a, "write")
     \/ Fails /\ bak' \in Torn(bak, BackupOf(a)) /\ Fail(a, "sent")
  /\ UNCHANGED <<file, conf, others>>

\* An error of the write is returned as it is: nothing is restored.
WriteNew(a) ==
  /\ apply[a].pc = "write"
  /\ \/ Works /\ file' = apply[a].new /\ Goto(a, "check")
     \/ Tears(a) /\ file' \in Torn(file, apply[a].new) /\ Fail(a, "sent")
  /\ UNCHANGED <<conf, bak, others>>

\* As if the rules were not looked at.
SkipCheck(a) == TRUE

RulesParse(a) == Parses(file)

CheckRules(a) ==
  /\ apply[a].pc = "check"
  /\ \/ Works /\ RulesParse(a) /\ Goto(a, "reload")
     \/ Works /\ ~RulesParse(a) /\ Fail(a, "undo")
     \/ Fails /\ Fail(a, Undo)
  /\ UNCHANGED <<server, others>>

\* The server keeps its rules when the file does not parse.
Reloaded == IF Parses(file) THEN file ELSE conf

Reload(a) ==
  /\ apply[a].pc = "reload"
  /\ \/ Works /\ conf' = Reloaded /\ Goto(a, "verify")
     \/ Fails /\ conf' \in {conf, Reloaded} /\ Fail(a, Undo)
  /\ UNCHANGED <<file, bak, others>>

\* As if the login were checked with a connection that is open already.
NoFreshLogin == TRUE

LoginWorks == Admits(conf)

\* As if a login that fails were tried again.
VerifyLoginAgain(a) ==
  /\ apply[a].pc = "verify"
  /\ LoginWorks /\ Goto(a, "sent")
  /\ UNCHANGED <<server, others, failed>>

\* A new connection, authenticated by the rules in use.
VerifyLogin(a) ==
  /\ apply[a].pc = "verify"
  /\ \/ Works /\ LoginWorks /\ Goto(a, "sent")
     \/ Works /\ ~LoginWorks /\ Fail(a, "undo")
     \/ Fails /\ Fail(a, Undo)
  /\ UNCHANGED <<server, others>>

\* rollback: both statements' errors are ignored.
RestoreOld(a) ==
  /\ apply[a].pc = "undo"
  /\ \/ Works /\ file' = apply[a].old
     \/ Tears(a) /\ file' \in Torn(file, apply[a].old)
  /\ Goto(a, "reundo")
  /\ UNCHANGED <<conf, bak, others>>

ReloadOld(a) ==
  /\ apply[a].pc = "reundo"
  /\ (Works /\ conf' = Reloaded) \/ (Tears(a) /\ conf' = conf)
  /\ Goto(a, "sent")
  /\ UNCHANGED <<file, bak, others>>

\* hbaApplyMsg: an alert, or a fresh load.
HbaApplyMsg(a) ==
  /\ apply[a].pc = "sent"
  /\ apply' = [apply EXCEPT ![a] = NoApply("over")]
  /\ \/ apply[a].err /\ alert' = TRUE /\ UNCHANGED loads
     \/ ~apply[a].err /\ loads' = loads \union {NewLoad} /\ UNCHANGED alert
  /\ UNCHANGED <<server, view, dialog, past, failed>>

----------------------------------------------------------------------------
\* The tab's Init has started the first load.
Init ==
  /\ file \in StartFiles /\ conf = file /\ bak = <<>>
  /\ content = <<>> /\ rules = <<>> /\ writable = FALSE
  /\ modal = "none" /\ alert = FALSE /\ editLine = 0 /\ pending = <<>> /\ wish = NoWish
  /\ loads = {FirstRead(1)}
  /\ apply = [a \in Changes |-> NoApply("none")]
  /\ confirmed = 0 /\ asked = 0 /\ faults = 0 /\ mixed = {} /\ torn = {}

Applying(a) ==
  \/ ReadOld(a) \/ WriteBackup(a) \/ WriteNew(a) \/ CheckRules(a)
  \/ Reload(a) \/ VerifyLogin(a) \/ RestoreOld(a) \/ ReloadOld(a) \/ HbaApplyMsg(a)

Loading(l) == ReadContent(l) \/ ReadRules(l) \/ HbaMsg(l)

Keys ==
  \/ Refresh \/ OpenAdd \/ Dismiss \/ Confirm \/ CloseAlert
  \/ \E i \in DOMAIN rules : OpenEdit(i) \/ AskDelete(i)
  \/ \E l \in FormLines : SubmitForm(l)

Next == (\E a \in Changes : Applying(a)) \/ (\E l \in loads : Loading(l)) \/ Keys

Spec == Init /\ [][Next]_vars

\* Every statement ends, by the deadline of its command at the latest.
FairSpec == Spec /\ \A a \in Changes : WF_vars(Applying(a))

----------------------------------------------------------------------------
(* Properties.                                                             *)

RuleRows == [line : Nat \ {0}, val : Lines]

TypeOK ==
  /\ file \in Files /\ conf \in Files /\ bak \in Files
  /\ content \in Files /\ rules \in Seq(RuleRows) /\ writable \in BOOLEAN
  /\ modal \in {"none", "form", "confirm"} /\ alert \in BOOLEAN
  /\ editLine \in Nat /\ pending \in Files
  /\ confirmed \in 0 .. MaxChanges /\ asked \in 0 .. MaxLoads
  /\ mixed \subseteq Changes /\ torn \subseteq Changes
  /\ \A l \in loads : l.id \in LoadIds /\ l.content \in Files
  /\ \A a \in Changes :
       /\ apply[a].pc \in {"none", "read", "backup", "write", "check", "reload", "verify",
                           "undo", "reundo", "sent", "over"}
       /\ apply[a].new \in Files /\ apply[a].old \in Files /\ apply[a].err \in BOOLEAN
       /\ apply[a].was.file \in Files /\ apply[a].was.conf \in Files

\* As long as no two changes overlapped, no write of pg_hba.conf failed and no way back did,
\* nobody is locked out: between two changes the file parses, is what the server uses, and
\* lets the administrator in.  Any other statement may have failed.
NeverLockedOut ==
  mixed = {} /\ torn = {} /\ Running = {} => file = conf /\ Parses(file) /\ Admits(conf)

\* "so a bad edit can't lock you out" (hba.go:131-132): the same with changes that overlap.
CantLockYouOut == torn = {} /\ Running = {} => Admits(conf)

Reported(a, err) == apply[a].pc = "sent" /\ apply[a].err = err

\* A change that overlapped no other and is reported as applied is in the file and in use,
\* as it was confirmed, and lets the administrator in, whichever statements failed.
SuccessIsInUse ==
  \A a \in Changes \ mixed :
    Reported(a, FALSE) => file = apply[a].new /\ conf = apply[a].new /\ Admits(conf)

Undone(a) == file = apply[a].was.file /\ conf = apply[a].was.conf

\* "Any failure restores the backup and reloads" (hba.go:131): a change that is reported
\* as failed has left the file and the rules in use as they were.
AnyFailureRestores == \A a \in Changes : Reported(a, TRUE) => Undone(a)

\* A change that is reported as failed, because it was refused or because one of its
\* statements failed, has left the file and the rules in use as they were when it was
\* confirmed: if it overlapped no other, the rules in use were those of the file, and what
\* failed was neither the write of pg_hba.conf nor a statement of the way back.
RefusedIsUndone ==
  \A a \in Changes \ (mixed \union torn) :
    Reported(a, TRUE) /\ apply[a].was.file = apply[a].was.conf => Undone(a)

\* Whichever statements of a change fail, the way back included, the file as it was when the
\* change was confirmed is still there, as pg_hba.conf or as its backup, until a success is
\* reported: if the change overlapped no other.  (A second one writes the same backup.)
OldFileKept ==
  \A a \in (Running \ mixed) : Reported(a, FALSE) \/ apply[a].was.file \in {file, bak}

\* n adds a rule, e edits the chosen one, d deletes it (README): whatever else the tab did
\* before, a change that overlaps no other writes that rule of the file and nothing more.
OneRuleChanges ==
  [][\A a \in Changes \ mixed : apply[a].pc = "write" /\ apply'[a].pc = "check" =>
       file' \in Wished(file, apply[a].wish)]_vars

\* Every confirmed change is answered: by the status line or by the alert.
ApplyAnswered == \A a \in Changes : apply[a].pc = "read" ~> apply[a].pc = "over"
=============================================================================
