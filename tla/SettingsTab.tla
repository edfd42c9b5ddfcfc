---------------------------- MODULE SettingsTab ----------------------------
(***************************************************************************)
(* The advisor and the settings of the Tuning tab (ui/tuning.go): the list *)
(* with its filter, the form of ALTER SYSTEM SET, the reset that asks      *)
(* nothing.  The third section, pg_hba.conf, is HbaEditor.                 *)
(***************************************************************************)
EXTENDS TabCommands

VARIABLES
  settings,     \* the view
  tangled       \* history: settings whose last change overlapped the one before

settingsVars == <<settings, tangled>>

NoForm == "no form"
NoStatus == [kind |-> "none"]
SettingsCapturing == settings.form # NoForm \/ settings.filtering

SettingsBecome(v) == settings' = v /\ UNCHANGED tangled
FreeKey(op) ==
  op \in job /\ settings.form = NoForm /\ ~settings.filtering /\ UNCHANGED world
SettingsKey(op) == FreeKey(op) /\ settings.section = "settings"

Listed(v) == Only(v.list, v.filter)
IsSetting == settings.cursor \in DOMAIN Listed(settings)
SelectedSetting == Listed(settings)[settings.cursor]

----------------------------------------------------------------------------
(* Keys.                                                                   *)

RefreshTuning ==
  /\ FreeKey("refresh")
  /\ SettingsBecome([settings EXCEPT !.advErr = FALSE, !.setErr = FALSE]) /\ Send(TuningLoads)
OpenSettings ==
  /\ FreeKey("tuning") /\ settings.section = "advisor"
  /\ SettingsBecome([settings EXCEPT !.section = "settings"]) /\ Send({})
OpenAdvisor ==
  /\ FreeKey("refresh") /\ settings.section = "settings"
  /\ SettingsBecome([settings EXCEPT !.section = "advisor"]) /\ Send({})
MoveSetting ==
  /\ SettingsKey("tuning") /\ Listed(settings) # <<>>
  /\ \E c \in Moves(Listed(settings), settings.cursor) : SettingsBecome([settings EXCEPT !.cursor = c])
  /\ Send({})

StartFilter ==
  SettingsKey("filter") /\ SettingsBecome([settings EXCEPT !.filtering = TRUE]) /\ Send({})
\* Where the cursor goes when other rows are listed: to the top when it was below.
Relisted(v, u) ==
  \E c \in IF u.cursor > Len(Listed(v)) THEN CursorIn(Listed(v), u.cursor) ELSE {u.cursor} :
    SettingsBecome([v EXCEPT !.cursor = c])
TypeNameFilter ==
  /\ settings.filtering /\ UNCHANGED world
  /\ \E f \in (SUBSET Gucs) \ {settings.filter} : Relisted([settings EXCEPT !.filter = f], settings)
  /\ Send({})
LeaveFilter ==
  /\ settings.filtering /\ UNCHANGED world
  /\ SettingsBecome([settings EXCEPT !.filtering = FALSE]) /\ Send({})

Apply(n, v) ==
  /\ tangled' = IF \E c \in UnderwayNow : c.kind = "setting" /\ c.name = n
                THEN tangled \union {n} ELSE tangled \ {n}
  /\ Send({ApplySetting(n, v)})

OpenSettingEdit ==
  /\ SettingsKey("set") /\ IsSetting /\ SelectedSetting \in Gucs \ Internal
  /\ SettingsBecome([settings EXCEPT !.form = SelectedSetting]) /\ Send({})
\* What does not pass ValidateSettingValue leaves the form open.
SubmitSettingEdit ==
  /\ settings.form # NoForm /\ UNCHANGED world
  /\ settings' = [settings EXCEPT !.form = NoForm]
  /\ \E v \in Typed[settings.form] : Apply(settings.form, v)
CancelSettingEdit ==
  /\ settings.form # NoForm /\ UNCHANGED world
  /\ SettingsBecome([settings EXCEPT !.form = NoForm]) /\ Send({})
ResetSetting ==
  /\ SettingsKey("set") /\ IsSetting /\ SelectedSetting \in Gucs \ Internal
  /\ Apply(SelectedSetting, Default) /\ UNCHANGED settings
\* Either key on a compile-time setting.
CannotChange ==
  /\ SettingsKey("set") /\ IsSetting /\ SelectedSetting \in Internal
  /\ SettingsBecome([settings EXCEPT !.status = [kind |-> "refused"]]) /\ Send({})

----------------------------------------------------------------------------
(* Answers.                                                                *)

TuningMsg(a) == SettingsBecome([settings EXCEPT !.advErr = ~a.ok])

AllSettingsMsg(a) ==
  IF a.ok THEN Relisted([settings EXCEPT !.setErr = FALSE, !.list = a.rows], settings)
  ELSE SettingsBecome([settings EXCEPT !.setErr = TRUE])

\* What was applied, and whether the line says that it takes a restart.
SettingApplyMsg(a) ==
  SettingsBecome([settings EXCEPT !.status =
    IF a.ok THEN [kind |-> "applied", name |-> a.cmd.name, value |-> a.cmd.value,
                  restart |-> a.cmd.restart]
    ELSE [kind |-> "failed"]])
AfterApply(a) == IF a.ok THEN {LoadAllSettings} ELSE {}

SettingsInit ==
  /\ tangled = {}
  /\ settings = [section |-> "advisor", list |-> <<>>, filter |-> Gucs, filtering |-> FALSE,
                 cursor |-> 1, form |-> NoForm, status |-> NoStatus, advErr |-> FALSE,
                 setErr |-> FALSE]

SettingsKeys ==
  \/ RefreshTuning \/ OpenSettings \/ OpenAdvisor \/ MoveSetting
  \/ StartFilter \/ TypeNameFilter \/ LeaveFilter
  \/ OpenSettingEdit \/ SubmitSettingEdit \/ CancelSettingEdit \/ ResetSetting \/ CannotChange
=============================================================================
