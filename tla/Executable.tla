----------------------------- MODULE Executable -----------------------------
(***************************************************************************)
(* The directory pgtower is installed in: the program under its name and   *)
(* under pgtui's, which AdoptName changes at the start of a run and        *)
(* SelfUpdate replaces from the update prompt.                             *)
(*                                                                         *)
(* Each action is one change of the directory; the process may stop        *)
(* between any two.  A build is whole ("old" or "new") or torn: cut short  *)
(* or altered on its way.  Left out: permissions, of which only that a     *)
(* step may fail is left; a second process updating at the same time.      *)
(***************************************************************************)

VARIABLES
  tower,     \* the file pgtower: a build, or "none"
  tui,       \* the file pgtui: a build, "alias" (a link to pgtower) or "none"
  aliasTmp,  \* whether pgtui.alias.tmp is there
  updTmp,    \* .pgtower.update.tmp: a build or "none"
  at,        \* where the process is; "off" when there is none
  exe,       \* the file the process was started from
  unchecked  \* history: a build went in without a checksum to compare with

binVars == <<tower, tui, aliasTmp, updTmp, at, exe, unchecked>>

Whole == {"old", "new"}
Builds == Whole \union {"torn"}

----------------------------------------------------------------------------
(* The start of the program, and AdoptName.                                *)

\* Started by the name pgtower, or by the alias, which the system resolves.
StartTower ==
  /\ at = "off" /\ tower \in Whole
  /\ exe' = "tower" /\ at' = "run"
  /\ UNCHANGED <<tower, tui, aliasTmp, updTmp, unchecked>>

\* Started from a file of the name pgtui.
StartTui ==
  /\ at = "off" /\ tui \in Whole
  /\ exe' = "tui" /\ at' = "adopt"
  /\ UNCHANGED <<tower, tui, aliasTmp, updTmp, unchecked>>

\* As if the new name were taken to be there already.
AlwaysThere == TRUE

TowerThere == tower # "none"

\* replaceWithAlias, when pgtower is installed beside it: a link is made ...
MakeAlias ==
  /\ at = "adopt" /\ TowerThere
  /\ \/ aliasTmp' = TRUE /\ at' = "swap"
     \/ aliasTmp' = FALSE /\ at' = "run"
  /\ UNCHANGED <<tower, tui, updTmp, exe, unchecked>>

\* ... and takes the place of the file.
SwapAlias ==
  /\ at = "swap" /\ at' = "run" /\ aliasTmp' = FALSE
  /\ tui' = "alias" \/ tui' = tui
  /\ UNCHANGED <<tower, updTmp, exe, unchecked>>

\* The file takes the new name ...
RenameExe ==
  /\ at = "adopt" /\ ~TowerThere
  /\ \/ tower' = tui /\ tui' = "none" /\ at' = "link"
     \/ at' = "run" /\ UNCHANGED <<tower, tui>>
  /\ UNCHANGED <<aliasTmp, updTmp, exe, unchecked>>

\* ... and the old name becomes a link to it, if it can.
LinkOld ==
  /\ at = "link" /\ at' = "run"
  /\ tui' \in {"alias", tui}
  /\ UNCHANGED <<tower, aliasTmp, updTmp, exe, unchecked>>

----------------------------------------------------------------------------
(* SelfUpdate.                                                             *)

\* The file the update replaces: links are followed, as far as they lead.
Target == IF exe = "tui" /\ tui # "alias" THEN "tui" ELSE "tower"

\* "Update now": the temporary file is made or emptied.
OpenTemp ==
  /\ at = "run"
  /\ \/ updTmp' = "torn" /\ at' = "download"
     \/ UNCHANGED updTmp /\ at' = "updated"     \* ManualError
  /\ UNCHANGED <<tower, tui, aliasTmp, exe, unchecked>>

\* The whole build, another one than was published, or an error.
Download ==
  /\ at = "download"
  /\ \/ updTmp' \in {"new", "torn"} /\ at' = "verify"
     \/ updTmp' = "none" /\ at' = "updated"
  /\ UNCHANGED <<tower, tui, aliasTmp, exe, unchecked>>

\* As if the sum were computed and not compared.
NeverRefused == TRUE

SumMatches == updTmp = "new"

\* SHA256SUMS is compared with when it could be fetched and names the file.
Verify ==
  /\ at = "verify"
  /\ \/ SumMatches /\ at' = "install" /\ UNCHANGED <<updTmp, unchecked>>
     \/ ~SumMatches /\ updTmp' = "none" /\ at' = "updated" /\ UNCHANGED unchecked
     \/ at' = "install" /\ unchecked' = TRUE /\ UNCHANGED updTmp
  /\ UNCHANGED <<tower, tui, aliasTmp, exe>>

Install ==
  /\ at = "install" /\ at' = "updated" /\ updTmp' = "none"
  /\ \/ Target = "tower" /\ tower' = updTmp /\ UNCHANGED tui
     \/ Target = "tui" /\ tui' = updTmp /\ UNCHANGED tower
     \/ UNCHANGED <<tower, tui>>
  /\ UNCHANGED <<aliasTmp, exe, unchecked>>

\* The user leaves, or the process is killed.
Stops ==
  /\ at # "off" /\ at' = "off" /\ exe' = "none"
  /\ UNCHANGED <<tower, tui, aliasTmp, updTmp, unchecked>>

----------------------------------------------------------------------------
\* An install of pgtui, of pgtower, or of both.
BinInit ==
  /\ tower \in {"none", "old"} /\ tui \in {"none", "alias", "old", "new"}
  /\ tower = "none" => tui \in Whole
  /\ aliasTmp = FALSE /\ updTmp = "none" /\ at = "off" /\ exe = "none"
  /\ unchecked = FALSE

Adopting == MakeAlias \/ SwapAlias \/ RenameExe \/ LinkOld
Updating == OpenTemp \/ Download \/ Verify \/ Install

BinTypeOK ==
  /\ tower \in Builds \union {"none"} /\ tui \in Builds \union {"alias", "none"}
  /\ aliasTmp \in BOOLEAN /\ updTmp \in Builds \union {"none"}
  /\ at \in {"off", "adopt", "swap", "link", "run", "download", "verify", "install", "updated"}
  /\ exe \in {"none", "tower", "tui"} /\ unchecked \in BOOLEAN

\* "Verifies its SHA256 and atomically replaces the running executable" (update.go):
\* wherever a rename or an update stops, a name that is there starts a whole program,
\* and one of the two is there; while every update found its checksum.
NamesRun ==
  ~unchecked =>
    /\ tower \in Whole \union {"none"} /\ tui \in Whole \union {"none", "alias"}
    /\ tui = "alias" => tower # "none"
    /\ tower # "none" \/ tui # "none"
=============================================================================
