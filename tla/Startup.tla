------------------------------ MODULE Startup ------------------------------
(***************************************************************************)
(* A run of pgtower (main.go): AdoptName, config.Load, then the interface, *)
(* from which the user saves the list of servers and updates the program.  *)
(* It may end at any step, and be started again.                           *)
(***************************************************************************)
EXTENDS ConfigFiles, Executable

startupVars == <<configVars, binVars>>

StartProgram == (StartTower \/ StartTui) /\ UNCHANGED configVars

Adopt == Adopting /\ UNCHANGED configVars

Load == at = "run" /\ (LoadBegins \/ LoadNext) /\ UNCHANGED binVars

SaveServers == (\E s \in Servers : Save(s)) /\ UNCHANGED binVars

UpdateProgram == step = "ready" /\ Updating /\ UNCHANGED configVars

\* The end of the process, and of what it remembers.
Ends ==
  /\ Stops
  /\ ProcessEnds \/ (step = "off" /\ UNCHANGED configVars)

Init == ConfigInit /\ BinInit
Next == StartProgram \/ Adopt \/ Load \/ SaveServers \/ UpdateProgram \/ Ends
Spec == Init /\ [][Next]_startupVars

TypeOK == ConfigTypeOK /\ BinTypeOK
=============================================================================
