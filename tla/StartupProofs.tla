--------------------------- MODULE StartupProofs ---------------------------
(***************************************************************************)
(* Proofs about a run of pgtower.  That a rename or an update, cut short   *)
(* anywhere, leaves a program to start.  That Load and Save, cut short     *)
(* anywhere, lose no server the user has saved; that a start shows the     *)
(* servers the last one did, and a list what the files hold; and that a    *)
(* second start changes nothing.                                           *)
(***************************************************************************)
EXTENDS Startup, ListProofs, TLAPS


\* A build that goes in unchecked is the one that was published.
InstallsWhole == at = "install" /\ ~unchecked => updTmp = "new"

\* Where a link is to be made or put in place, its target is there.
LinkHasTarget == at \in {"swap", "link"} => tower # "none"

\* What takes the new name is the file the process was started from.
AdoptsProgram == at = "adopt" => tui \in Whole

BinInv == BinTypeOK /\ NamesRun /\ InstallsWhole /\ LinkHasTarget /\ AdoptsProgram

LEMMA StartKeeps ==
  ASSUME BinInv, StartTower \/ StartTui
  PROVE  BinInv'
BY DEF BinInv, BinTypeOK, NamesRun, InstallsWhole, LinkHasTarget, AdoptsProgram, StartTower, StartTui,
       Whole, Builds

\* AdoptName: the name it takes is free, and the link it leaves has a target.
LEMMA AdoptKeeps ==
  ASSUME BinInv, Adopting
  PROVE  BinInv'
<1> USE DEF BinInv, BinTypeOK, NamesRun, InstallsWhole, LinkHasTarget, AdoptsProgram, Whole, Builds
<1>1. CASE MakeAlias
  BY <1>1 DEF MakeAlias, TowerThere
<1>2. CASE SwapAlias
  BY <1>2 DEF SwapAlias
<1>3. CASE RenameExe
  BY <1>3 DEF RenameExe, TowerThere
<1>4. CASE LinkOld
  BY <1>4 DEF LinkOld
<1> QED
  BY <1>1, <1>2, <1>3, <1>4 DEF Adopting

\* SelfUpdate: what takes the place of the program was compared with its checksum.
LEMMA UpdateKeeps ==
  ASSUME BinInv, Updating
  PROVE  BinInv'
<1> USE DEF BinInv, BinTypeOK, NamesRun, InstallsWhole, LinkHasTarget, AdoptsProgram, Whole,
            Builds
<1>1. CASE OpenTemp
  <2>1. BinTypeOK'
    BY <1>1 DEF OpenTemp
  <2>2. NamesRun'
    BY <1>1 DEF OpenTemp
  <2>3. InstallsWhole'
    BY <1>1 DEF OpenTemp
  <2>4. LinkHasTarget'
    BY <1>1 DEF OpenTemp
  <2>5. AdoptsProgram'
    BY <1>1 DEF OpenTemp
  <2> QED BY <2>1, <2>2, <2>3, <2>4, <2>5
<1>2. CASE Download
  BY <1>2 DEF Download
<1>3. CASE Verify
  <2>1. BinTypeOK'
    <3>1. /\ UNCHANGED <<tower, tui, aliasTmp, exe>> /\ at' \in {"install", "updated"}
          /\ updTmp' \in {updTmp, "none"} /\ unchecked' \in {unchecked, TRUE}
      BY <1>3, Zenon DEF Verify
    <3>2. at' \in {"off", "adopt", "swap", "link", "run", "download", "verify", "install", "updated"}
      BY <3>1
    <3>3. updTmp' \in Builds \union {"none"} /\ unchecked' \in BOOLEAN
      BY <3>1
    <3> QED BY <3>1, <3>2, <3>3
  <2>2. NamesRun'
    BY <1>3 DEF Verify, SumMatches
  <2>3. InstallsWhole'
    BY <1>3 DEF Verify, SumMatches
  <2>4. LinkHasTarget'
    BY <1>3 DEF Verify, SumMatches
  <2>5. AdoptsProgram'
    BY <1>3 DEF Verify, SumMatches
  <2> QED BY <2>1, <2>2, <2>3, <2>4, <2>5
<1>4. CASE Install
  <2>1. BinTypeOK'
    BY <1>4 DEF Install, Target
  <2>2. NamesRun'
    BY <1>4 DEF Install, Target
  <2>3. InstallsWhole'
    BY <1>4 DEF Install, Target
  <2>4. LinkHasTarget'
    BY <1>4 DEF Install, Target
  <2>5. AdoptsProgram'
    BY <1>4 DEF Install, Target
  <2> QED BY <2>1, <2>2, <2>3, <2>4, <2>5
<1> QED
  BY <1>1, <1>2, <1>3, <1>4 DEF Updating

LEMMA StopKeeps ==
  ASSUME BinInv, Stops
  PROVE  BinInv'
BY DEF BinInv, BinTypeOK, NamesRun, InstallsWhole, LinkHasTarget, AdoptsProgram, Stops,
       Whole, Builds

\* A run of the program keeps the invariant of its own directory, whatever it does to
\* the files of the configuration (main.go: AdoptName, then Load, then the interface).
THEOREM BinInvariant == Spec => []BinInv
<1>1. Init => BinInv
  BY DEF Init, BinInit, BinInv, BinTypeOK, NamesRun, InstallsWhole, LinkHasTarget,
         AdoptsProgram, Whole, Builds
<1>2. BinInv /\ [Next]_startupVars => BinInv'
  <2> SUFFICES ASSUME BinInv, [Next]_startupVars
               PROVE  BinInv'
    OBVIOUS
  <2>1. CASE StartProgram
    BY <2>1, StartKeeps DEF StartProgram
  <2>2. CASE Adopt
    BY <2>2, AdoptKeeps DEF Adopt
  <2>3. CASE UpdateProgram
    BY <2>3, UpdateKeeps DEF UpdateProgram
  <2>4. CASE Ends
    BY <2>4, StopKeeps DEF Ends
  <2>5. CASE UNCHANGED binVars
    BY <2>5 DEF binVars, BinInv, BinTypeOK, NamesRun, InstallsWhole, LinkHasTarget,
                AdoptsProgram
  <2>6. Load \/ SaveServers \/ UNCHANGED startupVars => UNCHANGED binVars
    BY DEF Load, SaveServers, startupVars
  <2> QED
    BY <2>1, <2>2, <2>3, <2>4, <2>5, <2>6 DEF Next
<1> QED
  BY <1>1, <1>2, PTL DEF Spec

\* Wherever a rename or a self-update stops, a name that is there starts a whole program
\* and one of the two names is there (update.go: "atomically replaces").
THEOREM AlwaysAProgram == Spec => []NamesRun
<1>1. BinInv => NamesRun
  BY DEF BinInv
<1> QED
  BY <1>1, BinInvariant, PTL

----------------------------------------------------------------------------
(* The files of the configuration: what the operations do to them.         *)

\* A directory and what an operation makes of it.
LEMMA DirTyped ==
  ASSUME NEW F \in FileSystem, NEW d \in Dirs
  PROVE  /\ F[d] \in Directory /\ DOMAIN F[d] = {"there", "file", "kept"}
         /\ F[d].there \in BOOLEAN /\ F[d].file \in [Names -> File] /\ F[d].kept \subseteq Backup
         /\ ~F[d].there => F[d] = NoDir
<1>1. F[d] \in Directory
  BY DEF FileSystem
<1>2. NoDir.there = FALSE /\ NoDir.file = [n \in Names |-> NoFile] /\ NoDir.kept = {}
  BY DEF NoDir
<1>3. NoDir.file \in [Names -> File]
  BY <1>2 DEF File
<1>4. CASE F[d] = NoDir
  BY <1>1, <1>2, <1>3, <1>4 DEF NoDir
<1>5. CASE F[d] # NoDir
  BY <1>1, <1>5 DEF Directory
<1> QED BY <1>4, <1>5

LEMMA FileTyped ==
  ASSUME NEW f \in File
  PROVE  /\ f.kind \in Kinds /\ f.servers \subseteq Servers /\ f.perm \in Perms
         /\ ~Present(f) => f = NoFile
         /\ Present(f) => f \in Backup
         /\ DOMAIN f = {"kind", "servers", "perm"}
<1>1. NoFile.kind = "none" /\ NoFile.servers = {} /\ NoFile.perm = "mine"
  BY DEF NoFile
<1>2. CASE f = NoFile
  BY <1>1, <1>2 DEF Kinds, Perms, Present, NoFile
<1>3. CASE f \in Backup
  BY <1>3 DEF Backup, Kinds, Present
<1> QED BY <1>2, <1>3 DEF File

\* A record of a directory with some of its fields new.
Filled(file, kept) == [there |-> TRUE, file |-> file, kept |-> kept]

LEMMA FilledTyped ==
  ASSUME NEW file \in [Names -> File], NEW kept \in SUBSET Backup
  PROVE  Filled(file, kept) \in Directory
BY DEF Filled, Directory

LEMMA Refilled ==
  ASSUME NEW r, DOMAIN r = {"there", "file", "kept"}, NEW file, NEW kept
  PROVE  /\ [[r EXCEPT !.there = TRUE] EXCEPT !.file = file] = Filled(file, r.kept)
         /\ r.there = TRUE => [r EXCEPT !.file = file] = Filled(file, r.kept)
<1>1. [[r EXCEPT !.there = TRUE] EXCEPT !.file = file] = Filled(file, r.kept)
  <2> DEFINE u == [[r EXCEPT !.there = TRUE] EXCEPT !.file = file]
             v == Filled(file, r.kept)
  <2>1. DOMAIN u = DOMAIN v /\ u.there = v.there /\ u.file = v.file /\ u.kept = v.kept
    BY DEF Filled
  <2>2. \A x \in DOMAIN v : u[x] = v[x]
    BY <2>1 DEF Filled
  <2>3. u = [x \in DOMAIN u |-> u[x]] /\ v = [x \in DOMAIN v |-> v[x]]
    BY DEF Filled
  <2> QED BY <2>1, <2>2, <2>3
<1> QED
  BY <1>1

\* A directory d becomes new.
LEMMA Changed ==
  ASSUME NEW F \in FileSystem, NEW d \in Dirs, NEW new \in Directory
  PROVE  /\ [F EXCEPT ![d] = new] \in FileSystem
         /\ [F EXCEPT ![d] = new][d] = new
         /\ \A e \in Dirs \ {d} : [F EXCEPT ![d] = new][e] = F[e]
BY DEF FileSystem

LEMMA FilesTyped ==
  ASSUME NEW file \in [Names -> File], NEW n \in Names, NEW f \in File
  PROVE  /\ [file EXCEPT ![n] = f] \in [Names -> File]
         /\ [file EXCEPT ![n] = f][n] = f
         /\ \A m \in Names \ {n} : [file EXCEPT ![n] = f][m] = file[m]
OBVIOUS

\* The file n of d becomes f, and nothing else changes.
FileBecomes(F, H, d, n, f) ==
  /\ H \in FileSystem /\ H[d].there = TRUE
  /\ H[d].file[n] = f /\ H[d].kept = F[d].kept
  /\ \A m \in Names \ {n} : H[d].file[m] = F[d].file[m]
  /\ \A e \in Dirs \ {d} : H[e] = F[e]

LEMMA FileSet ==
  ASSUME NEW F \in FileSystem, NEW d \in Dirs, F[d].there, NEW n \in Names, NEW f \in File
  PROVE  FileBecomes(F, [F EXCEPT ![d].file[n] = f], d, n, f)
<1> DEFINE file == [F[d].file EXCEPT ![n] = f]
           new == Filled(file, F[d].kept)
<1>1. /\ DOMAIN F[d] = {"there", "file", "kept"} /\ F[d].there = TRUE
      /\ F[d].file \in [Names -> File] /\ F[d].kept \subseteq Backup
  BY DirTyped
<1>2. [F EXCEPT ![d].file[n] = f] = [F EXCEPT ![d] = [F[d] EXCEPT !.file = file]]
  BY Zenon DEF FileSystem
<1>3. [F[d] EXCEPT !.file = file] = new
  <2> HIDE DEF file
  <2> QED BY <1>1, Refilled
<1>4. /\ file \in [Names -> File] /\ file[n] = f
      /\ \A m \in Names \ {n} : file[m] = F[d].file[m]
  BY <1>1, FilesTyped
<1>5. new.there = TRUE /\ new.file = file /\ new.kept = F[d].kept
  BY DEF Filled
<1>6. new \in Directory
  <2> HIDE DEF file
  <2> QED BY <1>1, <1>4, FilledTyped
<1> DEFINE H == [F EXCEPT ![d] = new]
<1>7. H \in FileSystem /\ H[d] = new /\ \A e \in Dirs \ {d} : H[e] = F[e]
  <2> HIDE DEF new
  <2> QED BY <1>6, Changed
<1>8. [F EXCEPT ![d].file[n] = f] = H
  BY <1>2, <1>3
<1> HIDE DEF H, new, file
<1>9. FileBecomes(F, H, d, n, f)
  BY <1>4, <1>5, <1>7 DEF FileBecomes
<1> QED BY <1>8, <1>9

LEMMA PutSets ==
  ASSUME NEW F \in FileSystem, NEW p \in Paths, NEW f \in File
  PROVE  FileBecomes(F, Put(F, p, f), p.dir, p.name, f)
<1> DEFINE d == p.dir
           n == p.name
           file == [F[d].file EXCEPT ![n] = f]
           new == Filled(file, F[d].kept)
<1>0. d \in Dirs /\ n \in Names
  BY DEF Paths, Names
<1>1. /\ DOMAIN F[d] = {"there", "file", "kept"}
      /\ F[d].file \in [Names -> File] /\ F[d].kept \subseteq Backup
  BY <1>0, DirTyped
<1>2. Put(F, p, f) = [F EXCEPT ![d] = [[F[d] EXCEPT !.there = TRUE] EXCEPT !.file = file]]
  BY <1>0, <1>1, Zenon DEF FileSystem, Put
<1>3. [[F[d] EXCEPT !.there = TRUE] EXCEPT !.file = file] = new
  <2> HIDE DEF file
  <2> QED BY <1>1, Refilled
<1>4. /\ file \in [Names -> File] /\ file[n] = f
      /\ \A m \in Names \ {n} : file[m] = F[d].file[m]
  BY <1>0, <1>1, FilesTyped
<1>5. new.there = TRUE /\ new.file = file /\ new.kept = F[d].kept
  BY DEF Filled
<1>6. new \in Directory
  <2> HIDE DEF file
  <2> QED BY <1>1, <1>4, FilledTyped
<1> DEFINE H == [F EXCEPT ![d] = new]
<1>7. H \in FileSystem /\ H[d] = new /\ \A e \in Dirs \ {d} : H[e] = F[e]
  <2> HIDE DEF new
  <2> QED BY <1>0, <1>6, Changed
<1>8. Put(F, p, f) = H
  BY <1>2, <1>3
<1> HIDE DEF H, new, file
<1>9. FileBecomes(F, H, d, n, f)
  BY <1>4, <1>5, <1>7 DEF FileBecomes
<1> QED BY <1>8, <1>9

\* The backups of d become K.
KeptBecomes(F, H, d, K) ==
  /\ H \in FileSystem /\ H[d].there = TRUE /\ H[d].kept = K
  /\ H[d].file = F[d].file /\ \A e \in Dirs \ {d} : H[e] = F[e]

LEMMA KeptSet ==
  ASSUME NEW F \in FileSystem, NEW d \in Dirs, F[d].there, NEW K \in SUBSET Backup
  PROVE  KeptBecomes(F, [F EXCEPT ![d].kept = K], d, K)
<1> DEFINE new == [F[d] EXCEPT !.kept = K]
<1>1. /\ DOMAIN F[d] = {"there", "file", "kept"} /\ F[d].there = TRUE
      /\ F[d].file \in [Names -> File]
  BY DirTyped
<1>2. [F EXCEPT ![d].kept = K] = [F EXCEPT ![d] = new]
  BY Zenon DEF FileSystem
<1>3. DOMAIN new = DOMAIN F[d] /\ new.there = TRUE /\ new.file = F[d].file /\ new.kept = K
  BY <1>1
<1>4. new = Filled(F[d].file, K)
  <2> DEFINE v == Filled(F[d].file, K)
  <2>1. DOMAIN new = DOMAIN v /\ new.there = v.there /\ new.file = v.file /\ new.kept = v.kept
    BY <1>1, <1>3 DEF Filled
  <2>2. \A x \in DOMAIN v : new[x] = v[x]
    BY <2>1 DEF Filled
  <2>3. new = [x \in DOMAIN new |-> new[x]] /\ v = [x \in DOMAIN v |-> v[x]]
    BY DEF Filled
  <2> QED BY <2>1, <2>2, <2>3
<1>5. new \in Directory
  BY <1>1, <1>4, FilledTyped
<1> DEFINE H == [F EXCEPT ![d] = new]
<1>6. H \in FileSystem /\ H[d] = new /\ \A e \in Dirs \ {d} : H[e] = F[e]
  <2> HIDE DEF new
  <2> QED BY <1>5, Changed
<1>7. KeptBecomes(F, H, d, K)
  <2> HIDE DEF H, new
  <2> QED BY <1>3, <1>6 DEF KeptBecomes
<1> QED BY <1>2, <1>7

Mine(f) == [f EXCEPT !.perm = "mine"]
LEMMA MineTyped ==
  ASSUME NEW f \in Backup
  PROVE  Mine(f) \in Backup /\ Mine(f).servers = f.servers
BY DEF Mine, Backup, Perms

LEMMA KeepSets ==
  ASSUME NEW F \in FileSystem, NEW d \in Dirs, F[d].there, NEW f \in Backup
  PROVE  KeptBecomes(F, Keep(F, d, f), d, F[d].kept \union {Mine(f)})
<1>1. F[d].kept \union {Mine(f)} \in SUBSET Backup
  BY DirTyped, MineTyped
<1>2. Keep(F, d, f) = [F EXCEPT ![d].kept = F[d].kept \union {Mine(f)}]
  BY DEF Keep, Mine, FileSystem
<1> QED BY <1>1, <1>2, KeptSet

----------------------------------------------------------------------------
(* The moves of relocateDirs and mergeDir.                                 *)

From(k) == Pairs[k].from
To(k) == Pairs[k].to

LEMMA PairDirs ==
  /\ From(1) = "pgtuiHome" /\ To(1) = "home" /\ From(2) = "pgtuiOpt" /\ To(2) = "opt"
  /\ Len(Pairs) = 2
BY DEF From, To, Pairs

LEMMA PairTyped ==
  ASSUME NEW k \in 1 .. 2
  PROVE  From(k) \in Dirs /\ To(k) \in Dirs /\ From(k) # To(k)
<1>1. k = 1 \/ k = 2
  OBVIOUS
<1> QED BY <1>1, PairDirs DEF Dirs

DirMoves(F, H, k) ==
  /\ H \in FileSystem /\ H[To(k)] = F[From(k)] /\ H[From(k)] = NoDir
  /\ \A e \in Dirs \ {From(k), To(k)} : H[e] = F[e]

LEMMA MoveDirMoves ==
  ASSUME NEW F \in FileSystem, NEW k \in 1 .. 2
  PROVE  DirMoves(F, MoveDir(F, Pairs[k]), k)
<1> DEFINE G == [F EXCEPT ![To(k)] = F[From(k)]]
           H == [G EXCEPT ![From(k)] = NoDir]
<1>1. From(k) \in Dirs /\ To(k) \in Dirs /\ From(k) # To(k)
  BY PairTyped
<1>2. F[From(k)] \in Directory /\ NoDir \in Directory
  BY <1>1, DirTyped DEF Directory
<1>3. G \in FileSystem /\ G[To(k)] = F[From(k)] /\ \A e \in Dirs \ {To(k)} : G[e] = F[e]
  BY <1>1, <1>2, Changed
<1>4. MoveDir(F, Pairs[k]) = H
  BY <1>1, Zenon DEF MoveDir, From, To
<1> HIDE DEF G
<1>5. H \in FileSystem /\ H[From(k)] = NoDir /\ \A e \in Dirs \ {From(k)} : H[e] = G[e]
  BY <1>1, <1>2, <1>3, Changed
<1> HIDE DEF H
<1>6. DirMoves(F, H, k)
  BY <1>1, <1>3, <1>5 DEF DirMoves
<1> QED BY <1>4, <1>6

\* The file n of the old directory goes to the new one, over the one there or beside it.
EntryMoves(F, H, k, n) ==
  /\ H \in FileSystem /\ H[From(k)].there = TRUE /\ H[To(k)].there = TRUE
  /\ H[From(k)].file[n] = NoFile /\ H[From(k)].kept = F[From(k)].kept
  /\ \A m \in Names \ {n} : /\ H[From(k)].file[m] = F[From(k)].file[m]
                            /\ H[To(k)].file[m] = F[To(k)].file[m]
  /\ \/ /\ OldWins(n, F[To(k)].file[n])
        /\ H[To(k)].file[n] = F[From(k)].file[n] /\ H[To(k)].kept = F[To(k)].kept
     \/ /\ ~OldWins(n, F[To(k)].file[n])
        /\ H[To(k)].file[n] = F[To(k)].file[n]
        /\ H[To(k)].kept = F[To(k)].kept \union {F[From(k)].file[n]}
  /\ \A e \in Dirs \ {From(k), To(k)} : H[e] = F[e]

LEMMA MoveEntryMoves ==
  ASSUME NEW F \in FileSystem, NEW k \in 1 .. 2, NEW n \in Names,
         F[From(k)].there, F[To(k)].there, Present(F[From(k)].file[n])
  PROVE  EntryMoves(F, MoveEntry(F, Pairs[k], n), k, n)
<1> DEFINE d == From(k)
           t == To(k)
           old == F[d].file[n]
           G == [F EXCEPT ![d].file[n] = NoFile]
           H1 == [G EXCEPT ![t].file[n] = old]
           H2 == [G EXCEPT ![t].kept = F[t].kept \union {old}]
<1>1. d \in Dirs /\ t \in Dirs /\ d # t
  BY PairTyped
<1>2. F[d].file \in [Names -> File] /\ F[t].kept \subseteq Backup
  BY <1>1, DirTyped
<1>3. old \in File /\ old \in Backup
  BY <1>2, FileTyped
<1>4. FileBecomes(F, G, d, n, NoFile)
  BY <1>1, FileSet DEF File
<1> HIDE DEF G, d, t, old
<1>5. G[t] = F[t] /\ G[t].there /\ G \in FileSystem
  BY <1>1, <1>4 DEF FileBecomes, t
<1>6. FileBecomes(G, H1, t, n, old)
  BY <1>1, <1>3, <1>5, FileSet
<1>7. KeptBecomes(G, H2, t, F[t].kept \union {old})
  BY <1>1, <1>2, <1>3, <1>5, KeptSet
<1>8. [G EXCEPT ![t].kept = @ \union {old}] = H2
  BY <1>1, <1>5, Zenon DEF FileSystem
<1>9. MoveEntry(F, Pairs[k], n) = IF OldWins(n, F[t].file[n]) THEN H1 ELSE H2
  <2>1. MoveEntry(F, Pairs[k], n) =
          IF OldWins(n, F[t].file[n]) THEN H1 ELSE [G EXCEPT ![t].kept = @ \union {old}]
    BY Zenon DEF MoveEntry, From, To, d, t, old, G
  <2> HIDE DEF H1, H2
  <2> QED BY <2>1, <1>8
<1> HIDE DEF H1, H2
<1>10. CASE OldWins(n, F[t].file[n])
  <2>1. EntryMoves(F, H1, k, n)
    BY <1>1, <1>4, <1>5, <1>6, <1>10 DEF EntryMoves, FileBecomes, d, t, old
  <2> QED BY <2>1, <1>9, <1>10
<1>11. CASE ~OldWins(n, F[t].file[n])
  <2>1. EntryMoves(F, H2, k, n)
    BY <1>1, <1>4, <1>5, <1>7, <1>11 DEF EntryMoves, FileBecomes, KeptBecomes, d, t, old
  <2> QED BY <2>1, <1>9, <1>11
<1> QED BY <1>10, <1>11

BackupsMove(F, H, k) ==
  /\ H \in FileSystem /\ H[From(k)].there = TRUE /\ H[To(k)].there = TRUE
  /\ \A e \in Dirs : H[e].file = F[e].file
  /\ H[From(k)].kept = {} /\ H[To(k)].kept = F[To(k)].kept \union F[From(k)].kept
  /\ \A e \in Dirs \ {From(k), To(k)} : H[e] = F[e]

LEMMA MoveKeptMoves ==
  ASSUME NEW F \in FileSystem, NEW k \in 1 .. 2, F[From(k)].there, F[To(k)].there
  PROVE  BackupsMove(F, MoveKept(F, Pairs[k]), k)
<1> DEFINE d == From(k)
           t == To(k)
           K == F[t].kept \union F[d].kept
           G == [F EXCEPT ![t].kept = K]
           H == [G EXCEPT ![d].kept = {}]
<1>1. d \in Dirs /\ t \in Dirs /\ d # t
  BY PairTyped
<1>2. K \in SUBSET Backup
  BY <1>1, DirTyped
<1>3. KeptBecomes(F, G, t, K)
  <2> HIDE DEF K
  <2> QED BY <1>1, <1>2, KeptSet
<1>4. MoveKept(F, Pairs[k]) = H
  BY <1>1, Zenon DEF MoveKept, From, To, FileSystem
<1> HIDE DEF G, d, t
<1>5. G[d] = F[d] /\ G[d].there /\ G \in FileSystem
  BY <1>1, <1>3 DEF KeptBecomes, d
<1>6. KeptBecomes(G, H, d, {})
  BY <1>1, <1>5, KeptSet
<1> HIDE DEF H
<1>7. BackupsMove(F, H, k)
  <2>1. \A e \in Dirs : H[e].file = F[e].file
    BY <1>1, <1>3, <1>6 DEF KeptBecomes
  <2> QED BY <2>1, <1>1, <1>3, <1>5, <1>6 DEF BackupsMove, KeptBecomes, d, t
<1> QED BY <1>4, <1>7

\* The old directory is gone.
DirGoes(F, H, k) ==
  /\ H \in FileSystem /\ H[From(k)] = NoDir /\ \A e \in Dirs \ {From(k)} : H[e] = F[e]

LEMMA RemoveDirGoes ==
  ASSUME NEW F \in FileSystem, NEW k \in 1 .. 2
  PROVE  DirGoes(F, [F EXCEPT ![Pairs[k].from] = NoDir], k)
<1>1. From(k) \in Dirs /\ NoDir \in Directory
  BY PairTyped DEF Directory
<1> QED BY <1>1, Changed DEF DirGoes, From

----------------------------------------------------------------------------
(* What the search finds.                                                  *)

LEMMA FirstIs ==
  ASSUME NEW N \in Nat, NEW s, DOMAIN s = 1 .. N, NEW K, NEW o
  PROVE  \/ (\A i \in 1 .. N : s[i] \notin K) /\ FirstOf(s, K, o) = o
         \/ \E i \in 1 .. N : /\ s[i] \in K /\ FirstOf(s, K, o) = s[i]
                              /\ \A j \in 1 .. i - 1 : s[j] \notin K
<1>1. CASE \A i \in 1 .. N : s[i] \notin K
  BY <1>1 DEF FirstOf
<1>2. CASE \E i \in 1 .. N : s[i] \in K
  <2> DEFINE I == {i \in 1 .. N : s[i] \in K}
             c == CHOOSE i \in DOMAIN s : s[i] \in K /\ \A j \in 1 .. i - 1 : s[j] \notin K
  <2>0. I # {} /\ I \subseteq Nat /\ \A i : i \in I <=> i \in 1 .. N /\ s[i] \in K
    BY <1>2
  <2> HIDE DEF I
  <2>1. PICK i \in I : \A j \in I : i <= j
    BY <2>0, LeastNumber
  <2>2. \A j \in 1 .. i - 1 : s[j] \notin K
    BY <2>0, <2>1
  <2>3. \E x \in DOMAIN s : s[x] \in K /\ \A j \in 1 .. x - 1 : s[j] \notin K
    BY <2>0, <2>1, <2>2
  <2>4. c \in DOMAIN s /\ s[c] \in K /\ \A j \in 1 .. c - 1 : s[j] \notin K
    BY <2>3
  <2>5. FirstOf(s, K, o) = s[c]
    BY <1>2 DEF FirstOf
  <2> HIDE DEF c
  <2> QED BY <2>4, <2>5
<1> QED BY <1>1, <1>2

LEMMA CandidatesAre ==
  /\ DOMAIN Candidates = 1 .. 8
  /\ \A i \in 1 .. 8 : Candidates[i] \in Paths
  /\ \A p \in Paths : \E i \in 1 .. 8 : Candidates[i] = p
  /\ Candidates[1] = UserFile
<1>1. DOMAIN Candidates = 1 .. 8
  BY DEF Candidates
<1> DEFINE P(d, n) == [dir |-> d, name |-> n]
<1>2. /\ SearchOrder[1] = "home" /\ SearchOrder[2] = "opt"
      /\ SearchOrder[3] = "pgtuiHome" /\ SearchOrder[4] = "pgtuiOpt"
  BY DEF SearchOrder
<1>3. \A i \in 1 .. 8 : Candidates[i] =
        P(SearchOrder[(i + 1) \div 2], IF i % 2 = 1 THEN "config.yml" ELSE "config.yaml")
  BY DEF Candidates
<1>4. /\ Candidates[1] = P("home", "config.yml") /\ Candidates[2] = P("home", "config.yaml")
      /\ Candidates[3] = P("opt", "config.yml") /\ Candidates[4] = P("opt", "config.yaml")
  BY <1>2, <1>3
<1>5. /\ Candidates[5] = P("pgtuiHome", "config.yml")
      /\ Candidates[6] = P("pgtuiHome", "config.yaml")
      /\ Candidates[7] = P("pgtuiOpt", "config.yml")
      /\ Candidates[8] = P("pgtuiOpt", "config.yaml")
  BY <1>2, <1>3
<1>6. \A i \in 1 .. 8 : i \in {1, 2, 3, 4, 5, 6, 7, 8}
  OBVIOUS
<1>7. \A d \in Dirs, n \in ConfigNames : P(d, n) \in Paths
  BY DEF Paths
<1>8. \A i \in 1 .. 8 : Candidates[i] \in Paths
  BY <1>4, <1>5, <1>6, <1>7 DEF Dirs, ConfigNames
<1>9. ASSUME NEW p \in Paths PROVE \E i \in 1 .. 8 : Candidates[i] = p
  <2>1. p = P(p.dir, p.name) /\ p.dir \in Dirs /\ p.name \in ConfigNames
    BY DEF Paths
  <2> HIDE DEF P
  <2>2. CASE p.name = "config.yml"
    BY <1>4, <1>5, <2>1, <2>2 DEF Dirs
  <2>3. CASE p.name = "config.yaml"
    BY <1>4, <1>5, <2>1, <2>3 DEF Dirs
  <2> QED BY <2>1, <2>2, <2>3 DEF ConfigNames
<1> QED BY <1>1, <1>4, <1>8, <1>9 DEF UserFile

ReadableAt(F) == {p \in Paths : Readable(At(F, p))}

LEMMA NoPathIsNone == NoPath \notin Paths
BY DEF NoPath, Paths, Dirs

LEMMA FoundIs ==
  ASSUME NEW F
  PROVE  /\ Found(F) \in Paths \union {NoPath}
         /\ Found(F) # NoPath => Found(F) \in Paths /\ Readable(At(F, Found(F)))
         /\ Found(F) = NoPath => \A p \in Paths : ~Readable(At(F, p))
         /\ Readable(At(F, UserFile)) => Found(F) = UserFile
<1> DEFINE K == ReadableAt(F)
<1>1. Found(F) = FirstOf(Candidates, K, NoPath)
  BY DEF Found, ReadableAt
<1>2. UserFile \in Paths
  BY DEF UserFile, Paths, Dirs, ConfigNames
<1>3. \A p \in Paths : p \in K <=> Readable(At(F, p))
  BY DEF ReadableAt
<1> HIDE DEF K
<1>4. CASE (\A i \in 1 .. 8 : Candidates[i] \notin K) /\ Found(F) = NoPath
  <2>1. \A p \in Paths : p \notin K
    BY <1>4, CandidatesAre
  <2> QED BY <1>2, <1>3, <1>4, <2>1
<1>5. CASE \E i \in 1 .. 8 : /\ Candidates[i] \in K /\ Found(F) = Candidates[i]
                             /\ \A j \in 1 .. i - 1 : Candidates[j] \notin K
  <2>1. PICK i \in 1 .. 8 : /\ Candidates[i] \in K /\ Found(F) = Candidates[i]
                            /\ \A j \in 1 .. i - 1 : Candidates[j] \notin K
    BY <1>5
  <2>2. Found(F) \in Paths /\ Readable(At(F, Found(F)))
    BY <1>3, <2>1, CandidatesAre
  <2>3. ASSUME Readable(At(F, UserFile)) PROVE Found(F) = UserFile
    <3>1. Candidates[1] \in K
      BY <1>2, <1>3, <2>3, CandidatesAre
    <3>2. i = 1
      BY <2>1, <3>1
    <3> QED BY <2>1, <3>2, CandidatesAre
  <2> QED BY <2>2, <2>3, NoPathIsNone
<1>6. \/ (\A i \in 1 .. 8 : Candidates[i] \notin K) /\ FirstOf(Candidates, K, NoPath) = NoPath
      \/ \E i \in 1 .. 8 : /\ Candidates[i] \in K /\ FirstOf(Candidates, K, NoPath) = Candidates[i]
                           /\ \A j \in 1 .. i - 1 : Candidates[j] \notin K
  <2> DEFINE N == 8
  <2>1. N \in Nat /\ DOMAIN Candidates = 1 .. N
    BY CandidatesAre
  <2> HIDE DEF N
  <2>2. \/ (\A i \in 1 .. N : Candidates[i] \notin K) /\ FirstOf(Candidates, K, NoPath) = NoPath
        \/ \E i \in 1 .. N : /\ Candidates[i] \in K
                             /\ FirstOf(Candidates, K, NoPath) = Candidates[i]
                             /\ \A j \in 1 .. i - 1 : Candidates[j] \notin K
    BY <2>1, FirstIs
  <2> QED BY <2>2 DEF N
<1> QED
  BY <1>1, <1>4, <1>5, <1>6

\* The search depends on what can be read only.
LEMMA FoundSame ==
  ASSUME NEW F, NEW G, \A p \in Paths : Readable(At(F, p)) <=> Readable(At(G, p))
  PROVE  Found(F) = Found(G)
<1>1. ReadableAt(F) = ReadableAt(G)
  BY DEF ReadableAt
<1> QED BY <1>1 DEF Found, ReadableAt

Holding(F) == {d \in Dirs : HasEnv(F, d) /\ F[d].file[".env"].servers # {}}
Holds(F, d) == HasEnv(F, d) /\ F[d].file[".env"].servers # {}

LEMMA ImportIs ==
  ASSUME NEW F
  PROVE  /\ ImportDir(F) # NoDirName => ImportDir(F) \in Dirs /\ Holds(F, ImportDir(F))
         /\ ImportDir(F) = NoDirName => \A d \in Dirs : ~Holds(F, d)
<1> DEFINE K == Holding(F)
<1>1. ImportDir(F) = FirstOf(SearchOrder, K, NoDirName)
  BY DEF ImportDir, Holding
<1>2. \A d \in Dirs : d \in K <=> Holds(F, d)
  BY DEF Holding, Holds
<1>3. /\ DOMAIN SearchOrder = 1 .. 4 /\ \A i \in 1 .. 4 : SearchOrder[i] \in Dirs
      /\ \A d \in Dirs : \E i \in 1 .. 4 : SearchOrder[i] = d
  BY DEF SearchOrder, Dirs
<1>4. NoDirName \notin Dirs
  BY DEF NoDirName, Dirs
<1> HIDE DEF K
<1>5. CASE (\A i \in 1 .. 4 : SearchOrder[i] \notin K) /\ ImportDir(F) = NoDirName
  BY <1>2, <1>3, <1>5
<1>6. CASE \E i \in 1 .. 4 : /\ SearchOrder[i] \in K /\ ImportDir(F) = SearchOrder[i]
                             /\ \A j \in 1 .. i - 1 : SearchOrder[j] \notin K
  BY <1>2, <1>3, <1>4, <1>6
<1>7. \/ /\ \A i \in 1 .. 4 : SearchOrder[i] \notin K
         /\ FirstOf(SearchOrder, K, NoDirName) = NoDirName
      \/ \E i \in 1 .. 4 : /\ SearchOrder[i] \in K
                           /\ FirstOf(SearchOrder, K, NoDirName) = SearchOrder[i]
                           /\ \A j \in 1 .. i - 1 : SearchOrder[j] \notin K
  <2> DEFINE N == 4
  <2>1. N \in Nat /\ DOMAIN SearchOrder = 1 .. N
    BY <1>3
  <2> HIDE DEF N
  <2>2. \/ (\A i \in 1 .. N : SearchOrder[i] \notin K) /\ FirstOf(SearchOrder, K, NoDirName) = NoDirName
        \/ \E i \in 1 .. N : /\ SearchOrder[i] \in K
                             /\ FirstOf(SearchOrder, K, NoDirName) = SearchOrder[i]
                             /\ \A j \in 1 .. i - 1 : SearchOrder[j] \notin K
    BY <2>1, FirstIs
  <2> QED BY <2>2 DEF N
<1> QED
  BY <1>1, <1>5, <1>6, <1>7

LEMMA ImportSame ==
  ASSUME NEW F, NEW G, \A d \in Dirs : Holds(F, d) <=> Holds(G, d)
  PROVE  ImportDir(F) = ImportDir(G)
<1>1. Holding(F) = Holding(G)
  BY DEF Holding, Holds
<1> QED BY <1>1 DEF ImportDir, Holding

----------------------------------------------------------------------------
(* Types: of the files, and of what Load remembers at each of its steps.   *)

Commits == {"backup", "write", "retire"}
Later == {"relocate", "original", "ready"}
StageOK ==
  /\ step = "off" => path = NoPath /\ retire = NoDirName /\ servers = {}
  /\ step \in {"move", "merge"} => pair \in 1 .. 2
  /\ step = "merge" =>
       fs[From(pair)].there /\ fs[To(pair)].there /\ left = Entries(fs, From(pair))
  /\ step \in {"move", "merge", "find"} => path = NoPath /\ retire = NoDirName
  /\ step = "backup" => path \in Paths /\ raw = At(fs, path) /\ raw.kind = "v1"
  /\ step = "write" => path \in Paths
  /\ step \in Commits /\ retire # NoDirName => HasEnv(fs, retire)
  /\ step = "original" => /\ path \in Paths /\ path.dir \in SystemDirs
                          /\ Present(At(fs, path)) /\ At(fs, UserFile) = V2(servers)
TypeInv == ConfigTypeOK /\ StageOK

Steps == {"off", "move", "merge", "find", "backup", "write", "retire", "relocate",
          "original", "ready", "refused"}

\* The types of what is not the files.
RestTyped ==
  /\ step \in Steps /\ pair \in 0 .. 3 /\ left \subseteq Names \union {"backups"}
  /\ path \in Paths \union {NoPath} /\ raw \in File /\ retire \in Dirs \union {NoDirName}
  /\ servers \subseteq Servers /\ skipped \subseteq Paths
  /\ failed \in BOOLEAN /\ settled \in BOOLEAN /\ had \subseteq Servers

LEMMA TypeIs == TypeInv <=> fs \in FileSystem /\ RestTyped /\ StageOK
BY DEF TypeInv, ConfigTypeOK, RestTyped, Steps
LEMMA TypeIsNext == TypeInv' <=> fs' \in FileSystem /\ RestTyped' /\ StageOK'
BY DEF TypeInv, ConfigTypeOK, RestTyped, Steps

LEMMA PathTyped ==
  ASSUME NEW p \in Paths
  PROVE  p.dir \in Dirs /\ p.name \in ConfigNames /\ p.name \in Names /\ p.name # ".env"
BY DEF Paths, ConfigNames, Names

LEMMA AtTyped ==
  ASSUME NEW F \in FileSystem, NEW d \in Dirs, NEW n \in Names
  PROVE  F[d].file[n] \in File /\ (Present(F[d].file[n]) => F[d].there)
<1>1. F[d].file \in [Names -> File] /\ (~F[d].there => F[d] = NoDir)
  BY DirTyped
<1>2. ~Present(NoDir.file[n])
  BY DEF NoDir, NoFile, Present
<1> QED BY <1>1, <1>2

LEMMA UserFileTyped == UserFile \in Paths /\ UserFile.dir = "home" /\ UserFile.name = "config.yml"
BY DEF UserFile, Paths, Dirs, ConfigNames

LEMMA V2Typed ==
  ASSUME NEW S \in SUBSET Servers
  PROVE  /\ V2(S) \in File /\ V2(S).servers = S /\ V2(S).kind = "v2" /\ V2(S).perm = "mine"
         /\ Readable(V2(S))
BY DEF V2, File, Backup, Kinds, Perms, Readable, Present

LEMMA CommitIs ==
  Commit("start") = "write" /\ Commit("write") = "retire" /\ Commit("retire") = "relocate"
BY DEF Commit

LEMMA EntriesTyped ==
  ASSUME NEW F \in FileSystem, NEW d \in Dirs
  PROVE  /\ Entries(F, d) \subseteq Names \union {"backups"}
         /\ \A n \in Names : n \in Entries(F, d) <=> Present(F[d].file[n])
         /\ "backups" \in Entries(F, d) <=> F[d].kept # {}
BY DEF Entries, Names, ConfigNames

LEMMA NextPairTyped ==
  ASSUME NextPair, pair \in 1 .. 2
  PROVE  /\ pair' \in 2 .. 3 /\ step' \in {"move", "find"}
         /\ step' = "move" => pair = 1 /\ pair' = 2
BY PairDirs DEF NextPair

LEMMA MovePairTyped == ASSUME TypeInv, MovePair PROVE TypeInv'
<1>1. step = "move" /\ pair \in 1 .. 2 /\ path = NoPath /\ retire = NoDirName
  BY DEF MovePair, TypeInv, StageOK
<1>2. UNCHANGED <<had, found, settled>> /\ fs \in FileSystem /\ RestTyped
  BY TypeIs DEF MovePair
<1>3. From(pair) \in Dirs /\ To(pair) \in Dirs
  BY <1>1, PairTyped
<1>4. ASSUME NextPair, fs' \in FileSystem, left' = left, failed' \in BOOLEAN
      PROVE  TypeInv'
  <2>1. RestTyped'
    BY <1>1, <1>2, <1>4, NextPairTyped DEF RestTyped, found, Steps
  <2>2. StageOK'
    BY <1>1, <1>2, <1>4, NextPairTyped DEF StageOK, found, Commits
  <2> QED BY <1>4, <2>1, <2>2, TypeIsNext
<1>5. CASE UNCHANGED <<fs, left>> /\ Works /\ NextPair
  BY <1>2, <1>4, <1>5 DEF Works, RestTyped
<1>6. CASE fs' = MoveDir(fs, Pairs[pair]) /\ Works /\ NextPair /\ UNCHANGED left
  <2>1. fs' \in FileSystem
    BY <1>1, <1>2, <1>6, MoveDirMoves DEF DirMoves
  <2> QED BY <1>2, <1>4, <1>6, <2>1 DEF Works, RestTyped
<1>7. CASE Fails /\ NextPair /\ UNCHANGED left
  BY <1>2, <1>4, <1>7 DEF Fails
<1>8. CASE /\ fs[From(pair)].there /\ fs[To(pair)].there
           /\ left' = Entries(fs, From(pair)) /\ step' = "merge"
           /\ Works /\ UNCHANGED <<fs, pair>>
  <2>1. left' \subseteq Names \union {"backups"}
    BY <1>2, <1>3, <1>8, EntriesTyped
  <2>2. RestTyped'
    BY <1>2, <1>8, <2>1 DEF RestTyped, found, Steps, Works
  <2>3. StageOK'
    BY <1>1, <1>2, <1>8 DEF StageOK, found, Commits
  <2> QED BY <1>2, <1>8, <2>2, <2>3, TypeIsNext
<1> QED
  BY <1>5, <1>6, <1>7, <1>8 DEF MovePair, From, To

LEMMA MergeEntryTyped == ASSUME TypeInv, NEW n \in left, MergeEntry(n) PROVE TypeInv'
<1> DEFINE d == From(pair)
           t == To(pair)
<1>1. /\ step = "merge" /\ pair \in 1 .. 2 /\ path = NoPath /\ retire = NoDirName
      /\ fs[d].there /\ fs[t].there /\ left = Entries(fs, d)
  BY DEF MergeEntry, TypeInv, StageOK
<1>2. UNCHANGED <<had, found, settled>> /\ fs \in FileSystem /\ RestTyped
  BY TypeIs DEF MergeEntry
<1>3. d \in Dirs /\ t \in Dirs
  BY <1>1, PairTyped
<1>4. CASE Fails /\ NextPair /\ left' = {}
  <2>1. RestTyped'
    BY <1>1, <1>2, <1>4, NextPairTyped DEF RestTyped, found, Steps, Fails
  <2>2. StageOK'
    BY <1>1, <1>2, <1>4, NextPairTyped DEF StageOK, found, Commits
  <2> QED BY <1>2, <1>4, <2>1, <2>2, TypeIsNext DEF Fails
<1>5. ASSUME Works, left' = left \ {n}, UNCHANGED <<step, pair>>, fs' \in FileSystem,
             fs'[d].there, fs'[t].there, left' = Entries(fs', d)
      PROVE  TypeInv'
  <2>1. RestTyped'
    BY <1>2, <1>5 DEF RestTyped, found, Works
  <2>2. StageOK'
    BY <1>1, <1>2, <1>5 DEF StageOK, found, Commits
  <2> QED BY <1>5, <2>1, <2>2, TypeIsNext
<1>6. CASE /\ Works /\ n = "backups" /\ fs' = MoveKept(fs, Pairs[pair])
           /\ left' = left \ {n} /\ UNCHANGED <<step, pair>>
  <2>1. BackupsMove(fs, fs', pair)
    BY <1>1, <1>2, <1>6, MoveKeptMoves
  <2>2. fs' \in FileSystem /\ fs'[d].there /\ fs'[t].there
    BY <2>1 DEF BackupsMove
  <2>3. left' = Entries(fs', d)
    BY <1>1, <1>3, <1>6, <2>1 DEF BackupsMove, Entries, Names, ConfigNames
  <2> QED BY <1>5, <1>6, <2>2, <2>3
<1>7. CASE /\ Works /\ n # "backups" /\ fs' = MoveEntry(fs, Pairs[pair], n)
           /\ left' = left \ {n} /\ UNCHANGED <<step, pair>>
  <2>1. n \in Names /\ Present(fs[d].file[n])
    BY <1>1, <1>2, <1>3, <1>7, EntriesTyped
  <2>2. EntryMoves(fs, fs', pair, n)
    BY <1>1, <1>2, <1>7, <2>1, MoveEntryMoves
  <2>3. fs' \in FileSystem /\ fs'[d].there /\ fs'[t].there
    BY <2>2 DEF EntryMoves
  <2>4. left' = Entries(fs', d)
    <3>1. /\ fs'[d].file[n] = NoFile /\ fs'[d].kept = fs[d].kept
          /\ \A m \in Names \ {n} : fs'[d].file[m] = fs[d].file[m]
      BY <2>2 DEF EntryMoves
    <3>2. ~Present(NoFile)
      BY DEF Present, NoFile
    <3> QED BY <1>1, <1>7, <2>1, <3>1, <3>2 DEF Entries
  <2> QED BY <1>5, <1>7, <2>3, <2>4
<1> QED
  BY <1>4, <1>6, <1>7 DEF MergeEntry

LEMMA MergeEndsTyped == ASSUME TypeInv, MergeEnds PROVE TypeInv'
<1>1. step = "merge" /\ pair \in 1 .. 2 /\ path = NoPath /\ retire = NoDirName /\ NextPair
  BY DEF MergeEnds, TypeInv, StageOK
<1>2. UNCHANGED <<had, left, found, settled>> /\ fs \in FileSystem /\ RestTyped
  BY TypeIs DEF MergeEnds
<1>3. fs' \in FileSystem /\ failed' \in BOOLEAN
  <2>1. CASE Works /\ fs' = [fs EXCEPT ![Pairs[pair].from] = NoDir]
    BY <1>1, <1>2, <2>1, RemoveDirGoes DEF DirGoes, Works, RestTyped
  <2>2. CASE Fails
    BY <1>2, <2>2 DEF Fails
  <2> QED BY <2>1, <2>2 DEF MergeEnds
<1>4. RestTyped'
  BY <1>1, <1>2, <1>3, NextPairTyped DEF RestTyped, found, Steps
<1>5. StageOK'
  BY <1>1, <1>2, NextPairTyped DEF StageOK, found, Commits
<1> QED BY <1>3, <1>4, <1>5, TypeIsNext

LEMMA PassedTyped == ASSUME NEW F PROVE Passed(F) \subseteq Paths
BY CandidatesAre DEF Passed

LEMMA LiftedTyped ==
  ASSUME NEW F \in FileSystem, NEW p \in Paths
  PROVE  Lifted(F, p) \subseteq Servers
<1>1. At(F, p).servers \subseteq Servers
  BY PathTyped, AtTyped, FileTyped DEF At
<1>2. F[p.dir].file[".env"].servers \subseteq Servers
  BY PathTyped, AtTyped, FileTyped DEF Names
<1> QED BY <1>1, <1>2 DEF Lifted

\* What the search reads, in each of its outcomes.
Refuses == Found(fs) # NoPath /\ step' = "refused" /\ UNCHANGED <<path, raw, retire, servers>>
ReadsList ==
  /\ Found(fs) # NoPath /\ At(fs, Found(fs)).kind \notin {"v1", "bad"}
  /\ path' = Found(fs) /\ servers' = At(fs, Found(fs)).servers
  /\ step' = "relocate" /\ UNCHANGED <<raw, retire>>
ReadsLegacy ==
  /\ Found(fs) # NoPath /\ At(fs, Found(fs)).kind = "v1"
  /\ path' = Found(fs) /\ servers' = Lifted(fs, Found(fs)) /\ raw' = At(fs, Found(fs))
  /\ retire' = IF HasEnv(fs, Found(fs).dir) THEN Found(fs).dir ELSE NoDirName
  /\ step' = "backup"
Imports ==
  /\ Found(fs) = NoPath /\ ImportDir(fs) # NoDirName
  /\ path' = [dir |-> ImportDir(fs), name |-> "config.yml"]
  /\ servers' = fs[ImportDir(fs)].file[".env"].servers
  /\ retire' = ImportDir(fs) /\ step' = "write" /\ UNCHANGED raw
FindsNothing ==
  /\ Found(fs) = NoPath /\ ImportDir(fs) = NoDirName
  /\ step' = "relocate" /\ UNCHANGED <<path, raw, retire, servers>>

LEMMA FindFileReads ==
  ASSUME FindFile
  PROVE  /\ step = "find" /\ skipped' = Passed(fs)
         /\ UNCHANGED <<files, pair, left, failed, settled>>
         /\ Refuses \/ ReadsList \/ ReadsLegacy \/ Imports \/ FindsNothing
BY CommitIs DEF FindFile, Refuses, ReadsList, ReadsLegacy, Imports, FindsNothing, IsLegacy

LEMMA FindFileTyped == ASSUME TypeInv, FindFile PROVE TypeInv'
<1>1. /\ step = "find" /\ skipped' = Passed(fs) /\ path = NoPath /\ retire = NoDirName
      /\ UNCHANGED <<files, pair, left, failed, settled>>
  BY FindFileReads DEF TypeInv, StageOK
<1>2. fs \in FileSystem /\ fs' = fs /\ had' = had /\ RestTyped /\ skipped' \subseteq Paths
  BY <1>1, TypeIs, PassedTyped DEF files
<1>3. Found(fs) # NoPath =>
        /\ Found(fs) \in Paths /\ At(fs, Found(fs)) \in File /\ Found(fs).dir \in Dirs
        /\ At(fs, Found(fs)).servers \subseteq Servers
  BY <1>2, FoundIs, PathTyped, AtTyped, FileTyped DEF At
<1>4. ASSUME step' \in {"refused", "relocate", "backup", "write"},
             path' \in Paths \union {NoPath}, servers' \subseteq Servers, raw' \in File,
             retire' \in Dirs \union {NoDirName}, retire' # NoDirName => HasEnv(fs, retire'),
             step' = "backup" => path' \in Paths /\ raw' = At(fs, path') /\ raw'.kind = "v1",
             step' = "write" => path' \in Paths
      PROVE  TypeInv'
  <2>1. RestTyped'
    BY <1>1, <1>2, <1>4 DEF RestTyped, Steps
  <2>2. StageOK'
    BY <1>2, <1>4 DEF StageOK
  <2> QED BY <1>2, <2>1, <2>2, TypeIsNext
<1>5. CASE Refuses \/ FindsNothing
  BY <1>1, <1>2, <1>4, <1>5 DEF Refuses, FindsNothing, RestTyped
<1>6. CASE ReadsList
  BY <1>1, <1>2, <1>3, <1>4, <1>6 DEF ReadsList, RestTyped
<1>7. CASE ReadsLegacy
  <2>1. servers' \subseteq Servers
    BY <1>2, <1>3, <1>7, LiftedTyped DEF ReadsLegacy
  <2>2. retire' \in Dirs \union {NoDirName} /\ (retire' # NoDirName => HasEnv(fs, retire'))
    BY <1>3, <1>7 DEF ReadsLegacy
  <2> QED BY <1>3, <1>4, <1>7, <2>1, <2>2 DEF ReadsLegacy
<1>8. CASE Imports
  <2>1. ImportDir(fs) \in Dirs /\ HasEnv(fs, ImportDir(fs))
    BY <1>8, ImportIs DEF Imports, Holds
  <2>2. path' \in Paths
    BY <1>8, <2>1 DEF Imports, Paths, ConfigNames
  <2>3. servers' \subseteq Servers
    BY <1>2, <1>8, <2>1, AtTyped, FileTyped DEF Imports, Names
  <2> QED BY <1>2, <1>4, <1>8, <2>1, <2>2, <2>3 DEF Imports, RestTyped
<1> QED
  BY <1>5, <1>6, <1>7, <1>8, FindFileReads

LEMMA LegacyKept ==
  ASSUME TypeInv, step = "backup"
  PROVE  KeptBecomes(fs, Keep(fs, path.dir, raw), path.dir, fs[path.dir].kept \union {Mine(raw)})
<1>1. path \in Paths /\ raw = At(fs, path) /\ raw.kind = "v1" /\ fs \in FileSystem
  BY TypeIs DEF TypeInv, StageOK
<1>2. path.dir \in Dirs /\ raw \in File /\ Present(raw) /\ fs[path.dir].there
  BY <1>1, PathTyped, AtTyped DEF At, Present
<1>3. raw \in Backup
  BY <1>2, FileTyped
<1> QED BY <1>1, <1>2, <1>3, KeepSets

LEMMA BackUpTyped == ASSUME TypeInv, BackUp PROVE TypeInv'
<1>1. /\ step = "backup" /\ UNCHANGED committing /\ fs \in FileSystem /\ RestTyped /\ StageOK
      /\ path \in Paths
  BY TypeIs DEF BackUp, StageOK
<1>2. CASE Works /\ fs' = Keep(fs, path.dir, raw) /\ step' = Commit("start")
  <2>1. KeptBecomes(fs, fs', path.dir, fs[path.dir].kept \union {Mine(raw)})
    BY <1>1, <1>2, LegacyKept
  <2>2. fs' \in FileSystem /\ \A d \in Dirs : fs'[d].file = fs[d].file
    BY <1>1, <2>1 DEF KeptBecomes
  <2>3. RestTyped'
    BY <1>1, <1>2, CommitIs DEF RestTyped, Steps, committing, found, Works
  <2>4. retire # NoDirName => HasEnv(fs', retire)
    BY <1>1, <2>2 DEF HasEnv, StageOK, Commits, RestTyped
  <2>5. StageOK'
    BY <1>1, <1>2, <2>4, CommitIs DEF StageOK, committing, found
  <2> QED BY <2>2, <2>3, <2>5, TypeIsNext
<1>3. CASE Fails /\ step' = "relocate"
  <2>1. RestTyped'
    BY <1>1, <1>3 DEF RestTyped, Steps, committing, found, Fails
  <2>2. StageOK'
    BY <1>3 DEF StageOK, Commits
  <2> QED BY <1>1, <1>3, <2>1, <2>2, TypeIsNext DEF Fails
<1> QED BY <1>2, <1>3 DEF BackUp

LEMMA WriteUpgradeTyped == ASSUME TypeInv, WriteUpgrade PROVE TypeInv'
<1>1. /\ step = "write" /\ UNCHANGED committing /\ fs \in FileSystem /\ RestTyped /\ StageOK
      /\ path \in Paths
  BY TypeIs DEF WriteUpgrade, StageOK
<1>2. CASE Works /\ fs' = Put(fs, path, V2(Rendered)) /\ step' = Commit("write")
  <2>1. FileBecomes(fs, fs', path.dir, path.name, V2(servers))
    BY <1>1, <1>2, V2Typed, PutSets DEF Rendered, RestTyped
  <2>2. fs' \in FileSystem /\ \A d \in Dirs : fs'[d].file[".env"] = fs[d].file[".env"]
    BY <1>1, <2>1, PathTyped DEF FileBecomes, Names
  <2>3. RestTyped'
    BY <1>1, <1>2, CommitIs DEF RestTyped, Steps, committing, found, Works
  <2>4. retire # NoDirName => HasEnv(fs', retire)
    BY <1>1, <2>2 DEF HasEnv, StageOK, Commits, RestTyped
  <2>5. StageOK'
    BY <1>1, <1>2, <2>4, CommitIs DEF StageOK, committing, found
  <2> QED BY <2>2, <2>3, <2>5, TypeIsNext
<1>3. CASE Fails /\ step' = "relocate"
  <2>1. RestTyped'
    BY <1>1, <1>3 DEF RestTyped, Steps, committing, found, Fails
  <2>2. StageOK'
    BY <1>3 DEF StageOK, Commits
  <2> QED BY <1>1, <1>3, <2>1, <2>2, TypeIsNext DEF Fails
<1> QED BY <1>2, <1>3 DEF WriteUpgrade

\* A file becomes a backup beside itself.
PutAside(F, H, d, n) ==
  /\ H \in FileSystem /\ H[d].there = TRUE /\ H[d].file[n] = NoFile
  /\ \A m \in Names \ {n} : H[d].file[m] = F[d].file[m]
  /\ H[d].kept = F[d].kept \union {Mine(F[d].file[n])}
  /\ \A e \in Dirs \ {d} : H[e] = F[e]

LEMMA AsidePuts ==
  ASSUME NEW F \in FileSystem, NEW d \in Dirs, NEW n \in Names, Present(F[d].file[n])
  PROVE  PutAside(F, [Keep(F, d, F[d].file[n]) EXCEPT ![d].file[n] = NoFile], d, n)
<1> DEFINE G == Keep(F, d, F[d].file[n])
           H == [G EXCEPT ![d].file[n] = NoFile]
<1>1. F[d].there /\ F[d].file[n] \in File
  BY AtTyped
<1>2. F[d].file[n] \in Backup
  BY <1>1, FileTyped
<1>3. KeptBecomes(F, G, d, F[d].kept \union {Mine(F[d].file[n])})
  BY <1>1, <1>2, KeepSets
<1> HIDE DEF G
<1>4. G \in FileSystem /\ G[d].there /\ NoFile \in File
  BY <1>3 DEF KeptBecomes, File
<1>5. FileBecomes(G, H, d, n, NoFile)
  BY <1>4, FileSet
<1> HIDE DEF H
<1>6. PutAside(F, H, d, n)
  BY <1>3, <1>5 DEF PutAside, KeptBecomes, FileBecomes
<1> QED BY <1>6 DEF G, H

LEMMA RetireEnvTyped == ASSUME TypeInv, RetireEnv PROVE TypeInv'
<1>1. /\ step = "retire" /\ step' = "relocate" /\ UNCHANGED committing
      /\ fs \in FileSystem /\ RestTyped /\ StageOK
  BY TypeIs, CommitIs DEF RetireEnv
<1>2. fs' \in FileSystem /\ failed' \in BOOLEAN
  <2>1. CASE retire # NoDirName /\ Works
             /\ fs' = [Keep(fs, retire, fs[retire].file[".env"]) EXCEPT
                         ![retire].file[".env"] = NoFile]
    <3>1. retire \in Dirs /\ Present(fs[retire].file[".env"])
      BY <1>1, <2>1 DEF StageOK, Commits, HasEnv, Readable, RestTyped
    <3>2. PutAside(fs, fs', retire, ".env")
      BY <1>1, <2>1, <3>1, AsidePuts DEF Names
    <3> QED BY <1>1, <2>1, <3>2 DEF PutAside, Works, RestTyped
  <2>2. CASE UNCHANGED fs
    BY <1>1, <2>2 DEF RetireEnv, Works, Fails, RestTyped
  <2> QED BY <2>1, <2>2 DEF RetireEnv, Fails
<1>3. RestTyped'
  BY <1>1, <1>2 DEF RestTyped, Steps, committing, found
<1>4. StageOK'
  BY <1>1 DEF StageOK, Commits
<1> QED BY <1>2, <1>3, <1>4, TypeIsNext

LEMMA RelocateTyped == ASSUME TypeInv, Relocate PROVE TypeInv'
<1>1. /\ step = "relocate" /\ UNCHANGED <<had, pair, left, raw, retire, servers, skipped>>
      /\ fs \in FileSystem /\ RestTyped
  BY TypeIs DEF Relocate
<1>2. CASE LoadEnds /\ UNCHANGED <<fs, path>> /\ failed' \in BOOLEAN
  <2>1. RestTyped'
    BY <1>1, <1>2 DEF RestTyped, Steps, LoadEnds
  <2>2. StageOK'
    BY <1>2 DEF StageOK, Commits, LoadEnds
  <2> QED BY <1>1, <1>2, <2>1, <2>2, TypeIsNext
<1>3. CASE /\ Movable /\ Works /\ fs' = Put(fs, UserFile, V2(servers))
           /\ step' = "original" /\ UNCHANGED <<path, settled>>
  <2>1. FileBecomes(fs, fs', "home", "config.yml", V2(servers))
    BY <1>1, <1>3, V2Typed, UserFileTyped, PutSets DEF RestTyped
  <2>2. path \in Paths /\ path.dir \in SystemDirs /\ path.dir # "home"
    BY <1>1, <1>3 DEF Movable, RestTyped, SystemDirs
  <2>3. At(fs', path) = At(fs, path) /\ At(fs', UserFile) = V2(servers)
    BY <2>1, <2>2, PathTyped, UserFileTyped DEF FileBecomes, At
  <2>4. fs' \in FileSystem
    BY <2>1 DEF FileBecomes
  <2>5. RestTyped'
    BY <1>1, <1>3 DEF RestTyped, Steps, Works
  <2>6. StageOK'
    BY <1>1, <1>3, <2>2, <2>3 DEF StageOK, Commits, Movable
  <2> QED BY <2>4, <2>5, <2>6, TypeIsNext
<1> QED
  BY <1>1, <1>2, <1>3 DEF Relocate, Works, Fails, RestTyped

LEMMA RenameOriginalTyped == ASSUME TypeInv, RenameOriginal PROVE TypeInv'
<1>1. /\ step = "original" /\ path' = UserFile /\ LoadEnds
      /\ UNCHANGED <<had, pair, left, raw, retire, servers, skipped>>
      /\ fs \in FileSystem /\ RestTyped /\ StageOK
  BY TypeIs DEF RenameOriginal
<1>2. fs' \in FileSystem /\ failed' \in BOOLEAN
  <2>1. CASE Works /\ fs' = [Keep(fs, path.dir, At(fs, path)) EXCEPT
                               ![path.dir].file[path.name] = NoFile]
    <3>1. path.dir \in Dirs /\ path.name \in Names /\ Present(fs[path.dir].file[path.name])
      BY <1>1, PathTyped DEF StageOK, At
    <3>2. PutAside(fs, fs', path.dir, path.name)
      BY <1>1, <2>1, <3>1, AsidePuts DEF At
    <3> QED BY <1>1, <2>1, <3>2 DEF PutAside, Works, RestTyped
  <2>2. CASE Fails
    BY <1>1, <2>2 DEF Fails
  <2> QED BY <2>1, <2>2 DEF RenameOriginal
<1>3. RestTyped'
  BY <1>1, <1>2, UserFileTyped DEF RestTyped, Steps, LoadEnds
<1>4. StageOK'
  BY <1>1 DEF StageOK, Commits, LoadEnds
<1> QED BY <1>2, <1>3, <1>4, TypeIsNext

LEMMA SavePathTyped == ASSUME RestTyped PROVE SavePath \in Paths
BY UserFileTyped DEF RestTyped, SavePath

LEMMA SaveTyped == ASSUME TypeInv, NEW s \in Servers, Save(s) PROVE TypeInv'
<1>1. /\ step = "ready" /\ UNCHANGED <<step, pair, left, raw, retire, skipped, settled>>
      /\ fs \in FileSystem /\ RestTyped /\ servers' \subseteq Servers
  BY TypeIs DEF Save, RestTyped
<1>2. fs' \in FileSystem /\ failed' \in BOOLEAN /\ path' \in Paths \union {NoPath}
      /\ had' \subseteq Servers
  <2>1. CASE /\ Works /\ fs' = Put(fs, SavePath, V2(servers')) /\ path' = SavePath
             /\ had' = (had \ {s}) \union servers'
    <3>1. FileBecomes(fs, fs', SavePath.dir, SavePath.name, V2(servers'))
      BY <1>1, <2>1, SavePathTyped, V2Typed, PutSets
    <3> QED BY <1>1, <2>1, <3>1, SavePathTyped DEF FileBecomes, Works, RestTyped
  <2>2. CASE Fails /\ had' = had \ {s} /\ UNCHANGED path
    BY <1>1, <2>2 DEF Fails, RestTyped
  <2> QED BY <2>1, <2>2 DEF Save
<1>3. RestTyped'
  BY <1>1, <1>2 DEF RestTyped, Steps
<1>4. StageOK'
  BY <1>1 DEF StageOK, Commits
<1> QED BY <1>2, <1>3, <1>4, TypeIsNext

LEMMA EndsTyped == ASSUME TypeInv, ProcessEnds PROVE TypeInv'
<1>0. /\ step' = "off" /\ pair' = 0 /\ left' = {} /\ path' = NoPath /\ raw' = NoFile
      /\ retire' = NoDirName /\ servers' = {} /\ skipped' = {} /\ failed' = FALSE
      /\ had' = had /\ settled' = settled /\ RestTyped
  BY TypeIs DEF ProcessEnds, files
<1>a. step' \in Steps /\ raw' \in File
  BY <1>0 DEF File, Steps
<1>b. pair' \in 0 .. 3 /\ left' \subseteq Names \union {"backups"} /\ path' \in Paths \union {NoPath}
  BY <1>0
<1>c. /\ retire' \in Dirs \union {NoDirName} /\ servers' \subseteq Servers /\ skipped' \subseteq Paths
      /\ failed' \in BOOLEAN
  BY <1>0
<1>d. settled' \in BOOLEAN /\ had' \subseteq Servers
  BY <1>0 DEF RestTyped
<1>1. RestTyped'
  BY <1>a, <1>b, <1>c, <1>d DEF RestTyped
<1>2. StageOK'
  BY DEF ProcessEnds, StageOK, Commits
<1>3. fs' \in FileSystem
  BY TypeIs DEF ProcessEnds, files
<1> QED BY <1>1, <1>2, <1>3, TypeIsNext

LEMMA BeginsTyped == ASSUME TypeInv, LoadBegins PROVE TypeInv'
<1>1. RestTyped /\ StageOK /\ fs \in FileSystem
  BY TypeIs
<1>a. /\ left' = left /\ path' = path /\ raw' = raw /\ retire' = retire /\ servers' = servers
      /\ skipped' = skipped /\ settled' = settled /\ had' = had
  BY DEF LoadBegins, files, found
<1>b. pair' \in 0 .. 3 /\ step' \in Steps
  BY DEF LoadBegins, Steps
<1>h. failed' \in BOOLEAN
  BY DEF LoadBegins
<1>c. /\ left \subseteq Names \union {"backups"} /\ path \in Paths \union {NoPath}
      /\ raw \in File /\ retire \in Dirs \union {NoDirName} /\ servers \subseteq Servers
      /\ skipped \subseteq Paths /\ settled \in BOOLEAN /\ had \subseteq Servers
  BY <1>1 DEF RestTyped
<1>d. left' \subseteq Names \union {"backups"} /\ path' \in Paths \union {NoPath}
  BY <1>a, <1>c, Zenon
<1>e. raw' \in File /\ retire' \in Dirs \union {NoDirName}
  BY <1>a, <1>c, Zenon
<1>f. servers' \subseteq Servers /\ skipped' \subseteq Paths
  BY <1>a, <1>c, Zenon
<1>g. settled' \in BOOLEAN /\ had' \subseteq Servers
  BY <1>a, <1>c, Zenon
<1>2. RestTyped'
  BY <1>b, <1>h, <1>d, <1>e, <1>f, <1>g DEF RestTyped
<1>3. StageOK'
  BY <1>1 DEF LoadBegins, StageOK, files, found, Commits
<1> QED BY <1>1, <1>2, <1>3, TypeIsNext DEF LoadBegins, files

LEMMA ConfigInitTyped == ASSUME ConfigInit PROVE TypeInv
<1>1. fs \in FileSystem
  BY ConfigConstants DEF ConfigInit
<1>2. had \subseteq Servers
  <2>1. ASSUME NEW f \in AllFiles(fs) PROVE f.servers \subseteq Servers
    <3>1. PICK d \in Dirs : f \in {fs[d].file[n] : n \in Names} \union fs[d].kept
      BY DEF AllFiles
    <3>2. CASE f \in fs[d].kept
      BY <1>1, <3>2, DirTyped DEF Backup
    <3>3. CASE f \in {fs[d].file[n] : n \in Names}
      BY <1>1, <3>3, AtTyped, FileTyped
    <3> QED BY <3>1, <3>2, <3>3
  <2> QED BY <2>1 DEF ConfigInit
<1>a. /\ step = "off" /\ pair = 0 /\ left = {} /\ path = NoPath /\ raw = NoFile
      /\ retire = NoDirName /\ servers = {} /\ skipped = {} /\ failed = FALSE /\ settled = FALSE
  BY DEF ConfigInit
<1>b. step \in Steps /\ raw \in File
  BY <1>a DEF File, Steps
<1>c. pair \in 0 .. 3 /\ left \subseteq Names \union {"backups"} /\ path \in Paths \union {NoPath}
  BY <1>a
<1>d. /\ retire \in Dirs \union {NoDirName} /\ servers \subseteq Servers /\ skipped \subseteq Paths
      /\ failed \in BOOLEAN /\ settled \in BOOLEAN
  BY <1>a
<1>3. RestTyped
  BY <1>2, <1>b, <1>c, <1>d DEF RestTyped
<1>4. StageOK
  BY DEF ConfigInit, StageOK, Commits
<1> QED BY <1>1, <1>3, <1>4, TypeIs

LEMMA ConfigTyped == TypeInv /\ [ConfigNext]_configVars => TypeInv'
<1>1. ASSUME TypeInv, UNCHANGED configVars PROVE TypeInv'
  <2>1. RestTyped' /\ fs' \in FileSystem
    BY <1>1, TypeIs DEF configVars, files, loading, RestTyped
  <2>2. StageOK'
    BY <1>1, TypeIs DEF configVars, files, loading, StageOK
  <2> QED BY <2>1, <2>2, TypeIsNext
<1> QED
  BY <1>1, MovePairTyped, MergeEntryTyped, MergeEndsTyped, FindFileTyped, BackUpTyped,
     WriteUpgradeTyped, RetireEnvTyped, RelocateTyped, RenameOriginalTyped, SaveTyped, EndsTyped,
     BeginsTyped DEF ConfigNext, LoadNext

----------------------------------------------------------------------------
(* What the files hold, and that no operation of Load loses any of it.     *)

InDir(F, d, x) ==
  (\E n \in Names : x \in F[d].file[n].servers) \/ \E f \in F[d].kept : x \in f.servers
Held(F, x) == \E d \in Dirs : InDir(F, d, x)

LEMMA HeldIs ==
  ASSUME NEW F, NEW x
  PROVE  x \in UNION {f.servers : f \in AllFiles(F)} <=> Held(F, x)
<1>1. ASSUME x \in UNION {f.servers : f \in AllFiles(F)} PROVE Held(F, x)
  <2>1. PICK f \in AllFiles(F) : x \in f.servers
    BY <1>1
  <2>2. PICK d \in Dirs : f \in {F[d].file[n] : n \in Names} \union F[d].kept
    BY <2>1 DEF AllFiles
  <2>3. InDir(F, d, x)
    BY <2>1, <2>2 DEF InDir
  <2> QED BY <2>3 DEF Held
<1>2. ASSUME Held(F, x) PROVE x \in UNION {f.servers : f \in AllFiles(F)}
  <2>1. PICK d \in Dirs : InDir(F, d, x)
    BY <1>2 DEF Held
  <2>2. PICK f : f \in {F[d].file[n] : n \in Names} \union F[d].kept /\ x \in f.servers
    BY <2>1 DEF InDir
  <2>3. f \in AllFiles(F)
    BY <2>2 DEF AllFiles
  <2> QED BY <2>2, <2>3
<1> QED BY <1>1, <1>2

LEMMA LostIs == NothingLost <=> \A x \in had : Held(fs, x)
BY HeldIs DEF NothingLost
LEMMA LostIsNext == NothingLost' <=> \A x \in had' : Held(fs', x)
<1>1. \A x : x \in UNION {f.servers : f \in AllFiles(fs')} <=> Held(fs', x)
  BY HeldIs
<1>2. NothingLost' <=> had' \subseteq UNION {f.servers : f \in AllFiles(fs')}
  BY DEF NothingLost, AllFiles
<1> QED BY <1>1, <1>2

LEMMA NothingIn ==
  ASSUME NEW x PROVE ~(x \in NoFile.servers) /\ \A F : \A d : F[d] = NoDir => ~InDir(F, d, x)
<1>1. NoFile.servers = {} /\ NoDir.kept = {} /\ \A n \in Names : NoDir.file[n] = NoFile
  BY DEF NoFile, NoDir
<1> QED BY <1>1 DEF InDir

LEMMA FileHolds ==
  ASSUME NEW F, NEW H, NEW d \in Dirs, NEW n \in Names, NEW f, FileBecomes(F, H, d, n, f),
         NEW x, Held(F, x), x \in F[d].file[n].servers => x \in f.servers
  PROVE  Held(H, x)
<1>1. PICK e \in Dirs : InDir(F, e, x)
  BY DEF Held
<1>2. InDir(H, e, x)
  BY <1>1 DEF InDir, FileBecomes
<1> QED BY <1>2 DEF Held

LEMMA KeptHolds ==
  ASSUME NEW F, NEW H, NEW d \in Dirs, NEW K, KeptBecomes(F, H, d, K), F[d].kept \subseteq K,
         NEW x, Held(F, x)
  PROVE  Held(H, x)
<1>1. PICK e \in Dirs : InDir(F, e, x)
  BY DEF Held
<1>2. InDir(H, e, x)
  BY <1>1 DEF InDir, KeptBecomes
<1> QED BY <1>2 DEF Held

LEMMA AsideHolds ==
  ASSUME NEW F \in FileSystem, NEW H, NEW d \in Dirs, NEW n \in Names, PutAside(F, H, d, n),
         Present(F[d].file[n]), NEW x, Held(F, x)
  PROVE  Held(H, x)
<1>1. PICK e \in Dirs : InDir(F, e, x)
  BY DEF Held
<1>2. F[d].file[n] \in Backup
  BY AtTyped, FileTyped
<1>3. Mine(F[d].file[n]).servers = F[d].file[n].servers
  BY <1>2, MineTyped
<1>4. InDir(H, e, x)
  <2>1. CASE e # d
    BY <1>1, <2>1 DEF InDir, PutAside
  <2>2. CASE e = d /\ \E f \in F[d].kept : x \in f.servers
    BY <2>2 DEF InDir, PutAside
  <2>3. CASE e = d /\ \E m \in Names : x \in F[d].file[m].servers
    <3>1. PICK m \in Names : x \in F[d].file[m].servers
      BY <2>3
    <3>2. CASE m = n
      BY <1>3, <2>3, <3>1, <3>2 DEF InDir, PutAside
    <3>3. CASE m # n
      BY <2>3, <3>1, <3>3 DEF InDir, PutAside
    <3> QED BY <3>2, <3>3
  <2> QED BY <1>1, <2>1, <2>2, <2>3 DEF InDir
<1> QED BY <1>4 DEF Held

LEMMA DirMovedHolds ==
  ASSUME NEW F \in FileSystem, NEW H, NEW k \in 1 .. 2, DirMoves(F, H, k), ~F[To(k)].there,
         NEW x, Held(F, x)
  PROVE  Held(H, x)
<1>1. PICK e \in Dirs : InDir(F, e, x)
  BY DEF Held
<1>2. From(k) \in Dirs /\ To(k) \in Dirs /\ From(k) # To(k)
  BY PairTyped
<1>3. e # To(k)
  BY <1>1, <1>2, DirTyped, NothingIn
<1>4. CASE e = From(k)
  <2>1. InDir(H, To(k), x)
    BY <1>1, <1>4 DEF InDir, DirMoves
  <2> QED BY <1>2, <2>1 DEF Held
<1>5. CASE e # From(k)
  <2>1. InDir(H, e, x)
    BY <1>1, <1>3, <1>5 DEF InDir, DirMoves
  <2> QED BY <2>1 DEF Held
<1> QED BY <1>4, <1>5

LEMMA BackupsHold ==
  ASSUME NEW F, NEW H, NEW k \in 1 .. 2, BackupsMove(F, H, k), NEW x, Held(F, x)
  PROVE  Held(H, x)
<1>1. PICK e \in Dirs : InDir(F, e, x)
  BY DEF Held
<1>2. From(k) \in Dirs /\ To(k) \in Dirs /\ From(k) # To(k)
  BY PairTyped
<1>3. CASE e = From(k) /\ \E f \in F[e].kept : x \in f.servers
  <2>1. InDir(H, To(k), x)
    BY <1>3 DEF InDir, BackupsMove
  <2> QED BY <1>2, <2>1 DEF Held
<1>4. CASE ~(e = From(k) /\ \E f \in F[e].kept : x \in f.servers)
  <2>1. InDir(H, e, x)
    BY <1>1, <1>2, <1>4 DEF InDir, BackupsMove
  <2> QED BY <2>1 DEF Held
<1> QED BY <1>3, <1>4

\* Nothing is left in a directory without entries.
LEMMA GoneHolds ==
  ASSUME NEW F \in FileSystem, NEW H, NEW k \in 1 .. 2, DirGoes(F, H, k), Entries(F, From(k)) = {},
         NEW x, Held(F, x)
  PROVE  Held(H, x)
<1>1. PICK e \in Dirs : InDir(F, e, x)
  BY DEF Held
<1>2. From(k) \in Dirs
  BY PairTyped
<1>3. F[From(k)].kept = {} /\ \A n \in Names : F[From(k)].file[n] = NoFile
  BY <1>2, EntriesTyped, AtTyped, FileTyped
<1>4. e # From(k)
  BY <1>1, <1>3, NothingIn DEF InDir
<1>5. InDir(H, e, x)
  BY <1>1, <1>4 DEF InDir, DirGoes
<1> QED BY <1>5 DEF Held

\* A file that is moved over another one: that one is empty, unless it was locked.
LEMMA EntryHolds ==
  ASSUME NEW F \in FileSystem, NEW H, NEW k \in 1 .. 2, NEW n \in Names, EntryMoves(F, H, k, n),
         OldWins(n, F[To(k)].file[n]) => F[To(k)].file[n].servers = {},
         NEW x, Held(F, x)
  PROVE  Held(H, x)
<1>1. PICK e \in Dirs : InDir(F, e, x)
  BY DEF Held
<1>2. From(k) \in Dirs /\ To(k) \in Dirs /\ From(k) # To(k)
  BY PairTyped
<1>3. CASE x \in F[From(k)].file[n].servers
  <2>1. InDir(H, To(k), x)
    BY <1>3 DEF InDir, EntryMoves
  <2> QED BY <1>2, <2>1 DEF Held
<1>4. CASE x \notin F[From(k)].file[n].servers /\ e = From(k)
  <2>1. InDir(H, e, x)
    BY <1>1, <1>4 DEF InDir, EntryMoves
  <2> QED BY <2>1 DEF Held
<1>5. CASE e = To(k)
  <2>1. CASE OldWins(n, F[To(k)].file[n])
    <3>1. InDir(H, e, x)
      BY <1>1, <1>5, <2>1 DEF InDir, EntryMoves
    <3> QED BY <3>1 DEF Held
  <2>2. CASE ~OldWins(n, F[To(k)].file[n])
    <3>1. InDir(H, e, x)
      BY <1>1, <1>5, <2>2 DEF InDir, EntryMoves
    <3> QED BY <3>1 DEF Held
  <2> QED BY <2>1, <2>2
<1>6. CASE e # To(k) /\ e # From(k)
  <2>1. InDir(H, e, x)
    BY <1>1, <1>6 DEF InDir, EntryMoves
  <2> QED BY <2>1 DEF Held
<1> QED BY <1>3, <1>4, <1>5, <1>6

----------------------------------------------------------------------------
(* Nothing is lost where the administrator's files are not in the way.     *)

\* pgtui's directory beside pgtower's, and the other way round.
Twin(d) == CASE d = "home" -> "pgtuiHome" [] d = "pgtuiHome" -> "home"
             [] d = "opt" -> "pgtuiOpt" [] d = "pgtuiOpt" -> "opt"
OwnDirs == {"home", "opt"}
Locked(F, d, n) == F[d].file[n].perm = "locked"

\* A file that pgtower may not read has no connection of a .env to its side, and no file
\* of the same name comes to it from pgtui's directory.
Guarded(F) ==
  \A d \in Dirs, n \in ConfigNames : Locked(F, d, n) =>
    /\ ~Holds(F, d) /\ ~Holds(F, Twin(d))
    /\ d \in OwnDirs => ~Present(F[Twin(d)].file[n])
LockedAside == \A F \in StartFiles : Guarded(F)

LEMMA Twins ==
  /\ Twin("home") = "pgtuiHome" /\ Twin("pgtuiHome") = "home"
  /\ Twin("opt") = "pgtuiOpt" /\ Twin("pgtuiOpt") = "opt"
  /\ \A d \in Dirs : Twin(d) \in Dirs /\ Twin(d) # d /\ Twin(Twin(d)) = d
                     /\ (Twin(d) \in OwnDirs <=> d \notin OwnDirs)
  /\ \A k \in 1 .. 2 : /\ Twin(From(k)) = To(k) /\ Twin(To(k)) = From(k)
                       /\ To(k) \in OwnDirs /\ From(k) \notin OwnDirs
<1>1. /\ Twin("home") = "pgtuiHome" /\ Twin("pgtuiHome") = "home"
      /\ Twin("opt") = "pgtuiOpt" /\ Twin("pgtuiOpt") = "opt"
  BY DEF Twin
<1>2. \A d \in Dirs : Twin(d) \in Dirs /\ Twin(d) # d /\ Twin(Twin(d)) = d
                     /\ (Twin(d) \in OwnDirs <=> d \notin OwnDirs)
  BY <1>1 DEF Dirs, OwnDirs
<1>3. \A k \in 1 .. 2 : k = 1 \/ k = 2
  OBVIOUS
<1> QED BY <1>1, <1>2, <1>3, PairDirs DEF OwnDirs

LEMMA GuardOf ==
  ASSUME NEW F, Guarded(F), NEW d \in Dirs, NEW n \in ConfigNames, Locked(F, d, n)
  PROVE  ~Holds(F, d) /\ ~Holds(F, Twin(d)) /\ (d \in OwnDirs => ~Present(F[Twin(d)].file[n]))
BY DEF Guarded

\* What does not lock a file, and brings no file beside a locked one, keeps the guard.
LEMMA GuardKept ==
  ASSUME NEW F, NEW H, Guarded(F),
         \A d \in Dirs, n \in ConfigNames : Locked(H, d, n) => Locked(F, d, n),
         \A d \in Dirs : Holds(H, d) => Holds(F, d),
         \A d \in OwnDirs, n \in ConfigNames :
           Locked(H, d, n) /\ Present(H[Twin(d)].file[n]) => Present(F[Twin(d)].file[n])
  PROVE  Guarded(H)
<1> SUFFICES ASSUME NEW d \in Dirs, NEW n \in ConfigNames, Locked(H, d, n)
             PROVE  /\ ~Holds(H, d) /\ ~Holds(H, Twin(d))
                    /\ d \in OwnDirs => ~Present(H[Twin(d)].file[n])
  BY DEF Guarded
<1>1. ~Holds(F, d) /\ ~Holds(F, Twin(d)) /\ (d \in OwnDirs => ~Present(F[Twin(d)].file[n]))
  BY GuardOf
<1> QED BY <1>1, Twins

LEMMA NoFileIs == ~Present(NoFile) /\ NoFile.perm # "locked" /\ ~Readable(NoFile)
BY DEF NoFile, Present, Readable

LEMMA NoDirIs ==
  ASSUME NEW F, NEW d, F[d] = NoDir
  PROVE  /\ \A n \in Names : F[d].file[n] = NoFile /\ ~Locked(F, d, n)
         /\ ~Holds(F, d)
<1>1. \A n \in Names : NoDir.file[n] = NoFile
  BY DEF NoDir
<1> QED BY <1>1, NoFileIs DEF Holds, HasEnv, Locked, Names

LEMMA ConfigIsName == ConfigNames \subseteq Names /\ ".env" \in Names /\ ".env" \notin ConfigNames
BY DEF Names, ConfigNames

\* A list is written where no locked file is beside it.
LEMMA FileGuarded ==
  ASSUME NEW F, NEW H, NEW p \in Paths, NEW f, Guarded(F), FileBecomes(F, H, p.dir, p.name, f),
         f.perm # "locked", p.dir \notin OwnDirs => ~Locked(F, Twin(p.dir), p.name)
  PROVE  Guarded(H)
<1> DEFINE d == p.dir
           n == p.name
<1>1. d \in Dirs /\ n \in ConfigNames
  BY PathTyped
<1>2. ASSUME NEW e \in Dirs, NEW m \in Names, e # d \/ m # n PROVE H[e].file[m] = F[e].file[m]
  BY <1>2 DEF FileBecomes
<1>3. H[d].file[n] = f
  BY DEF FileBecomes
<1> HIDE DEF d, n
<1>4. \A e \in Dirs, m \in ConfigNames : Locked(H, e, m) => Locked(F, e, m)
  BY <1>2, <1>3, ConfigIsName DEF Locked
<1>5. \A e \in Dirs : Holds(H, e) => Holds(F, e)
  BY <1>1, <1>2, ConfigIsName DEF Holds, HasEnv
<1>6. ASSUME NEW e \in OwnDirs, NEW m \in ConfigNames, Locked(H, e, m), Present(H[Twin(e)].file[m])
      PROVE  Present(F[Twin(e)].file[m])
  <2>1. e \in Dirs /\ Twin(e) \in Dirs /\ Twin(Twin(e)) = e /\ Twin(e) \notin OwnDirs
    BY Twins DEF OwnDirs, Dirs
  <2>2. Twin(e) # d \/ m # n
    BY <1>4, <1>6, <2>1 DEF d, n
  <2> QED BY <1>2, <1>6, <2>1, <2>2, ConfigIsName
<1> QED BY <1>4, <1>5, <1>6, GuardKept

\* A file that leaves its place for a backup guards nothing and disturbs nothing.
LEMMA AsideGuarded ==
  ASSUME NEW F, NEW H, NEW d \in Dirs, NEW n \in Names, Guarded(F), PutAside(F, H, d, n)
  PROVE  Guarded(H)
<1>1. \A e \in Dirs, m \in Names : H[e].file[m] = F[e].file[m] \/ H[e].file[m] = NoFile
  BY DEF PutAside
<1>2. \A e \in Dirs, m \in ConfigNames : Locked(H, e, m) => Locked(F, e, m)
  BY <1>1, NoFileIs, ConfigIsName DEF Locked
<1>3. \A e \in Dirs : Holds(H, e) => Holds(F, e)
  BY <1>1, NoFileIs, ConfigIsName DEF Holds, HasEnv
<1>4. \A e \in Dirs, m \in ConfigNames : Present(H[e].file[m]) => Present(F[e].file[m])
  BY <1>1, NoFileIs, ConfigIsName
<1> QED BY <1>2, <1>3, <1>4, GuardKept, Twins DEF OwnDirs, Dirs

LEMMA SameGuarded ==
  ASSUME NEW F, NEW H, Guarded(F), \A e \in Dirs : H[e].file = F[e].file
  PROVE  Guarded(H)
<1>1. \A e \in Dirs, m \in ConfigNames : Locked(H, e, m) => Locked(F, e, m)
  BY DEF Locked
<1>2. \A e \in Dirs : Holds(H, e) => Holds(F, e)
  BY DEF Holds, HasEnv
<1> QED BY <1>1, <1>2, GuardKept, Twins DEF OwnDirs, Dirs

LEMMA GoneGuarded ==
  ASSUME NEW F, NEW H, NEW k \in 1 .. 2, Guarded(F), DirGoes(F, H, k)
  PROVE  Guarded(H)
<1>1. \A e \in Dirs, m \in Names : H[e].file[m] = F[e].file[m] \/ H[e].file[m] = NoFile
  BY NoDirIs DEF DirGoes
<1>2. \A e \in Dirs, m \in ConfigNames : Locked(H, e, m) => Locked(F, e, m)
  BY <1>1, NoFileIs, ConfigIsName DEF Locked
<1>3. \A e \in Dirs : Holds(H, e) => Holds(F, e)
  BY <1>1, NoFileIs, ConfigIsName DEF Holds, HasEnv
<1>4. \A e \in Dirs, m \in ConfigNames : Present(H[e].file[m]) => Present(F[e].file[m])
  BY <1>1, NoFileIs, ConfigIsName
<1> QED BY <1>2, <1>3, <1>4, GuardKept, Twins DEF OwnDirs, Dirs

LEMMA DirMovedGuarded ==
  ASSUME NEW F, NEW H, NEW k \in 1 .. 2, Guarded(F), DirMoves(F, H, k)
  PROVE  Guarded(H)
<1> DEFINE d == From(k)
           t == To(k)
<1>1. /\ d \in Dirs /\ t \in Dirs /\ d # t /\ Twin(d) = t /\ Twin(t) = d
      /\ H[d] = NoDir /\ H[t] = F[d]
      /\ \A e \in Dirs \ {d, t} : H[e] = F[e]
  BY PairTyped, Twins DEF DirMoves
<1> HIDE DEF d, t
<1>2. /\ ~Holds(H, d) /\ \A n \in ConfigNames : ~Locked(H, d, n) /\ ~Present(H[d].file[n])
  BY <1>1, NoDirIs, NoFileIs, ConfigIsName
<1> SUFFICES ASSUME NEW e \in Dirs, NEW n \in ConfigNames, Locked(H, e, n)
             PROVE  /\ ~Holds(H, e) /\ ~Holds(H, Twin(e))
                    /\ e \in OwnDirs => ~Present(H[Twin(e)].file[n])
  BY DEF Guarded
<1>3. CASE e = d
  BY <1>2, <1>3
<1>4. CASE e = t
  <2>1. Locked(F, d, n)
    BY <1>1, <1>4 DEF Locked
  <2>2. ~Holds(F, d)
    BY <1>1, <2>1, GuardOf
  <2> QED BY <1>1, <1>2, <1>4, <2>2 DEF Holds, HasEnv
<1>5. CASE e # d /\ e # t
  <2>1. Twin(e) \in Dirs /\ Twin(e) # d /\ Twin(e) # t
    BY <1>1, <1>5, Twins
  <2>2. H[e] = F[e] /\ H[Twin(e)] = F[Twin(e)]
    BY <1>1, <1>5, <2>1
  <2>3. Locked(F, e, n)
    BY <2>2 DEF Locked
  <2> QED BY <2>2, <2>3, GuardOf DEF Holds, HasEnv
<1> QED BY <1>3, <1>4, <1>5

LEMMA EntryGuarded ==
  ASSUME NEW F \in FileSystem, NEW H, NEW k \in 1 .. 2, NEW n \in Names, Guarded(F),
         EntryMoves(F, H, k, n), Present(F[From(k)].file[n])
  PROVE  /\ Guarded(H)
         /\ OldWins(n, F[To(k)].file[n]) => F[To(k)].file[n].servers = {}
<1> DEFINE d == From(k)
           t == To(k)
<1>1. /\ d \in Dirs /\ t \in Dirs /\ d # t /\ Twin(d) = t /\ Twin(t) = d /\ t \in OwnDirs
      /\ d \notin OwnDirs
  BY PairTyped, Twins
<1>2. /\ H[d].file[n] = NoFile
      /\ H[t].file[n] = F[d].file[n] \/ H[t].file[n] = F[t].file[n]
      /\ \A m \in Names \ {n} : H[d].file[m] = F[d].file[m] /\ H[t].file[m] = F[t].file[m]
      /\ \A e \in Dirs \ {d, t} : H[e] = F[e]
  BY DEF EntryMoves
<1>2a. Present(F[d].file[n])
  OBVIOUS
<1>2b. F[t].file[n] \in File
  BY <1>1, AtTyped
<1> HIDE DEF d, t
<1>3. OldWins(n, F[t].file[n]) => F[t].file[n].servers = {}
  <2>1. ~Present(F[t].file[n]) => F[t].file[n].servers = {}
    BY <1>2b, FileTyped DEF NoFile
  <2>2. n \in ConfigNames => ~Locked(F, t, n)
    BY <1>1, <1>2a, GuardOf
  <2> QED BY <2>1, <2>2 DEF OldWins, HasConnections, Readable, Locked
<1>4. \A e \in Dirs : Holds(H, e) => Holds(F, e) \/ (e = t /\ Holds(F, d))
  BY <1>1, <1>2, NoFileIs, ConfigIsName DEF Holds, HasEnv
<1>5. Guarded(H)
  <2> SUFFICES ASSUME NEW e \in Dirs, NEW m \in ConfigNames, Locked(H, e, m)
               PROVE  /\ ~Holds(H, e) /\ ~Holds(H, Twin(e))
                      /\ e \in OwnDirs => ~Present(H[Twin(e)].file[m])
    BY DEF Guarded
  <2>0. m \in Names
    BY ConfigIsName
  <2>1. CASE e \notin {d, t}
    <3>1. Twin(e) \in Dirs /\ Twin(e) # d /\ Twin(e) # t
      BY <1>1, <2>1, Twins
    <3>2. Locked(F, e, m)
      BY <1>2, <2>1 DEF Locked
    <3> QED BY <1>2, <1>4, <2>1, <3>1, <3>2, GuardOf
  <2>2. CASE e = d
    <3>1. Locked(F, d, m)
      BY <1>1, <1>2, <2>0, <2>2, NoFileIs DEF Locked
    <3>2. ~Holds(F, d) /\ ~Holds(F, t)
      BY <1>1, <3>1, GuardOf
    <3> QED BY <1>1, <1>4, <2>2, <3>2
  <2>3. CASE e = t
    <3>1. Locked(F, t, m) \/ (m = n /\ Locked(F, d, n))
      BY <1>1, <1>2, <2>0, <2>3 DEF Locked
    <3>2. ~Holds(F, d) /\ ~Holds(F, t)
      BY <1>1, <3>1, GuardOf
    <3>3. ~Present(H[d].file[m])
      <4>1. CASE m = n
        BY <1>2, <4>1, NoFileIs
      <4>2. CASE m # n
        <5>1. Locked(F, t, m) /\ H[d].file[m] = F[d].file[m]
          BY <1>2, <2>0, <3>1, <4>2
        <5> QED BY <1>1, <5>1, GuardOf
      <4> QED BY <4>1, <4>2
    <3> QED BY <1>1, <1>4, <2>3, <3>2, <3>3
  <2> QED BY <2>1, <2>2, <2>3
<1> QED BY <1>3, <1>5 DEF t

\* A list in pgtui's directory is written where no locked file of pgtower's hides it.
PathOK ==
  path # NoPath /\ path.dir \notin OwnDirs => ~Locked(fs, Twin(path.dir), path.name)

\* What is written over a list holds what the list did, as far as the user wants it; only
\* between a copy and the end of its original has the file to be saved no say.
Covered ==
  step \in Commits \union Later =>
    /\ path # NoPath => At(fs, path).servers \intersect had \subseteq servers
    /\ step # "original" =>
         SavePath \in skipped \/ At(fs, SavePath).servers \intersect had \subseteq servers

LostInv == Guarded(fs) /\ PathOK /\ Covered /\ NothingLost

LEMMA NoPathNoSystem == ASSUME path = NoPath PROVE SavePath = UserFile /\ PathOK
BY DEF SavePath, PathOK

\* A step that changes neither the file of the list nor what is remembered of it.
LEMMA CoveredKept ==
  ASSUME Covered, UNCHANGED <<path, servers, skipped, had>>,
         step \in (Commits \union Later) \ {"original"},
         path # NoPath => At(fs', path).servers \subseteq At(fs, path).servers \union servers,
         At(fs', SavePath).servers \subseteq At(fs, SavePath).servers \union servers
  PROVE  Covered'
<1>1. SavePath' = SavePath
  BY DEF SavePath
<1>2. Covered' <=>
        (step' \in Commits \union Later =>
          /\ path' # NoPath => At(fs', path').servers \intersect had' \subseteq servers'
          /\ step' # "original" =>
               \/ SavePath' \in skipped'
               \/ At(fs', SavePath').servers \intersect had' \subseteq servers')
  BY DEF Covered, At
<1>3. path # NoPath => At(fs, path).servers \intersect had \subseteq servers
  BY DEF Covered
<1>4. SavePath \in skipped \/ At(fs, SavePath).servers \intersect had \subseteq servers
  BY DEF Covered
<1>5. path' = path /\ servers' = servers /\ skipped' = skipped /\ had' = had
  OBVIOUS
<1>6. path # NoPath => At(fs', path).servers \intersect had \subseteq servers
  BY <1>3
<1>7. SavePath \in skipped \/ At(fs', SavePath).servers \intersect had \subseteq servers
  BY <1>4
<1> QED BY <1>1, <1>2, <1>5, <1>6, <1>7, Zenon

\* Before a file is found there is nothing to cover.
LEMMA SearchLoses ==
  ASSUME Guarded(fs)', path' = NoPath, step' \notin Commits \union Later,
         \A x \in had' : Held(fs', x)
  PROVE  LostInv'
<1>1. PathOK' /\ Covered'
  BY DEF PathOK, Covered
<1>2. NothingLost'
  BY LostIsNext
<1> QED BY <1>1, <1>2 DEF LostInv

LEMMA NextPairSteps == ASSUME NextPair PROVE step' \in {"move", "find"}
BY DEF NextPair

LEMMA MovePairLoses == ASSUME TypeInv, LostInv, MovePair PROVE LostInv'
<1>1. /\ step = "move" /\ pair \in 1 .. 2 /\ path = NoPath /\ path' = NoPath
      /\ had' = had /\ fs \in FileSystem /\ Guarded(fs)
  BY TypeIs DEF MovePair, StageOK, LostInv, found
<1>2. \A x \in had : Held(fs, x)
  BY LostIs DEF LostInv
<1>3. step' \notin Commits \union Later
  BY NextPairSteps DEF MovePair, Commits, Later
<1>4. CASE fs' = fs
  BY <1>1, <1>2, <1>3, <1>4, SearchLoses
<1>5. CASE ~fs[To(pair)].there /\ fs' = MoveDir(fs, Pairs[pair])
  <2>1. DirMoves(fs, fs', pair)
    BY <1>1, <1>5, MoveDirMoves
  <2>2. Guarded(fs')
    BY <1>1, <2>1, DirMovedGuarded
  <2>3. \A x \in had : Held(fs', x)
    BY <1>1, <1>2, <1>5, <2>1, DirMovedHolds
  <2> QED BY <1>1, <1>3, <2>2, <2>3, SearchLoses
<1> QED BY <1>4, <1>5 DEF MovePair, Fails, To

LEMMA MergeEntryLoses ==
  ASSUME TypeInv, LostInv, NEW n \in left, MergeEntry(n)
  PROVE  LostInv'
<1>1. /\ step = "merge" /\ pair \in 1 .. 2 /\ path = NoPath /\ path' = NoPath
      /\ had' = had /\ fs \in FileSystem /\ Guarded(fs)
      /\ fs[From(pair)].there /\ fs[To(pair)].there /\ left = Entries(fs, From(pair))
  BY TypeIs DEF MergeEntry, StageOK, LostInv, found
<1>2. \A x \in had : Held(fs, x)
  BY LostIs DEF LostInv
<1>3. step' \notin Commits \union Later
  BY NextPairSteps DEF MergeEntry, Commits, Later
<1>4. CASE fs' = fs
  BY <1>1, <1>2, <1>3, <1>4, SearchLoses
<1>5. CASE n = "backups" /\ fs' = MoveKept(fs, Pairs[pair])
  <2>1. BackupsMove(fs, fs', pair)
    BY <1>1, <1>5, MoveKeptMoves
  <2>2. Guarded(fs')
    BY <1>1, <2>1, SameGuarded DEF BackupsMove
  <2>3. \A x \in had : Held(fs', x)
    BY <1>1, <1>2, <2>1, BackupsHold
  <2> QED BY <1>1, <1>3, <2>2, <2>3, SearchLoses
<1>6. CASE n # "backups" /\ fs' = MoveEntry(fs, Pairs[pair], n)
  <2>1. n \in Names /\ Present(fs[From(pair)].file[n])
    BY <1>1, <1>6, PairTyped, EntriesTyped
  <2>2. EntryMoves(fs, fs', pair, n)
    BY <1>1, <1>6, <2>1, MoveEntryMoves
  <2>3. /\ Guarded(fs')
        /\ OldWins(n, fs[To(pair)].file[n]) => fs[To(pair)].file[n].servers = {}
    BY <1>1, <2>1, <2>2, EntryGuarded
  <2>4. \A x \in had : Held(fs', x)
    BY <1>1, <1>2, <2>1, <2>2, <2>3, EntryHolds
  <2> QED BY <1>1, <1>3, <2>3, <2>4, SearchLoses
<1> QED BY <1>4, <1>5, <1>6 DEF MergeEntry, Fails

LEMMA MergeEndsLoses == ASSUME TypeInv, LostInv, MergeEnds PROVE LostInv'
<1>1. /\ step = "merge" /\ pair \in 1 .. 2 /\ path = NoPath /\ path' = NoPath
      /\ had' = had /\ fs \in FileSystem /\ Guarded(fs) /\ Entries(fs, From(pair)) = {}
  BY TypeIs DEF MergeEnds, StageOK, LostInv, found
<1>2. \A x \in had : Held(fs, x)
  BY LostIs DEF LostInv
<1>3. step' \notin Commits \union Later
  BY NextPairSteps DEF MergeEnds, Commits, Later
<1>4. CASE fs' = fs
  BY <1>1, <1>2, <1>3, <1>4, SearchLoses
<1>5. CASE fs' = [fs EXCEPT ![Pairs[pair].from] = NoDir]
  <2>1. DirGoes(fs, fs', pair)
    BY <1>1, <1>5, RemoveDirGoes
  <2>2. Guarded(fs')
    BY <1>1, <2>1, GoneGuarded
  <2>3. \A x \in had : Held(fs', x)
    BY <1>1, <1>2, <2>1, GoneHolds
  <2> QED BY <1>1, <1>3, <2>2, <2>3, SearchLoses
<1> QED BY <1>4, <1>5 DEF MergeEnds, Fails

\* What the search passed over, or read: the file of the user, if it is there.
LEMMA SavePathCovered ==
  ASSUME TypeInv, FindFile, LostInv, path' \in Paths \union {NoPath},
         path' # NoPath => At(fs, path').servers \subseteq servers',
         Found(fs) = UserFile => path' = UserFile
  PROVE  SavePath' \in skipped' \/ At(fs, SavePath').servers \subseteq servers'
<1>1. fs \in FileSystem /\ skipped' = Passed(fs)
  BY TypeIs, FindFileReads
<1>2. CASE SavePath' = path' /\ path' # NoPath
  BY <1>2
<1>3. CASE SavePath' = UserFile /\ path' # UserFile
  <2>1. ~Readable(At(fs, UserFile))
    BY <1>3, FoundIs
  <2>2. At(fs, UserFile) \in File
    BY <1>1, UserFileTyped, PathTyped, AtTyped DEF At
  <2>3. CASE ~Present(At(fs, UserFile))
    <3>1. At(fs, UserFile).servers = {}
      BY <2>2, <2>3, FileTyped DEF NoFile
    <3> QED BY <1>3, <3>1
  <2>4. CASE At(fs, UserFile).perm = "locked"
    <3>1. /\ 1 \in DOMAIN Candidates /\ Candidates[1] = UserFile
          /\ \A k \in 1 .. 1 : ~Readable(At(fs, Candidates[k]))
      BY <2>1, CandidatesAre
    <3>2. UserFile \in Passed(fs)
      BY <2>4, <3>1 DEF Passed
    <3> QED BY <1>1, <1>3, <3>2
  <2> QED BY <2>1, <2>3, <2>4 DEF Readable
<1> QED BY <1>2, <1>3, UserFileTyped, NoPathIsNone DEF SavePath

LEMMA FindFileLoses == ASSUME TypeInv, LostInv, FindFile PROVE LostInv'
<1>1. /\ step = "find" /\ skipped' = Passed(fs) /\ path = NoPath /\ fs' = fs /\ had' = had
      /\ fs \in FileSystem /\ Guarded(fs)
  BY TypeIs, FindFileReads DEF StageOK, LostInv, files
<1>2. \A x \in had' : Held(fs', x)
  BY <1>1, LostIs DEF LostInv
<1>3. ASSUME path' \in Paths \union {NoPath}, step' # "original",
             path' # NoPath => At(fs, path').servers \subseteq servers',
             path' # NoPath /\ path'.dir \notin OwnDirs =>
               ~Locked(fs, Twin(path'.dir), path'.name),
             Found(fs) = UserFile => path' = UserFile
      PROVE  LostInv'
  <2>1. SavePath' \in skipped' \/ At(fs, SavePath').servers \subseteq servers'
    BY <1>3, SavePathCovered
  <2>2. Covered'
    BY <1>1, <1>3, <2>1 DEF Covered, At
  <2>3. PathOK'
    BY <1>1, <1>3 DEF PathOK, Locked
  <2>4. NothingLost'
    BY <1>2, LostIsNext
  <2> QED BY <1>1, <2>2, <2>3, <2>4 DEF LostInv
<1>4. CASE Refuses
  <2>1. step' \notin Commits \union Later /\ path' = NoPath
    BY <1>1, <1>4 DEF Refuses, Commits, Later
  <2> QED BY <1>1, <1>2, <2>1, SearchLoses
<1>5. CASE path' = Found(fs) /\ Found(fs) # NoPath /\ At(fs, Found(fs)).servers \subseteq servers'
           /\ step' # "original"
  <2>1. path' \in Paths /\ Readable(At(fs, path'))
    BY <1>5, FoundIs
  <2>2. ASSUME path'.dir \notin OwnDirs, Locked(fs, Twin(path'.dir), path'.name) PROVE FALSE
    <3>1. /\ path'.dir \in Dirs /\ path'.name \in ConfigNames
          /\ Twin(path'.dir) \in OwnDirs /\ Twin(path'.dir) \in Dirs
          /\ Twin(Twin(path'.dir)) = path'.dir
      BY <2>1, <2>2, PathTyped, Twins
    <3>2. ~Present(fs[path'.dir].file[path'.name])
      BY <1>1, <2>2, <3>1, GuardOf
    <3> QED BY <2>1, <3>2 DEF At, Readable
  <2> QED BY <1>3, <1>5, <2>1, <2>2
<1>6. CASE Imports
  <2> DEFINE d == ImportDir(fs)
  <2>1. d \in Dirs /\ Holds(fs, d)
    BY <1>6, ImportIs DEF Imports
  <2>2. path' = [dir |-> d, name |-> "config.yml"] /\ Found(fs) = NoPath /\ step' = "write"
    BY <1>6 DEF Imports
  <2> HIDE DEF d
  <2>3. path' \in Paths /\ path'.dir = d /\ path'.name = "config.yml" /\ "config.yml" \in ConfigNames
    BY <2>1, <2>2 DEF Paths, ConfigNames
  <2>4. ~Locked(fs, d, "config.yml") /\ ~Locked(fs, Twin(d), "config.yml")
    BY <1>1, <2>1, <2>3, GuardOf, Twins
  <2>5. At(fs, path').servers = {}
    <3>1. At(fs, path') \in File
      BY <1>1, <2>3, PathTyped, AtTyped DEF At
    <3>2. ~Present(At(fs, path'))
      BY <2>2, <2>3, <2>4, FoundIs DEF Readable, Locked, At
    <3> QED BY <3>1, <3>2, FileTyped DEF NoFile
  <2> QED BY <1>3, <2>2, <2>3, <2>4, <2>5, NoPathIsNone, UserFileTyped
<1>7. CASE FindsNothing
  BY <1>1, <1>3, <1>7, NoPathIsNone, UserFileTyped DEF FindsNothing
<1>8. CASE ReadsList
  BY <1>5, <1>8 DEF ReadsList
<1>9. CASE ReadsLegacy
  <2>1. At(fs, Found(fs)).servers \subseteq Lifted(fs, Found(fs))
    BY DEF Lifted
  <2> QED BY <1>5, <1>9, <2>1 DEF ReadsLegacy
<1> QED BY <1>4, <1>6, <1>7, <1>8, <1>9, FindFileReads

LEMMA LostSplit ==
  ASSUME Guarded(fs'), PathOK', Covered', \A x \in had' : Held(fs', x)
  PROVE  LostInv'
<1>1. NothingLost'
  BY LostIsNext
<1> QED BY <1>1 DEF LostInv

\* Nothing happens to the files, nor to what is known of them.
LEMMA StillCovered ==
  ASSUME LostInv, UNCHANGED <<fs, had, path, servers, skipped>>,
         step' \in Commits \union Later => step \in (Commits \union Later) \ {"original"}
  PROVE  LostInv'
<1>1. Guarded(fs') /\ PathOK' /\ \A x \in had' : Held(fs', x)
  BY LostIs DEF LostInv, PathOK, Locked
<1>2. Covered'
  <2>1. CASE step \in (Commits \union Later) \ {"original"}
    BY <2>1, CoveredKept DEF LostInv
  <2>2. CASE step' \notin Commits \union Later
    BY <2>2 DEF Covered
  <2> QED BY <2>1, <2>2
<1> QED BY <1>1, <1>2, LostSplit

LEMMA BackUpLoses == ASSUME TypeInv, LostInv, BackUp PROVE LostInv'
<1>1. /\ step = "backup" /\ path' = path /\ servers' = servers /\ skipped' = skipped
      /\ had' = had /\ fs \in FileSystem /\ path \in Paths
  BY TypeIs DEF BackUp, StageOK, committing, found
<1>2. CASE fs' = fs
  BY <1>1, <1>2, StillCovered DEF Commits, Later
<1>3. CASE fs' = Keep(fs, path.dir, raw)
  <2>1. KeptBecomes(fs, fs', path.dir, fs[path.dir].kept \union {Mine(raw)}) /\ path.dir \in Dirs
    BY <1>1, <1>3, LegacyKept, PathTyped
  <2>2. \A d \in Dirs : fs'[d].file = fs[d].file
    BY <2>1 DEF KeptBecomes
  <2>3. Guarded(fs')
    BY <2>2, SameGuarded DEF LostInv
  <2>4. \A x \in had' : Held(fs', x)
    BY <1>1, <2>1, LostIs, KeptHolds DEF LostInv
  <2>5. PathOK'
    BY <1>1, <2>2, PathTyped, Twins DEF LostInv, PathOK, Locked
  <2>6. \A p \in Paths : At(fs', p) = At(fs, p)
    BY <2>2, PathTyped DEF At
  <2>7. Covered'
    BY <1>1, <2>6, CoveredKept, SavePathTyped, TypeIs DEF Commits, Later, LostInv
  <2> QED BY <2>3, <2>4, <2>5, <2>7, LostSplit
<1> QED BY <1>2, <1>3 DEF BackUp, Fails

\* A list written over the file at p, in memory and on disk.
LEMMA PutLoses ==
  ASSUME LostInv, fs \in FileSystem, NEW p \in Paths, NEW f, FileBecomes(fs, fs', p.dir, p.name, f),
         f.perm # "locked", p.dir \notin OwnDirs => ~Locked(fs, Twin(p.dir), p.name),
         At(fs, p).servers \intersect had' \subseteq f.servers, had' \subseteq had \union f.servers
  PROVE  Guarded(fs') /\ \A x \in had' : Held(fs', x)
<1>1. Guarded(fs')
  BY FileGuarded DEF LostInv
<1>2. p.dir \in Dirs /\ p.name \in Names
  BY PathTyped
<1>3. ASSUME NEW x \in had' PROVE Held(fs', x)
  <2>1. CASE x \in f.servers
    <3>1. InDir(fs', p.dir, x)
      BY <1>2, <2>1 DEF InDir, FileBecomes
    <3> QED BY <1>2, <3>1 DEF Held
  <2>2. CASE x \notin f.servers
    <3>1. x \in had /\ x \notin fs[p.dir].file[p.name].servers
      BY <1>3, <2>2 DEF At
    <3>2. Held(fs, x)
      BY <3>1, LostIs DEF LostInv
    <3> QED BY <1>2, <3>1, <3>2, FileHolds
  <2> QED BY <2>1, <2>2
<1> QED BY <1>1, <1>3

\* The other files stay as they were.
LEMMA PutHere ==
  ASSUME NEW F, NEW H, NEW p \in Paths, NEW f, FileBecomes(F, H, p.dir, p.name, f)
  PROVE  At(H, p) = f
BY DEF FileBecomes, At

LEMMA PutElsewhere ==
  ASSUME NEW F, NEW H, NEW p \in Paths, NEW f, FileBecomes(F, H, p.dir, p.name, f),
         NEW q \in Paths, q # p
  PROVE  At(H, q) = At(F, q)
<1>1. /\ p.dir \in Dirs /\ p.name \in Names /\ q.dir \in Dirs /\ q.name \in Names
      /\ q.dir # p.dir \/ q.name # p.name
  BY DEF Paths, Names
<1> QED BY <1>1 DEF FileBecomes, At

\* A list written leaves no file locked that was not.
LEMMA PutPathOK ==
  ASSUME NEW F, NEW H, NEW p \in Paths, NEW f, FileBecomes(F, H, p.dir, p.name, f),
         f.perm # "locked", NEW q \in Paths, ~Locked(F, Twin(q.dir), q.name)
  PROVE  ~Locked(H, Twin(q.dir), q.name)
<1>1. /\ p.dir \in Dirs /\ p.name \in Names /\ Twin(q.dir) \in Dirs /\ q.name \in Names
  BY PathTyped, Twins
<1> QED BY <1>1 DEF FileBecomes, Locked

LEMMA WriteUpgradeLoses == ASSUME TypeInv, LostInv, WriteUpgrade PROVE LostInv'
<1>1. /\ step = "write" /\ path' = path /\ servers' = servers /\ skipped' = skipped
      /\ had' = had /\ fs \in FileSystem /\ path \in Paths /\ servers \subseteq Servers
      /\ path # NoPath /\ RestTyped
  BY TypeIs, NoPathIsNone DEF WriteUpgrade, StageOK, committing, found, RestTyped
<1>2. CASE fs' = fs
  BY <1>1, <1>2, StillCovered DEF Commits, Later
<1>3. CASE fs' = Put(fs, path, V2(Rendered))
  <2>1. FileBecomes(fs, fs', path.dir, path.name, V2(servers))
    BY <1>1, <1>3, V2Typed, PutSets DEF Rendered
  <2>2. /\ path.dir \notin OwnDirs => ~Locked(fs, Twin(path.dir), path.name)
        /\ At(fs, path).servers \intersect had \subseteq servers
    BY <1>1 DEF LostInv, PathOK, Covered, Commits
  <2>3. Guarded(fs') /\ \A x \in had' : Held(fs', x)
    BY <1>1, <2>1, <2>2, PutLoses, V2Typed
  <2>4. PathOK'
    BY <1>1, <2>1, <2>2, PutPathOK, V2Typed DEF PathOK
  <2>5. SavePath \in Paths
    BY <1>1, SavePathTyped
  <2>6. /\ At(fs', path).servers \subseteq servers
        /\ At(fs', SavePath).servers \subseteq At(fs, SavePath).servers \union servers
    <3>0. At(fs', path) = V2(servers)
      BY <1>1, <2>1, PutHere
    <3>1. At(fs', path).servers = servers
      BY <1>1, <3>0, V2Typed
    <3>2. SavePath # path => At(fs', SavePath) = At(fs, SavePath)
      BY <1>1, <2>1, <2>5, PutElsewhere
    <3> QED BY <3>1, <3>2
  <2>7. Covered'
    BY <1>1, <2>6, CoveredKept DEF Commits, Later, LostInv
  <2> QED BY <2>3, <2>4, <2>7, LostSplit
<1> QED BY <1>2, <1>3 DEF WriteUpgrade, Fails

LEMMA RetireEnvLoses == ASSUME TypeInv, LostInv, RetireEnv PROVE LostInv'
<1>1. /\ step = "retire" /\ path' = path /\ servers' = servers /\ skipped' = skipped
      /\ had' = had /\ fs \in FileSystem /\ RestTyped
  BY TypeIs DEF RetireEnv, StageOK, committing, found
<1>2. CASE fs' = fs
  BY <1>1, <1>2, StillCovered DEF Commits, Later
<1>3. CASE retire # NoDirName
           /\ fs' = [Keep(fs, retire, fs[retire].file[".env"]) EXCEPT ![retire].file[".env"] = NoFile]
  <2>1. retire \in Dirs /\ Present(fs[retire].file[".env"])
    BY <1>1, <1>3, TypeIs DEF StageOK, Commits, HasEnv, Readable, RestTyped
  <2>2. PutAside(fs, fs', retire, ".env")
    BY <1>1, <1>3, <2>1, AsidePuts DEF Names
  <2>3. Guarded(fs')
    BY <2>1, <2>2, AsideGuarded, ConfigIsName DEF LostInv
  <2>4. \A x \in had' : Held(fs', x)
    BY <1>1, <2>1, <2>2, LostIs, AsideHolds, ConfigIsName DEF LostInv
  <2>5. \A d \in Dirs, n \in ConfigNames : fs'[d].file[n] = fs[d].file[n]
    BY <2>1, <2>2, ConfigIsName DEF PutAside
  <2>6. PathOK'
    BY <1>1, <2>5, PathTyped, Twins DEF LostInv, PathOK, Locked, RestTyped
  <2>7. \A p \in Paths : At(fs', p) = At(fs, p)
    BY <2>5, PathTyped DEF At
  <2>8. path # NoPath => At(fs', path) = At(fs, path)
    BY <1>1, <2>7 DEF RestTyped
  <2>9. At(fs', SavePath) = At(fs, SavePath)
    BY <1>1, <2>7, SavePathTyped
  <2>10. Covered'
    BY <1>1, <2>8, <2>9, CoveredKept DEF Commits, Later, LostInv
  <2> QED BY <2>3, <2>4, <2>6, <2>10, LostSplit
<1> QED BY <1>2, <1>3 DEF RetireEnv, Fails

LEMMA RelocateLoses == ASSUME TypeInv, LostInv, Relocate PROVE LostInv'
<1>1. /\ step = "relocate" /\ path' = path /\ servers' = servers /\ skipped' = skipped
      /\ had' = had /\ fs \in FileSystem /\ RestTyped /\ servers \subseteq Servers
  BY TypeIs DEF Relocate, RestTyped
<1>2. CASE fs' = fs
  BY <1>1, <1>2, StillCovered DEF Commits, Later
<1>3. CASE Movable /\ fs' = Put(fs, UserFile, V2(servers)) /\ step' = "original"
  <2>1. FileBecomes(fs, fs', UserFile.dir, UserFile.name, V2(servers)) /\ UserFile.dir \in OwnDirs
    BY <1>1, <1>3, V2Typed, UserFileTyped, PutSets DEF OwnDirs
  <2>2. At(fs, UserFile).servers = {}
    <3>1. At(fs, UserFile) \in File
      BY <1>1, UserFileTyped, PathTyped, AtTyped DEF At
    <3> QED BY <1>3, <3>1, FileTyped DEF Movable, NoFile
  <2>3. Guarded(fs') /\ \A x \in had' : Held(fs', x)
    BY <1>1, <2>1, <2>2, PutLoses, V2Typed, UserFileTyped
  <2>4. path \in Paths /\ path.dir \in SystemDirs /\ path # NoPath /\ path # UserFile
    BY <1>1, <1>3, UserFileTyped DEF Movable, RestTyped, SystemDirs
  <2>5. PathOK'
    BY <1>1, <2>1, <2>4, PutPathOK, V2Typed, UserFileTyped DEF PathOK, LostInv
  <2>6. At(fs', path) = At(fs, path)
    BY <2>1, <2>4, PutElsewhere, UserFileTyped
  <2>7. Covered'
    BY <1>1, <1>3, <2>4, <2>6 DEF Covered, At, LostInv, Later
  <2> QED BY <2>3, <2>5, <2>7, LostSplit
<1> QED BY <1>2, <1>3 DEF Relocate, Fails

LEMMA RenameOriginalLoses == ASSUME TypeInv, LostInv, RenameOriginal PROVE LostInv'
<1>1. /\ step = "original" /\ path' = UserFile /\ servers' = servers /\ skipped' = skipped
      /\ had' = had /\ fs \in FileSystem /\ path \in Paths /\ path.dir \in SystemDirs
      /\ Present(At(fs, path)) /\ At(fs, UserFile) = V2(servers) /\ servers \subseteq Servers
  BY TypeIs DEF RenameOriginal, StageOK, RestTyped
<1>2. /\ path.dir \in Dirs /\ path.name \in Names /\ path.dir # "home"
  BY <1>1, PathTyped DEF SystemDirs
<1>3. ASSUME Guarded(fs'), \A x \in had : Held(fs', x), At(fs', UserFile) = V2(servers)
      PROVE  LostInv'
  <2>1. PathOK'
    BY <1>1, UserFileTyped DEF PathOK, OwnDirs
  <2>2. SavePath' = UserFile
    BY <1>1 DEF SavePath
  <2>3. At(fs', path').servers = servers' /\ At(fs', SavePath').servers = servers'
    BY <1>1, <1>3, <2>2, V2Typed
  <2>4. Covered'
    BY <2>3 DEF Covered, At
  <2> QED BY <1>1, <1>3, <2>1, <2>4, LostSplit
<1>4. CASE fs' = fs
  BY <1>1, <1>3, <1>4, LostIs DEF LostInv
<1>5. CASE fs' = [Keep(fs, path.dir, At(fs, path)) EXCEPT ![path.dir].file[path.name] = NoFile]
  <2>1. PutAside(fs, fs', path.dir, path.name) /\ Present(fs[path.dir].file[path.name])
    BY <1>1, <1>2, <1>5, AsidePuts DEF At
  <2>2. Guarded(fs')
    BY <1>2, <2>1, AsideGuarded DEF LostInv
  <2>3. \A x \in had : Held(fs', x)
    BY <1>1, <1>2, <2>1, AsideHolds, LostIs DEF LostInv
  <2>4. At(fs', UserFile) = V2(servers)
    BY <1>1, <1>2, <2>1, UserFileTyped, PathTyped DEF PutAside, At
  <2> QED BY <1>3, <2>2, <2>3, <2>4
<1> QED BY <1>4, <1>5 DEF RenameOriginal, Fails

LEMMA SaveLoses == ASSUME TypeInv, LostInv, NEW s \in Servers, Save(s) PROVE LostInv'
<1>1. /\ step = "ready" /\ step' = "ready" /\ skipped' = skipped /\ fs \in FileSystem /\ RestTyped
      /\ servers \subseteq Servers /\ servers' \subseteq Servers
      /\ servers \ {s} \subseteq servers' /\ path \in Paths \union {NoPath}
  BY TypeIs DEF Save, RestTyped
<1>2. /\ path # NoPath => At(fs, path).servers \intersect had \subseteq servers
      /\ SavePath \in skipped \/ At(fs, SavePath).servers \intersect had \subseteq servers
  BY <1>1 DEF LostInv, Covered, Later
<1>3. CASE fs' = fs /\ had' = had \ {s} /\ path' = path
  <2>1. SavePath' = SavePath
    BY <1>3 DEF SavePath
  <2>2. path # NoPath => At(fs, path).servers \intersect had' \subseteq servers'
    BY <1>1, <1>2, <1>3
  <2>3. SavePath \in skipped \/ At(fs, SavePath).servers \intersect had' \subseteq servers'
    BY <1>1, <1>2, <1>3
  <2>4. Covered'
    BY <1>1, <1>3, <2>1, <2>2, <2>3 DEF Covered, At
  <2>5. Guarded(fs') /\ PathOK' /\ \A x \in had' : Held(fs', x)
    BY <1>3, LostIs DEF LostInv, PathOK, Locked
  <2> QED BY <2>4, <2>5, LostSplit
<1>4. CASE /\ SavePath \notin skipped /\ fs' = Put(fs, SavePath, V2(servers'))
           /\ path' = SavePath /\ had' = (had \ {s}) \union servers'
  <2>1. SavePath \in Paths /\ SavePath # NoPath
    BY <1>1, SavePathTyped, NoPathIsNone
  <2>2. FileBecomes(fs, fs', SavePath.dir, SavePath.name, V2(servers'))
    BY <1>1, <1>4, <2>1, V2Typed, PutSets
  <2>3. At(fs, SavePath).servers \intersect had' \subseteq servers'
    BY <1>1, <1>2, <1>4
  <2>4. SavePath.dir \notin OwnDirs => ~Locked(fs, Twin(SavePath.dir), SavePath.name)
    BY UserFileTyped DEF SavePath, LostInv, PathOK, OwnDirs
  <2>5. Guarded(fs') /\ \A x \in had' : Held(fs', x)
    BY <1>1, <1>4, <2>1, <2>2, <2>3, <2>4, PutLoses, V2Typed
  <2>6. PathOK'
    BY <1>1, <1>4, <2>1, <2>2, <2>4, PutPathOK, V2Typed DEF PathOK
  <2>7. SavePath' = SavePath
    BY <1>4, UserFileTyped DEF SavePath, SystemDirs
  <2>8. At(fs', SavePath).servers = servers'
    <3>1. At(fs', SavePath) = V2(servers')
      BY <2>1, <2>2, PutHere
    <3> QED BY <1>1, <3>1, V2Typed
  <2>9. Covered'
    BY <1>4, <2>7, <2>8 DEF Covered, At
  <2> QED BY <2>5, <2>6, <2>9, LostSplit
<1> QED BY <1>3, <1>4 DEF Save, Fails

LEMMA OutsideLoses == ASSUME TypeInv, LostInv, ProcessEnds \/ LoadBegins PROVE LostInv'
<1>1. path' = NoPath /\ fs' = fs /\ had' = had /\ step' \in {"off", "move"}
  BY TypeIs DEF ProcessEnds, LoadBegins, files, found, StageOK
<1>2. step' \notin Commits \union Later
  BY <1>1 DEF Commits, Later
<1> QED BY <1>1, <1>2, SearchLoses, LostIs DEF LostInv

LEMMA LostKept == TypeInv /\ LostInv /\ [ConfigNext]_configVars => LostInv'
<1>1. ASSUME LostInv, UNCHANGED configVars PROVE LostInv'
  <2>1. UNCHANGED <<fs, had, path, servers, skipped, step>>
    BY <1>1 DEF configVars, files, loading
  <2>2. Guarded(fs') /\ PathOK' /\ Covered' /\ \A x \in had' : Held(fs', x)
    BY <1>1, <2>1, LostIs DEF LostInv, PathOK, Covered, Locked, At, SavePath
  <2> QED BY <2>2, LostSplit
<1> QED
  BY <1>1, MovePairLoses, MergeEntryLoses, MergeEndsLoses, FindFileLoses, BackUpLoses,
     WriteUpgradeLoses, RetireEnvLoses, RelocateLoses, RenameOriginalLoses, SaveLoses,
     OutsideLoses DEF ConfigNext, LoadNext

LEMMA LostStarts == ASSUME LockedAside, ConfigInit PROVE LostInv
<1>1. Guarded(fs) /\ NothingLost
  BY DEF LockedAside, ConfigInit, NothingLost
<1>2. PathOK /\ Covered
  BY DEF ConfigInit, PathOK, Covered, Commits, Later
<1> QED BY <1>1, <1>2 DEF LostInv

----------------------------------------------------------------------------
(* What a start shows: the files after both moves, whatever of them is     *)
(* done already.                                                           *)

\* The list that is read from the files as they are.
Read(F) ==
  IF Found(F) # NoPath
  THEN IF At(F, Found(F)).kind = "v1" THEN Lifted(F, Found(F)) ELSE At(F, Found(F)).servers
  ELSE IF ImportDir(F) # NoDirName THEN F[ImportDir(F)].file[".env"].servers
  ELSE {}

LEMMA ReadSame ==
  ASSUME NEW F, NEW H, \A d \in Dirs, n \in Names : H[d].file[n] = F[d].file[n]
  PROVE  Read(H) = Read(F)
<1>1. \A p \in Paths : At(H, p) = At(F, p)
  BY PathTyped DEF At
<1>2. Found(H) = Found(F)
  BY <1>1, FoundSame
<1>3. \A d \in Dirs : H[d].file[".env"] = F[d].file[".env"]
  BY ConfigIsName
<1>4. ImportDir(H) = ImportDir(F)
  BY <1>3, ImportSame DEF Holds, HasEnv
<1>5. CASE Found(F) # NoPath
  <2>1. Found(F) \in Paths /\ Found(F).dir \in Dirs
    BY <1>5, FoundIs, PathTyped
  <2>2. At(H, Found(F)) = At(F, Found(F)) /\ H[Found(F).dir].file[".env"] = F[Found(F).dir].file[".env"]
    BY <1>1, <1>3, <2>1
  <2>3. Lifted(H, Found(F)) = Lifted(F, Found(F))
    BY <2>2 DEF Lifted, HasEnv
  <2> QED BY <1>2, <1>5, <2>2, <2>3 DEF Read
<1>6. CASE Found(F) = NoPath
  <2>1. ImportDir(F) # NoDirName => H[ImportDir(F)].file[".env"] = F[ImportDir(F)].file[".env"]
    BY <1>3, ImportIs
  <2> QED BY <1>2, <1>4, <1>6, <2>1 DEF Read
<1> QED BY <1>5, <1>6

\* The file n of pgtower's directory after the move of the pair k.
Final(F, k, n) ==
  IF Present(F[From(k)].file[n]) /\ OldWins(n, F[To(k)].file[n]) THEN F[From(k)].file[n]
  ELSE F[To(k)].file[n]

LEMMA MergedIs ==
  ASSUME NEW F \in FileSystem, NEW k \in 1 .. 2
  PROVE  LET G == Merged(F, Pairs[k]) IN
         /\ G \in FileSystem
         /\ \A n \in Names : G[To(k)].file[n] = Final(F, k, n) /\ G[From(k)].file[n] = NoFile
         /\ \A e \in Dirs \ {From(k), To(k)} : G[e] = F[e]
<1> DEFINE d == From(k)
           t == To(k)
           file == [n \in Names |->
                     IF Present(F[d].file[n]) /\ OldWins(n, F[t].file[n]) THEN F[d].file[n]
                     ELSE F[t].file[n]]
<1>1. d \in Dirs /\ t \in Dirs /\ d # t
  BY PairTyped
<1>2. /\ F[d].file \in [Names -> File] /\ F[t].file \in [Names -> File]
      /\ DOMAIN F[t] = {"there", "file", "kept"}
      /\ F[t].kept \subseteq Backup /\ F[d].there \in BOOLEAN /\ F[t].there \in BOOLEAN
  BY <1>1, DirTyped
<1>3. file \in [Names -> File] /\ \A n \in Names : file[n] = Final(F, k, n)
  BY <1>2 DEF Final
<1> HIDE DEF file
<1>4. \A n \in Names : NoDir.file[n] = NoFile
  BY DEF NoDir
<1>5. CASE ~F[d].there
  <2>1. Merged(F, Pairs[k]) = F
    BY <1>5 DEF Merged, From
  <2>2. \A n \in Names : F[d].file[n] = NoFile
    BY <1>1, <1>4, <1>5, DirTyped
  <2> QED BY <2>1, <2>2, NoFileIs DEF Final
<1>6. CASE F[d].there /\ ~F[t].there
  <2>1. Merged(F, Pairs[k]) = MoveDir(F, Pairs[k])
    BY <1>6 DEF Merged, From, To
  <2>2. DirMoves(F, MoveDir(F, Pairs[k]), k)
    BY MoveDirMoves
  <2>3. \A n \in Names : F[t].file[n] = NoFile
    BY <1>1, <1>4, <1>6, DirTyped
  <2>4. \A n \in Names : Present(F[d].file[n]) \/ F[d].file[n] = NoFile
    BY <1>2, FileTyped
  <2>5. \A n \in Names : Final(F, k, n) = F[d].file[n]
    BY <2>3, <2>4, NoFileIs DEF Final, OldWins
  <2> QED BY <1>4, <2>1, <2>2, <2>5 DEF DirMoves
<1>7. CASE F[d].there /\ F[t].there
  <2> DEFINE new == Filled(file, F[t].kept)
             G == [F EXCEPT ![d] = NoDir]
             H == [G EXCEPT ![t] = new]
  <2>1. Merged(F, Pairs[k]) = [[F EXCEPT ![d] = NoDir] EXCEPT ![t].file = file]
    BY <1>1, <1>7, Zenon DEF Merged, From, To, file, FileSystem
  <2>2. NoDir \in Directory /\ new \in Directory /\ new.file = file
    BY <1>2, <1>3, FilledTyped DEF Directory, Filled
  <2>3. G \in FileSystem /\ G[d] = NoDir /\ \A e \in Dirs \ {d} : G[e] = F[e]
    BY <1>1, <2>2, Changed
  <2> HIDE DEF G, new
  <2>4. [G EXCEPT ![t].file = file] = [G EXCEPT ![t] = [F[t] EXCEPT !.file = file]]
    BY <1>1, <2>3, Zenon DEF FileSystem
  <2>5. [F[t] EXCEPT !.file = file] = new
    BY <1>2, <1>7, Refilled DEF new
  <2>6. H \in FileSystem /\ H[t] = new /\ \A e \in Dirs \ {t} : H[e] = G[e]
    BY <1>1, <2>2, <2>3, Changed
  <2>7. Merged(F, Pairs[k]) = H
    BY <2>1, <2>4, <2>5 DEF G
  <2> HIDE DEF H
  <2> QED BY <1>1, <1>3, <1>4, <2>2, <2>3, <2>6, <2>7
<1> QED BY <1>2, <1>5, <1>6, <1>7

LEMMA DirsArePairs ==
  /\ \A d \in Dirs : \E k \in 1 .. 2 : d = From(k) \/ d = To(k)
  /\ From(1) \notin {From(2), To(2)} /\ To(1) \notin {From(2), To(2)}
BY PairDirs DEF Dirs

\* The files a start reads, when both moves are done.
LEMMA ShownReads ==
  ASSUME NEW F \in FileSystem
  PROVE  LET G == Merged(Merged(F, Pairs[1]), Pairs[2]) IN
         /\ Shown(F) = Read(G) /\ G \in FileSystem
         /\ \A k \in 1 .. 2, n \in Names :
              G[To(k)].file[n] = Final(F, k, n) /\ G[From(k)].file[n] = NoFile
<1> DEFINE E == Merged(F, Pairs[1])
           G == Merged(E, Pairs[2])
<1>1. Shown(F) = Read(G)
  BY DEF Shown, Read
<1>2. /\ E \in FileSystem
      /\ \A n \in Names : E[To(1)].file[n] = Final(F, 1, n) /\ E[From(1)].file[n] = NoFile
      /\ \A e \in Dirs \ {From(1), To(1)} : E[e] = F[e]
  <2> DEFINE k == 1
  <2>1. k \in 1 .. 2
    OBVIOUS
  <2> HIDE DEF k
  <2>2. LET M == Merged(F, Pairs[k]) IN
         /\ M \in FileSystem
         /\ \A n \in Names : M[To(k)].file[n] = Final(F, k, n) /\ M[From(k)].file[n] = NoFile
         /\ \A e \in Dirs \ {From(k), To(k)} : M[e] = F[e]
    BY <2>1, MergedIs
  <2> QED BY <2>2 DEF k
<1> HIDE DEF E
<1>3. /\ G \in FileSystem
      /\ \A n \in Names : G[To(2)].file[n] = Final(E, 2, n) /\ G[From(2)].file[n] = NoFile
      /\ \A e \in Dirs \ {From(2), To(2)} : G[e] = E[e]
  <2> DEFINE k == 2
  <2>1. k \in 1 .. 2
    OBVIOUS
  <2> HIDE DEF k
  <2>2. LET M == Merged(E, Pairs[k]) IN
         /\ M \in FileSystem
         /\ \A n \in Names : M[To(k)].file[n] = Final(E, k, n) /\ M[From(k)].file[n] = NoFile
         /\ \A e \in Dirs \ {From(k), To(k)} : M[e] = E[e]
    BY <1>2, <2>1, MergedIs
  <2> QED BY <2>2 DEF k
<1> HIDE DEF G
<1>4. E[From(2)] = F[From(2)] /\ E[To(2)] = F[To(2)]
  BY <1>2, DirsArePairs, PairDirs DEF Dirs
<1>5. \A n \in Names : Final(E, 2, n) = Final(F, 2, n)
  BY <1>4 DEF Final
<1>6. G[From(1)] = E[From(1)] /\ G[To(1)] = E[To(1)]
  BY <1>3, DirsArePairs, PairDirs DEF Dirs
<1>7. \A k \in 1 .. 2 : k = 1 \/ k = 2
  OBVIOUS
<1>8. \A k \in 1 .. 2, n \in Names :
         G[To(k)].file[n] = Final(F, k, n) /\ G[From(k)].file[n] = NoFile
  BY <1>2, <1>3, <1>5, <1>6, <1>7
<1> QED BY <1>1, <1>3, <1>8 DEF G, E

\* What is not changed by the moves to come is shown unchanged.
LEMMA ShownSame ==
  ASSUME NEW F \in FileSystem, NEW H \in FileSystem,
         \A k \in 1 .. 2, n \in Names : Final(H, k, n) = Final(F, k, n)
  PROVE  Shown(H) = Shown(F)
<1> DEFINE G == Merged(Merged(F, Pairs[1]), Pairs[2])
           M == Merged(Merged(H, Pairs[1]), Pairs[2])
<1>1. /\ Shown(F) = Read(G)
      /\ \A k \in 1 .. 2, n \in Names :
           G[To(k)].file[n] = Final(F, k, n) /\ G[From(k)].file[n] = NoFile
  BY ShownReads
<1>2. /\ Shown(H) = Read(M)
      /\ \A k \in 1 .. 2, n \in Names :
           M[To(k)].file[n] = Final(H, k, n) /\ M[From(k)].file[n] = NoFile
  BY ShownReads
<1> HIDE DEF G, M
<1>3. \A d \in Dirs, n \in Names : M[d].file[n] = G[d].file[n]
  BY <1>1, <1>2, DirsArePairs
<1> QED BY <1>1, <1>2, <1>3, ReadSame

\* pgtui's directories are gone.
FromGone(F) == ~F["pgtuiHome"].there /\ ~F["pgtuiOpt"].there

LEMMA GoneIs ==
  ASSUME NEW F
  PROVE  FromGone(F) <=> \A k \in 1 .. 2 : ~F[From(k)].there
<1>1. \A k \in 1 .. 2 : k = 1 \/ k = 2
  OBVIOUS
<1> QED BY <1>1, PairDirs DEF FromGone

LEMMA ShownIsRead ==
  ASSUME NEW F \in FileSystem, FromGone(F)
  PROVE  Shown(F) = Read(F)
<1> DEFINE G == Merged(Merged(F, Pairs[1]), Pairs[2])
<1>1. /\ Shown(F) = Read(G)
      /\ \A k \in 1 .. 2, n \in Names :
           G[To(k)].file[n] = Final(F, k, n) /\ G[From(k)].file[n] = NoFile
  BY ShownReads
<1> HIDE DEF G
<1>2. \A k \in 1 .. 2, n \in Names : F[From(k)].file[n] = NoFile
  BY GoneIs, PairTyped, DirTyped, NoDirIs
<1>3. \A k \in 1 .. 2, n \in Names : Final(F, k, n) = F[To(k)].file[n]
  BY <1>2, NoFileIs DEF Final
<1>4. \A d \in Dirs, n \in Names : G[d].file[n] = F[d].file[n]
  BY <1>1, <1>2, <1>3, DirsArePairs
<1> QED BY <1>1, <1>4, ReadSame

LEMMA OtherPair ==
  ASSUME NEW k \in 1 .. 2, NEW j \in 1 .. 2, j # k
  PROVE  From(j) \in Dirs \ {From(k), To(k)} /\ To(j) \in Dirs \ {From(k), To(k)}
<1>1. (k = 1 /\ j = 2) \/ (k = 2 /\ j = 1)
  OBVIOUS
<1> QED BY <1>1, PairDirs DEF Dirs

\* Each move of an entry leaves what a start shows as it was.
LEMMA DirMovedShown ==
  ASSUME NEW F \in FileSystem, NEW H, NEW k \in 1 .. 2, DirMoves(F, H, k), ~F[To(k)].there
  PROVE  Shown(H) = Shown(F)
<1>1. /\ From(k) \in Dirs /\ To(k) \in Dirs /\ From(k) # To(k) /\ H \in FileSystem
  BY PairTyped DEF DirMoves
<1>2. \A n \in Names : F[To(k)].file[n] = NoFile /\ H[From(k)].file[n] = NoFile
  BY <1>1, DirTyped, NoDirIs DEF DirMoves
<1>3. \A n \in Names : Present(F[From(k)].file[n]) \/ F[From(k)].file[n] = NoFile
  BY <1>1, AtTyped, FileTyped
<1>4. \A n \in Names : Final(H, k, n) = Final(F, k, n)
  BY <1>2, <1>3, NoFileIs DEF Final, OldWins, DirMoves
<1>5. ASSUME NEW j \in 1 .. 2, j # k, NEW n \in Names PROVE Final(H, j, n) = Final(F, j, n)
  <2>1. From(j) \in Dirs \ {From(k), To(k)} /\ To(j) \in Dirs \ {From(k), To(k)}
    BY <1>5, OtherPair
  <2> QED BY <2>1 DEF Final, DirMoves
<1> QED BY <1>1, <1>4, <1>5, ShownSame

LEMMA EntryShown ==
  ASSUME NEW F \in FileSystem, NEW H, NEW k \in 1 .. 2, NEW n \in Names, EntryMoves(F, H, k, n),
         Present(F[From(k)].file[n])
  PROVE  Shown(H) = Shown(F)
<1>1. H \in FileSystem
  BY DEF EntryMoves
<1>2. Final(H, k, n) = Final(F, k, n)
  BY NoFileIs DEF Final, EntryMoves
<1>3. \A m \in Names \ {n} : Final(H, k, m) = Final(F, k, m)
  BY DEF Final, EntryMoves
<1>4. ASSUME NEW j \in 1 .. 2, j # k, NEW m \in Names PROVE Final(H, j, m) = Final(F, j, m)
  <2>1. From(j) \in Dirs \ {From(k), To(k)} /\ To(j) \in Dirs \ {From(k), To(k)}
    BY <1>4, OtherPair
  <2> QED BY <2>1 DEF Final, EntryMoves
<1> QED BY <1>1, <1>2, <1>3, <1>4, ShownSame

LEMMA FilesShown ==
  ASSUME NEW F \in FileSystem, NEW H \in FileSystem, \A e \in Dirs : H[e].file = F[e].file
  PROVE  Shown(H) = Shown(F)
BY PairTyped, ShownSame DEF Final

LEMMA GoneShown ==
  ASSUME NEW F \in FileSystem, NEW H, NEW k \in 1 .. 2, DirGoes(F, H, k), Entries(F, From(k)) = {}
  PROVE  Shown(H) = Shown(F)
<1>1. From(k) \in Dirs /\ To(k) \in Dirs /\ From(k) # To(k) /\ H \in FileSystem
  BY PairTyped DEF DirGoes
<1>2. \A n \in Names : ~Present(F[From(k)].file[n]) /\ ~Present(H[From(k)].file[n])
  BY <1>1, EntriesTyped, NoDirIs, NoFileIs DEF DirGoes
<1>3. \A n \in Names : Final(H, k, n) = Final(F, k, n)
  BY <1>1, <1>2 DEF Final, DirGoes
<1>4. ASSUME NEW j \in 1 .. 2, j # k, NEW m \in Names PROVE Final(H, j, m) = Final(F, j, m)
  <2>1. From(j) \in Dirs \ {From(k), To(k)} /\ To(j) \in Dirs \ {From(k), To(k)}
    BY <1>4, OtherPair
  <2> QED BY <2>1 DEF Final, DirGoes
<1> QED BY <1>1, <1>3, <1>4, ShownSame

----------------------------------------------------------------------------
(* A run whose changes have all worked shows what the files hold.          *)

NothingToLoad(F) == Found(F) = NoPath /\ ImportDir(F) = NoDirName
ReadFrom(p) == /\ p \in Paths /\ Found(fs) = p
               /\ At(fs, p).kind \notin {"v1", "bad"} /\ At(fs, p).servers = servers

Empty == step \in {"off", "move", "merge", "find"} => servers = {}

Moved ==
  ~failed =>
    /\ step \in {"move", "merge"} /\ pair = 2 => ~fs["pgtuiHome"].there
    /\ step \in {"find"} \union Commits \union Later => FromGone(fs)

ShownOK ==
  ~failed =>
    /\ step \in Commits \union Later => servers = Shown(fs)
    /\ step = "backup" => Found(fs) = path
    /\ step = "write" => \/ Found(fs) = path /\ At(fs, path).kind = "v1"
                         \/ Found(fs) = NoPath /\ path = [dir |-> ImportDir(fs), name |-> "config.yml"]
    /\ step = "retire" => ReadFrom(path)
    /\ step \in {"relocate", "ready"} => \/ ReadFrom(path)
                                         \/ path = NoPath /\ NothingToLoad(fs)
    /\ step = "original" => ReadFrom(UserFile)

ShownInv == Empty /\ Moved /\ ShownOK

\* A step of Load that works changes nothing that a start shows.
SameShown == ~failed' => Shown(fs') = Shown(fs)

LEMMA FailedShown ==
  ASSUME failed', step' \notin {"off", "move", "merge", "find"} \/ servers' = {}
  PROVE  ShownInv' /\ SameShown
BY DEF ShownInv, Empty, Moved, ShownOK, SameShown

LEMMA EmptyIs ==
  ASSUME ShownInv, step \in {"off", "move", "merge", "find"}
  PROVE  servers = {}
BY DEF ShownInv, Empty

\* Before anything is found.
LEMMA SearchShown ==
  ASSUME servers' = {}, step' \in {"off", "move", "merge", "find"},
         ~failed' => /\ step' \in {"move", "merge"} /\ pair' = 2 => ~fs'["pgtuiHome"].there
                     /\ step' = "find" => FromGone(fs')
                     /\ Shown(fs') = Shown(fs)
  PROVE  ShownInv' /\ SameShown
<1>1. step' \notin Commits \union Later
  BY DEF Commits, Later
<1> QED BY <1>1 DEF ShownInv, Empty, Moved, ShownOK, SameShown, FromGone, Commits, Later

\* The next pair of directories, when the one it was at is gone.
LEMMA NextPairShown ==
  ASSUME ShownInv, step \in {"move", "merge"}, pair \in 1 .. 2, NextPair, servers' = servers,
         ~failed' => /\ ~failed /\ ~fs'[From(pair)].there /\ Shown(fs') = Shown(fs)
                     /\ pair = 2 => fs'["pgtuiHome"].there = fs["pgtuiHome"].there
  PROVE  ShownInv' /\ SameShown
<1>1. servers' = {} /\ step' \in {"move", "find"} /\ pair' = pair + 1
      /\ (step' = "move" <=> pair = 1)
  BY EmptyIs, PairDirs DEF NextPair
<1>2. ASSUME ~failed', pair = 1 PROVE ~fs'["pgtuiHome"].there
  BY <1>2, PairDirs
<1>3. ASSUME ~failed', pair = 2 PROVE FromGone(fs')
  BY <1>3, PairDirs DEF FromGone, ShownInv, Moved
<1>4. pair = 1 \/ pair = 2
  OBVIOUS
<1> QED BY <1>1, <1>2, <1>3, <1>4, SearchShown

LEMMA MovePairShown == ASSUME TypeInv, ShownInv, MovePair PROVE ShownInv' /\ SameShown
<1>1. /\ step = "move" /\ pair \in 1 .. 2 /\ servers' = servers /\ servers = {}
      /\ fs \in FileSystem
  BY TypeIs, EmptyIs DEF MovePair, StageOK, found
<1>2. From(pair) \in Dirs /\ To(pair) \in Dirs /\ From(pair) # To(pair)
  BY <1>1, PairTyped
<1>3. CASE ~fs[From(pair)].there /\ Works /\ NextPair /\ fs' = fs
  BY <1>1, <1>3, NextPairShown DEF Works
<1>4. CASE failed' /\ NextPair
  BY <1>1, <1>4, FailedShown
<1>5. CASE /\ fs[From(pair)].there /\ ~fs[To(pair)].there /\ Works /\ NextPair
           /\ fs' = MoveDir(fs, Pairs[pair])
  <2>1. DirMoves(fs, fs', pair)
    BY <1>1, <1>5, MoveDirMoves
  <2>2. Shown(fs') = Shown(fs)
    BY <1>1, <1>5, <2>1, DirMovedShown
  <2>3. ~fs'[From(pair)].there
    BY <2>1 DEF DirMoves, NoDir
  <2>4. pair = 2 => fs'["pgtuiHome"] = fs["pgtuiHome"]
    BY <2>1, PairDirs DEF DirMoves, Dirs
  <2> QED BY <1>1, <1>5, <2>2, <2>3, <2>4, NextPairShown DEF Works
<1>6. CASE step' = "merge" /\ Works /\ UNCHANGED <<fs, pair>>
  BY <1>1, <1>6, SearchShown DEF Works, ShownInv, Moved
<1> QED BY <1>3, <1>4, <1>5, <1>6 DEF MovePair, From, To, Fails

LEMMA MergeEntryShown ==
  ASSUME TypeInv, ShownInv, NEW n \in left, MergeEntry(n)
  PROVE  ShownInv' /\ SameShown
<1>1. /\ step = "merge" /\ pair \in 1 .. 2 /\ servers' = servers /\ servers = {}
      /\ fs \in FileSystem
      /\ fs[From(pair)].there /\ fs[To(pair)].there /\ left = Entries(fs, From(pair))
  BY TypeIs, EmptyIs DEF MergeEntry, StageOK, found
<1>2. CASE failed'
  <2>1. step' \in {"move", "find", "merge"}
    BY NextPairSteps DEF MergeEntry
  <2> QED BY <1>1, <1>2, <2>1, FailedShown
<1>3. ASSUME Works, step' = step, pair' = pair, Shown(fs') = Shown(fs),
             pair = 2 => fs'["pgtuiHome"] = fs["pgtuiHome"]
      PROVE  ShownInv' /\ SameShown
  BY <1>1, <1>3, SearchShown DEF Works, ShownInv, Moved
<1>4. pair = 2 => "pgtuiHome" \in Dirs \ {From(pair), To(pair)}
  BY PairDirs DEF Dirs
<1>5. CASE Works /\ n = "backups" /\ fs' = MoveKept(fs, Pairs[pair]) /\ UNCHANGED <<step, pair>>
  <2>1. BackupsMove(fs, fs', pair)
    BY <1>1, <1>5, MoveKeptMoves
  <2>2. Shown(fs') = Shown(fs)
    BY <1>1, <2>1, FilesShown DEF BackupsMove
  <2>3. pair = 2 => fs'["pgtuiHome"] = fs["pgtuiHome"]
    BY <1>4, <2>1 DEF BackupsMove
  <2> QED BY <1>3, <1>5, <2>2, <2>3
<1>6. CASE Works /\ n # "backups" /\ fs' = MoveEntry(fs, Pairs[pair], n) /\ UNCHANGED <<step, pair>>
  <2>1. n \in Names /\ Present(fs[From(pair)].file[n])
    BY <1>1, <1>6, PairTyped, EntriesTyped
  <2>2. EntryMoves(fs, fs', pair, n)
    BY <1>1, <1>6, <2>1, MoveEntryMoves
  <2>3. Shown(fs') = Shown(fs)
    BY <1>1, <2>1, <2>2, EntryShown
  <2>4. pair = 2 => fs'["pgtuiHome"] = fs["pgtuiHome"]
    BY <1>4, <2>2 DEF EntryMoves
  <2> QED BY <1>3, <1>6, <2>3, <2>4
<1> QED BY <1>2, <1>5, <1>6 DEF MergeEntry, Fails

LEMMA MergeEndsShown == ASSUME TypeInv, ShownInv, MergeEnds PROVE ShownInv' /\ SameShown
<1>1. /\ step = "merge" /\ pair \in 1 .. 2 /\ servers' = servers /\ servers = {}
      /\ fs \in FileSystem /\ Entries(fs, From(pair)) = {} /\ NextPair
  BY TypeIs, EmptyIs DEF MergeEnds, StageOK, found
<1>2. CASE failed'
  BY <1>1, <1>2, FailedShown, NextPairSteps
<1>3. CASE Works /\ fs' = [fs EXCEPT ![Pairs[pair].from] = NoDir]
  <2>1. DirGoes(fs, fs', pair)
    BY <1>1, <1>3, RemoveDirGoes
  <2>2. Shown(fs') = Shown(fs)
    BY <1>1, <2>1, GoneShown
  <2>3. ~fs'[From(pair)].there
    BY <2>1 DEF DirGoes, NoDir
  <2>4. pair = 2 => fs'["pgtuiHome"] = fs["pgtuiHome"]
    BY <2>1, PairDirs DEF DirGoes, Dirs
  <2> QED BY <1>1, <1>3, <2>2, <2>3, <2>4, NextPairShown DEF Works
<1> QED BY <1>2, <1>3 DEF MergeEnds, Fails

\* From the search on nothing is in pgtui's directories.
LEMMA LaterIs ==
  ASSUME TypeInv, ShownInv, ~failed, step \in {"find"} \union Commits \union Later
  PROVE  /\ FromGone(fs) /\ Shown(fs) = Read(fs) /\ fs \in FileSystem
         /\ step # "find" => servers = Read(fs)
<1>1. FromGone(fs) /\ fs \in FileSystem
  BY TypeIs DEF ShownInv, Moved
<1>2. Shown(fs) = Read(fs)
  BY <1>1, ShownIsRead
<1>3. step # "find" => servers = Shown(fs)
  BY DEF ShownInv, ShownOK
<1> QED BY <1>1, <1>2, <1>3

\* What each step of a later stage has to establish.
LEMMA LaterShown ==
  ASSUME step' \in Commits \union Later,
         ~failed' =>
           /\ FromGone(fs') /\ fs' \in FileSystem /\ servers' = Read(fs') /\ Shown(fs) = Read(fs')
           /\ step' = "backup" => Found(fs') = path'
           /\ step' = "write" =>
                \/ Found(fs') = path' /\ At(fs', path').kind = "v1"
                \/ Found(fs') = NoPath /\ path' = [dir |-> ImportDir(fs'), name |-> "config.yml"]
           /\ step' = "retire" => ReadFrom(path)'
           /\ step' \in {"relocate", "ready"} =>
                ReadFrom(path)' \/ (path' = NoPath /\ NothingToLoad(fs'))
           /\ step' = "original" => ReadFrom(UserFile)'
  PROVE  ShownInv' /\ SameShown
<1>1. ~failed' => Shown(fs') = Read(fs')
  BY ShownIsRead
<1>2. step' \notin {"off", "move", "merge", "find"}
  BY DEF Commits, Later
<1> QED
  BY <1>1, <1>2 DEF ShownInv, Empty, Moved, ShownOK, SameShown, FromGone, NothingToLoad, At, Found,
                    ImportDir, Shown

LEMMA ReadIs ==
  ASSUME NEW F
  PROVE  /\ Found(F) # NoPath /\ At(F, Found(F)).kind = "v1" => Read(F) = Lifted(F, Found(F))
         /\ Found(F) # NoPath /\ At(F, Found(F)).kind # "v1" => Read(F) = At(F, Found(F)).servers
         /\ Found(F) = NoPath /\ ImportDir(F) # NoDirName =>
              Read(F) = F[ImportDir(F)].file[".env"].servers
         /\ Found(F) = NoPath /\ ImportDir(F) = NoDirName => Read(F) = {}
BY DEF Read

LEMMA FindFileShown == ASSUME TypeInv, ShownInv, FindFile PROVE ShownInv' /\ SameShown
<1>1. /\ step = "find" /\ fs' = fs /\ failed' = failed /\ path = NoPath /\ servers = {}
  BY TypeIs, FindFileReads, EmptyIs DEF StageOK, files
<1>2. ~failed => FromGone(fs) /\ Shown(fs) = Read(fs) /\ fs \in FileSystem
  BY <1>1, LaterIs
<1>3. CASE Refuses
  BY <1>1, <1>3 DEF Refuses, ShownInv, Empty, Moved, ShownOK, SameShown, Commits, Later
<1>4. CASE ReadsList
  <2>1. /\ step' = "relocate" /\ path' = Found(fs) /\ servers' = At(fs, Found(fs)).servers
        /\ Found(fs) \in Paths /\ Found(fs) # NoPath /\ At(fs, Found(fs)).kind \notin {"v1", "bad"}
    BY <1>4, FoundIs DEF ReadsList
  <2>2. servers' = Read(fs)
    BY <2>1, ReadIs
  <2>3. ReadFrom(path)'
    BY <1>1, <2>1 DEF ReadFrom, Found, At
  <2> QED BY <1>1, <1>2, <2>1, <2>2, <2>3, LaterShown DEF Later
<1>5. CASE ReadsLegacy
  <2>1. /\ step' = "backup" /\ path' = Found(fs) /\ servers' = Lifted(fs, Found(fs))
        /\ Found(fs) # NoPath /\ At(fs, Found(fs)).kind = "v1"
    BY <1>5 DEF ReadsLegacy
  <2>2. servers' = Read(fs)
    BY <2>1, ReadIs
  <2> QED BY <1>1, <1>2, <2>1, <2>2, LaterShown DEF Commits
<1>6. CASE Imports
  <2>1. /\ step' = "write" /\ Found(fs) = NoPath /\ ImportDir(fs) # NoDirName
        /\ path' = [dir |-> ImportDir(fs), name |-> "config.yml"]
        /\ servers' = fs[ImportDir(fs)].file[".env"].servers
    BY <1>6 DEF Imports
  <2>2. servers' = Read(fs)
    BY <2>1, ReadIs
  <2> QED BY <1>1, <1>2, <2>1, <2>2, LaterShown DEF Commits
<1>7. CASE FindsNothing
  <2>1. step' = "relocate" /\ path' = NoPath /\ servers' = {} /\ NothingToLoad(fs)
    BY <1>1, <1>7 DEF FindsNothing, NothingToLoad
  <2>2. servers' = Read(fs)
    BY <2>1, ReadIs DEF NothingToLoad
  <2> QED BY <1>1, <1>2, <2>1, <2>2, LaterShown DEF Later
<1> QED BY <1>3, <1>4, <1>5, <1>6, <1>7, FindFileReads

LEMMA FailsShown ==
  ASSUME Fails, step' \in Commits \union Later
  PROVE  ShownInv' /\ SameShown
BY FailedShown DEF Fails, Commits, Later

LEMMA BackUpShown == ASSUME TypeInv, ShownInv, BackUp PROVE ShownInv' /\ SameShown
<1>1. /\ step = "backup" /\ path' = path /\ servers' = servers
      /\ fs \in FileSystem /\ path \in Paths /\ raw = At(fs, path) /\ raw.kind = "v1"
  BY TypeIs DEF BackUp, StageOK, committing, found
<1>2. CASE Fails /\ step' = "relocate"
  BY <1>2, FailsShown DEF Later
<1>3. CASE Works /\ fs' = Keep(fs, path.dir, raw) /\ step' = "write"
  <2>1. KeptBecomes(fs, fs', path.dir, fs[path.dir].kept \union {Mine(raw)}) /\ path.dir \in Dirs
    BY <1>1, <1>3, LegacyKept, PathTyped
  <2>2. fs' \in FileSystem /\ \A d \in Dirs : fs'[d].file = fs[d].file
    BY <2>1 DEF KeptBecomes
  <2>3. Read(fs') = Read(fs)
    BY <2>2, ReadSame
  <2>4. \A p \in Paths : At(fs', p) = At(fs, p)
    BY <2>2, PathTyped DEF At
  <2>5. Found(fs') = Found(fs)
    BY <2>4, FoundSame
  <2> SUFFICES ASSUME ~failed' PROVE ShownInv' /\ SameShown
    BY FailedShown, <1>3 DEF Commits
  <2>6. ~failed /\ FromGone(fs) /\ Shown(fs) = Read(fs) /\ servers = Read(fs)
    BY <1>1, <1>3, LaterIs DEF Works, Commits
  <2>7. Found(fs) = path
    BY <1>1, <2>6 DEF ShownInv, ShownOK
  <2>8. FromGone(fs')
    <3>1. path.dir # "pgtuiHome" /\ path.dir # "pgtuiOpt"
      <4>1. fs[path.dir].there
        BY <1>1, PathTyped, AtTyped DEF At, Present
      <4> QED BY <2>6, <4>1 DEF FromGone
    <3> QED BY <2>1, <2>6, <3>1 DEF FromGone, KeptBecomes, Dirs
  <2> QED BY <1>1, <1>3, <2>2, <2>3, <2>4, <2>5, <2>6, <2>7, <2>8, LaterShown DEF Commits
<1> QED BY <1>2, <1>3, CommitIs DEF BackUp

\* A list of the format 2 at p: what Save and the upgrade write.
LEMMA PutRead ==
  ASSUME NEW F \in FileSystem, NEW H, NEW p \in Paths, NEW S \in SUBSET Servers,
         FileBecomes(F, H, p.dir, p.name, V2(S)), FromGone(F),
         p.dir \notin {"pgtuiHome", "pgtuiOpt"}, Found(F) \in {p, NoPath} \/ p = UserFile
  PROVE  /\ Found(H) = p /\ Read(H) = S /\ FromGone(H) /\ H \in FileSystem
         /\ At(H, p).kind = "v2" /\ At(H, p).servers = S
<1>a. At(H, p) = V2(S)
  BY PutHere
<1>b. ASSUME NEW q \in Paths, q # p PROVE At(H, q) = At(F, q)
  BY <1>b, PutElsewhere
<1>1. At(H, p) = V2(S) /\ \A q \in Paths : q # p => At(H, q) = At(F, q)
  BY <1>a, <1>b
<1>2. Readable(At(H, p)) /\ At(H, p).kind = "v2" /\ At(H, p).servers = S
  BY <1>1, V2Typed
<1>3. Found(H) = p
  <2>1. CASE p = UserFile
    BY <1>2, <2>1, FoundIs
  <2>2. CASE Found(F) = p
    <3>1. Readable(At(F, p))
      BY <2>2, FoundIs, NoPathIsNone
    <3>2. \A q \in Paths : Readable(At(F, q)) <=> Readable(At(H, q))
      BY <1>1, <1>2, <3>1
    <3> QED BY <2>2, <3>2, FoundSame
  <2>3. CASE Found(F) = NoPath
    <3>1. \A q \in Paths : q # p => ~Readable(At(H, q))
      BY <1>1, <2>3, FoundIs
    <3> QED BY <1>2, <3>1, FoundIs
  <2> QED BY <2>1, <2>2, <2>3
<1>4. Read(H) = S
  BY <1>2, <1>3, NoPathIsNone, ReadIs
<1>5. FromGone(H) /\ H \in FileSystem
  <2>1. {"pgtuiHome", "pgtuiOpt"} \subseteq Dirs \ {p.dir}
    BY DEF Dirs
  <2> QED BY <2>1 DEF FromGone, FileBecomes
<1> QED BY <1>2, <1>3, <1>4, <1>5

\* What is in a directory that is gone is neither found nor imported.
LEMMA GoneNotFound ==
  ASSUME NEW F \in FileSystem, FromGone(F)
  PROVE  /\ Found(F) # NoPath => Found(F).dir \notin {"pgtuiHome", "pgtuiOpt"}
         /\ ImportDir(F) # NoDirName => ImportDir(F) \notin {"pgtuiHome", "pgtuiOpt"}
<1>1. \A d \in {"pgtuiHome", "pgtuiOpt"}, n \in Names : ~Readable(F[d].file[n])
  BY AtTyped DEF FromGone, Readable, Dirs
<1>2. ASSUME Found(F) # NoPath PROVE Found(F).dir \notin {"pgtuiHome", "pgtuiOpt"}
  <2>1. Readable(F[Found(F).dir].file[Found(F).name]) /\ Found(F).name \in Names
    BY <1>2, FoundIs, PathTyped DEF At
  <2> QED BY <1>1, <2>1
<1>3. ASSUME ImportDir(F) # NoDirName PROVE ImportDir(F) \notin {"pgtuiHome", "pgtuiOpt"}
  <2>1. Readable(F[ImportDir(F)].file[".env"])
    BY <1>3, ImportIs DEF Holds, HasEnv
  <2> QED BY <1>1, <2>1, ConfigIsName
<1> QED BY <1>2, <1>3

LEMMA WriteUpgradeShown == ASSUME TypeInv, ShownInv, WriteUpgrade PROVE ShownInv' /\ SameShown
<1>1. /\ step = "write" /\ path' = path /\ servers' = servers
      /\ fs \in FileSystem /\ path \in Paths /\ path # NoPath /\ servers \subseteq Servers
  BY TypeIs, NoPathIsNone DEF WriteUpgrade, StageOK, committing, found, RestTyped
<1>2. CASE Fails /\ step' = "relocate"
  BY <1>2, FailsShown DEF Later
<1>3. CASE Works /\ fs' = Put(fs, path, V2(Rendered)) /\ step' = "retire"
  <2>1. FileBecomes(fs, fs', path.dir, path.name, V2(servers))
    BY <1>1, <1>3, V2Typed, PutSets DEF Rendered
  <2> SUFFICES ASSUME ~failed' PROVE ShownInv' /\ SameShown
    BY FailedShown, <1>3 DEF Commits
  <2>2. ~failed /\ FromGone(fs) /\ Shown(fs) = Read(fs) /\ servers = Read(fs)
    BY <1>1, <1>3, LaterIs DEF Works, Commits
  <2>3. \/ Found(fs) = path
        \/ Found(fs) = NoPath /\ path = [dir |-> ImportDir(fs), name |-> "config.yml"]
    BY <1>1, <2>2 DEF ShownInv, ShownOK
  <2>4. path.dir \notin {"pgtuiHome", "pgtuiOpt"}
    <3>1. CASE Found(fs) = path
      BY <1>1, <2>2, <3>1, GoneNotFound
    <3>2. CASE path = [dir |-> ImportDir(fs), name |-> "config.yml"]
      <4>1. ImportDir(fs) = path.dir /\ path.dir \in Dirs
        BY <1>1, <3>2, PathTyped
      <4>2. ImportDir(fs) # NoDirName
        BY <4>1 DEF NoDirName, Dirs
      <4> QED BY <1>1, <2>2, <4>1, <4>2, GoneNotFound
    <3> QED BY <2>3, <3>1, <3>2
  <2>5. /\ Found(fs') = path /\ Read(fs') = servers /\ FromGone(fs') /\ fs' \in FileSystem
        /\ At(fs', path).kind = "v2" /\ At(fs', path).servers = servers
    BY <1>1, <2>1, <2>2, <2>3, <2>4, PutRead
  <2>6. ReadFrom(path)'
    BY <1>1, <2>5 DEF ReadFrom, Found, At
  <2> QED BY <1>1, <1>3, <2>2, <2>5, <2>6, LaterShown DEF Commits
<1> QED BY <1>2, <1>3, CommitIs DEF WriteUpgrade

LEMMA RetireEnvShown == ASSUME TypeInv, ShownInv, RetireEnv PROVE ShownInv' /\ SameShown
<1>1. /\ step = "retire" /\ step' = "relocate" /\ path' = path /\ servers' = servers
      /\ fs \in FileSystem /\ RestTyped
  BY TypeIs, CommitIs DEF RetireEnv, committing, found
<1>2. CASE Fails
  BY <1>1, <1>2, FailsShown DEF Later
<1>3. ~failed => /\ FromGone(fs) /\ Shown(fs) = Read(fs) /\ servers = Read(fs) /\ ReadFrom(path)
  BY <1>1, LaterIs DEF Commits, ShownInv, ShownOK
<1>4. CASE Works /\ fs' = fs
  <2>1. ~failed => ReadFrom(path)'
    BY <1>1, <1>3, <1>4 DEF ReadFrom, Found, At
  <2> QED BY <1>1, <1>3, <1>4, <2>1, LaterShown DEF Works, Later
<1>5. CASE /\ retire # NoDirName /\ Works
           /\ fs' = [Keep(fs, retire, fs[retire].file[".env"]) EXCEPT ![retire].file[".env"] = NoFile]
  <2>1. retire \in Dirs /\ Present(fs[retire].file[".env"])
    BY <1>1, <1>5, TypeIs DEF StageOK, Commits, HasEnv, Readable, RestTyped
  <2>2. PutAside(fs, fs', retire, ".env")
    BY <1>1, <1>5, <2>1, AsidePuts DEF Names
  <2>3. \A d \in Dirs, n \in ConfigNames : fs'[d].file[n] = fs[d].file[n]
    BY <2>1, <2>2, ConfigIsName DEF PutAside
  <2>4. \A p \in Paths : At(fs', p) = At(fs, p)
    BY <2>3, PathTyped DEF At
  <2>5. Found(fs') = Found(fs)
    BY <2>4, FoundSame
  <2> SUFFICES ASSUME ~failed' PROVE ShownInv' /\ SameShown
    BY FailedShown, <1>1
  <2>6. FromGone(fs) /\ Shown(fs) = Read(fs) /\ servers = Read(fs) /\ ReadFrom(path)
    BY <1>3, <1>5 DEF Works
  <2>7. path \in Paths /\ At(fs', path) = At(fs, path) /\ Found(fs') = path
    BY <2>4, <2>5, <2>6 DEF ReadFrom
  <2>8. /\ path \in Paths /\ Found(fs') = path
        /\ At(fs', path).kind \notin {"v1", "bad"} /\ At(fs', path).servers = servers
    BY <2>6, <2>7 DEF ReadFrom
  <2>9. ReadFrom(path)'
    BY <1>1, <2>8 DEF ReadFrom, Found, At
  <2>10. Read(fs') = servers
    BY <2>8, NoPathIsNone, ReadIs
  <2>11. FromGone(fs') /\ fs' \in FileSystem
    BY <2>1, <2>2, <2>6, AtTyped, <1>1, ConfigIsName DEF PutAside, FromGone, Dirs
  <2> QED BY <1>1, <2>6, <2>9, <2>10, <2>11, LaterShown DEF Later
<1> QED BY <1>2, <1>4, <1>5 DEF RetireEnv

\* What a Load that ended without a failure leaves is read again as it is.
MovableAt(F, p) ==
  /\ p # NoPath /\ p.dir \in SystemDirs
  /\ At(F, p).perm = "mine" /\ Present(At(F, p))
  /\ ~Present(At(F, UserFile))
Stable(F) ==
  /\ FromGone(F)
  /\ Found(F) # NoPath => At(F, Found(F)).kind \notin {"v1", "bad"} /\ ~MovableAt(F, Found(F))
  /\ Found(F) = NoPath => ImportDir(F) = NoDirName
QuietOK ==
  settled =>
    /\ Stable(fs)
    /\ step \in {"off", "move", "find", "relocate", "ready"}
    /\ step \in {"relocate", "ready"} => path = Found(fs)

LEMMA RelocateShown == ASSUME TypeInv, ShownInv, Relocate PROVE ShownInv' /\ SameShown
<1>1. /\ step = "relocate" /\ path' = path /\ servers' = servers /\ step' \in {"ready", "original"}
      /\ fs \in FileSystem /\ RestTyped /\ servers \subseteq Servers
  BY TypeIs DEF Relocate, RestTyped, LoadEnds
<1>2. CASE Fails
  BY <1>1, <1>2, FailsShown DEF Later
<1>3. ~failed => /\ FromGone(fs) /\ Shown(fs) = Read(fs) /\ servers = Read(fs)
                 /\ ReadFrom(path) \/ (path = NoPath /\ NothingToLoad(fs))
  BY <1>1, LaterIs DEF Later, ShownInv, ShownOK
<1>4. CASE Works /\ fs' = fs /\ step' = "ready"
  <2>1. ReadFrom(path) => ReadFrom(path)'
    BY <1>1, <1>4 DEF ReadFrom, Found, At
  <2> QED BY <1>1, <1>3, <1>4, <2>1, LaterShown DEF Works, Later
<1>5. CASE Works /\ fs' = Put(fs, UserFile, V2(servers)) /\ step' = "original"
  <2>1. FileBecomes(fs, fs', UserFile.dir, UserFile.name, V2(servers))
    BY <1>1, <1>5, V2Typed, UserFileTyped, PutSets
  <2> SUFFICES ASSUME ~failed' PROVE ShownInv' /\ SameShown
    BY FailedShown, <1>5
  <2>2. FromGone(fs) /\ Shown(fs) = Read(fs) /\ servers = Read(fs)
    BY <1>3, <1>5 DEF Works
  <2>3. UserFile.dir \notin {"pgtuiHome", "pgtuiOpt"} /\ UserFile \in Paths
    BY UserFileTyped
  <2>4. /\ Found(fs') = UserFile /\ Read(fs') = servers /\ FromGone(fs') /\ fs' \in FileSystem
        /\ At(fs', UserFile).kind = "v2" /\ At(fs', UserFile).servers = servers
    BY <1>1, <2>1, <2>2, <2>3, PutRead
  <2>5. ReadFrom(UserFile)'
    BY <1>1, <2>3, <2>4 DEF ReadFrom, Found, At, UserFile
  <2> QED BY <1>1, <1>5, <2>2, <2>4, <2>5, LaterShown DEF Later
<1> QED BY <1>2, <1>4, <1>5 DEF Relocate, LoadEnds

\* The original goes, and its copy is read.
LEMMA OriginalGoes ==
  ASSUME TypeInv, ShownInv, ~failed, step = "original",
         fs' = [Keep(fs, path.dir, At(fs, path)) EXCEPT ![path.dir].file[path.name] = NoFile],
         servers' = servers
  PROVE  /\ ReadFrom(UserFile)' /\ Read(fs') = servers /\ FromGone(fs') /\ fs' \in FileSystem
         /\ Shown(fs) = servers
<1>1. /\ fs \in FileSystem /\ path \in Paths /\ path.dir \in SystemDirs /\ Present(At(fs, path))
      /\ At(fs, UserFile) = V2(servers) /\ servers \subseteq Servers
  BY TypeIs DEF StageOK, RestTyped
<1>2. FromGone(fs) /\ Shown(fs) = Read(fs) /\ servers = Read(fs)
  BY LaterIs DEF Later
<1>3. path.dir \in Dirs /\ path.name \in Names /\ path.dir # "home"
  BY <1>1, PathTyped DEF SystemDirs
<1>4. PutAside(fs, fs', path.dir, path.name) /\ fs[path.dir].there
  BY <1>1, <1>3, AsidePuts, AtTyped DEF At
<1>5. At(fs', UserFile) = V2(servers)
  BY <1>1, <1>3, <1>4, UserFileTyped, PathTyped DEF PutAside, At
<1>6. /\ Readable(At(fs', UserFile)) /\ At(fs', UserFile).kind = "v2"
      /\ At(fs', UserFile).servers = servers
  BY <1>1, <1>5, V2Typed
<1>7. Found(fs') = UserFile /\ UserFile \in Paths
  BY <1>6, FoundIs, UserFileTyped
<1>8. ReadFrom(UserFile)'
  BY <1>6, <1>7 DEF ReadFrom, Found, At, UserFile
<1>9. Read(fs') = servers
  BY <1>6, <1>7, NoPathIsNone, ReadIs
<1>10. FromGone(fs') /\ fs' \in FileSystem
  BY <1>2, <1>3, <1>4 DEF PutAside, FromGone, Dirs
<1> QED BY <1>2, <1>8, <1>9, <1>10

LEMMA RenameOriginalShown ==
  ASSUME TypeInv, ShownInv, RenameOriginal
  PROVE  ShownInv' /\ SameShown
<1>1. step = "original" /\ step' = "ready" /\ path' = UserFile /\ servers' = servers
  BY DEF RenameOriginal, LoadEnds
<1>2. CASE Fails
  BY <1>1, <1>2, FailsShown DEF Later
<1>3. CASE /\ Works
           /\ fs' = [Keep(fs, path.dir, At(fs, path)) EXCEPT ![path.dir].file[path.name] = NoFile]
  <2> SUFFICES ASSUME ~failed' PROVE ShownInv' /\ SameShown
    BY FailedShown, <1>1
  <2>1. /\ ReadFrom(UserFile)' /\ Read(fs') = servers /\ FromGone(fs') /\ fs' \in FileSystem
        /\ Shown(fs) = servers
    BY <1>1, <1>3, OriginalGoes DEF Works
  <2>2. ReadFrom(path)'
    BY <1>1, <2>1 DEF ReadFrom, Found, At, UserFile
  <2> QED BY <1>1, <2>1, <2>2, LaterShown DEF Later
<1> QED BY <1>2, <1>3 DEF RenameOriginal

\* The file Save writes: the one that was read, or the user's.
LEMMA SavePathIs ==
  ASSUME path \in Paths \union {NoPath}
  PROVE  /\ SavePath \in Paths /\ SavePath # NoPath /\ SavePath.dir \notin SystemDirs
         /\ SavePath = UserFile \/ (SavePath = path /\ path \in Paths)
BY UserFileTyped, NoPathIsNone DEF SavePath, SystemDirs

LEMMA SaveRead ==
  ASSUME TypeInv, FromGone(fs), Found(fs) = path, NEW S \in SUBSET Servers,
         fs' = Put(fs, SavePath, V2(S))
  PROVE  /\ Found(fs') = SavePath /\ Read(fs') = S /\ FromGone(fs') /\ fs' \in FileSystem
         /\ At(fs', SavePath).kind = "v2" /\ At(fs', SavePath).servers = S
<1>1. fs \in FileSystem /\ path \in Paths \union {NoPath}
  BY TypeIs DEF RestTyped
<1>2. /\ SavePath \in Paths /\ SavePath # NoPath
      /\ SavePath = UserFile \/ (SavePath = path /\ path \in Paths)
  BY <1>1, SavePathIs
<1>3. FileBecomes(fs, fs', SavePath.dir, SavePath.name, V2(S))
  BY <1>1, <1>2, V2Typed, PutSets
<1>4. SavePath.dir \notin {"pgtuiHome", "pgtuiOpt"}
  BY <1>1, <1>2, GoneNotFound, UserFileTyped, NoPathIsNone
<1> DEFINE p == SavePath
<1>5. /\ p \in Paths /\ FileBecomes(fs, fs', p.dir, p.name, V2(S))
      /\ p.dir \notin {"pgtuiHome", "pgtuiOpt"} /\ (Found(fs) \in {p, NoPath} \/ p = UserFile)
  BY <1>2, <1>3, <1>4
<1> HIDE DEF p
<1>6. /\ Found(fs') = p /\ Read(fs') = S /\ FromGone(fs') /\ fs' \in FileSystem
      /\ At(fs', p).kind = "v2" /\ At(fs', p).servers = S
  BY <1>1, <1>5, PutRead
<1> QED BY <1>6 DEF p

LEMMA SaveShown == ASSUME TypeInv, ShownInv, NEW s \in Servers, Save(s) PROVE ShownInv'
<1>1. step = "ready" /\ step' = "ready" /\ servers' \subseteq Servers
  BY TypeIs DEF Save, RestTyped
<1>2. CASE Fails
  BY <1>1, <1>2, FailsShown DEF Later
<1>3. CASE Works /\ fs' = Put(fs, SavePath, V2(servers')) /\ path' = SavePath
  <2> SUFFICES ASSUME ~failed' PROVE ShownInv'
    BY FailedShown, <1>1
  <2>1. FromGone(fs) /\ Found(fs) = path
    BY <1>1, <1>3, LaterIs DEF Works, Later, ShownInv, ShownOK, ReadFrom, NothingToLoad
  <2>2. /\ Found(fs') = SavePath /\ Read(fs') = servers' /\ FromGone(fs') /\ fs' \in FileSystem
        /\ At(fs', SavePath).kind = "v2" /\ At(fs', SavePath).servers = servers'
    BY <1>1, <1>3, <2>1, SaveRead
  <2>3. SavePath \in Paths
    BY SavePathIs, TypeIs DEF RestTyped
  <2>4. ReadFrom(path)'
    BY <1>3, <2>2, <2>3 DEF ReadFrom, Found, At
  <2>5. Shown(fs') = Read(fs')
    BY <2>2, ShownIsRead
  <2> QED BY <1>1, <2>2, <2>4, <2>5 DEF ShownInv, Empty, Moved, ShownOK, Commits, Later, FromGone,
                                       NothingToLoad, Shown, At
<1> QED BY <1>2, <1>3 DEF Save

LEMMA OutsideShown ==
  ASSUME TypeInv, ShownInv, ProcessEnds \/ LoadBegins
  PROVE  ShownInv' /\ SameShown
<1>1. fs' = fs /\ servers' = {} /\ step' \in {"off", "move"} /\ (step' = "move" => pair' = 1)
  BY EmptyIs DEF ProcessEnds, LoadBegins, files, found
<1> QED BY <1>1, SearchShown

LEMMA ShownKept ==
  ASSUME TypeInv, ShownInv, [ConfigNext]_configVars
  PROVE  ShownInv' /\ (step # "ready" => SameShown)
<1>1. ASSUME UNCHANGED configVars PROVE ShownInv' /\ SameShown
  <2>1. UNCHANGED <<fs, step, pair, path, servers, failed>>
    BY <1>1 DEF configVars, files, loading
  <2>2. Empty' /\ Moved'
    BY <2>1 DEF ShownInv, Empty, Moved, FromGone
  <2>3. Shown(fs') = Shown(fs) /\ Found(fs') = Found(fs) /\ ImportDir(fs') = ImportDir(fs)
    BY <2>1
  <2>4. ShownOK'
    BY <2>1, <2>3 DEF ShownInv, ShownOK, ReadFrom, NothingToLoad, Found, ImportDir, At, Shown
  <2> QED BY <2>2, <2>3, <2>4 DEF ShownInv, SameShown
<1>2. ASSUME NEW s \in Servers, Save(s) PROVE step = "ready"
  BY <1>2 DEF Save
<1> QED
  BY <1>1, <1>2, MovePairShown, MergeEntryShown, MergeEndsShown, FindFileShown, BackUpShown,
     WriteUpgradeShown, RetireEnvShown, RelocateShown, RenameOriginalShown, SaveShown,
     OutsideShown DEF ConfigNext, LoadNext

LEMMA ShownStarts == ASSUME ConfigInit PROVE ShownInv
BY DEF ConfigInit, ShownInv, Empty, Moved, ShownOK, Commits, Later

LEMMA QuietMoves ==
  ASSUME TypeInv, QuietOK, settled, MovePair \/ MergeEnds \/ \E n \in left : MergeEntry(n)
  PROVE  QuietOK' /\ fs' = fs
<1>1. Stable(fs) /\ step \in {"move", "find"} /\ step # "merge"
  BY DEF QuietOK, MovePair, MergeEnds, MergeEntry
<1>2. pair \in 1 .. 2 /\ MovePair
  BY <1>1, TypeIs DEF StageOK, MergeEnds, MergeEntry, MovePair
<1>3. ~fs[From(pair)].there
  BY <1>1, <1>2, GoneIs DEF Stable
<1>4. fs' = fs /\ NextPair
  BY <1>2, <1>3 DEF MovePair, From
<1>5. step' \in {"move", "find"}
  BY <1>4, NextPairSteps
<1> QED BY <1>1, <1>4, <1>5 DEF QuietOK

LEMMA QuietFinds ==
  ASSUME TypeInv, QuietOK, settled, FindFile
  PROVE  QuietOK' /\ fs' = fs
<1>1. Stable(fs) /\ path = NoPath /\ fs' = fs
  BY TypeIs, FindFileReads DEF QuietOK, StageOK, files
<1>2. /\ Found(fs) # NoPath => At(fs, Found(fs)).kind \notin {"v1", "bad"}
      /\ Found(fs) = NoPath => ImportDir(fs) = NoDirName
  BY <1>1 DEF Stable
<1>4. ReadsList \/ FindsNothing
  <2>1. Found(fs) # NoPath => ~IsLegacy(At(fs, Found(fs))) /\ At(fs, Found(fs)).kind # "bad"
    BY <1>2 DEF IsLegacy
  <2>2. CASE Found(fs) # NoPath
    BY <2>1, <2>2 DEF FindFile, ReadsList, IsLegacy
  <2>3. CASE Found(fs) = NoPath
    BY <1>2, <2>3 DEF FindFile, FindsNothing
  <2> QED BY <2>2, <2>3
<1>5. step' = "relocate" /\ path' = Found(fs)
  BY <1>1, <1>4 DEF ReadsList, FindsNothing
<1> QED BY <1>1, <1>5 DEF QuietOK

LEMMA QuietRelocates ==
  ASSUME TypeInv, QuietOK, settled, Relocate
  PROVE  QuietOK' /\ fs' = fs
<1>1. step = "relocate" /\ Stable(fs) /\ path = Found(fs)
  BY DEF Relocate, QuietOK
<1>2. ~Movable
  BY <1>1 DEF Stable, Movable, MovableAt
<1>3. fs' = fs /\ path' = path /\ step' = "ready"
  BY <1>2 DEF Relocate, LoadEnds
<1> QED BY <1>1, <1>3 DEF QuietOK

\* The end of a Load whose changes all worked.
LEMMA SettlesStable ==
  ASSUME FromGone(fs'), ReadFrom(path)' \/ (path' = NoPath /\ NothingToLoad(fs')),
         ~MovableAt(fs', path'), step' = "ready"
  PROVE  QuietOK'
<1>1. Found(fs') = path' /\ (path' # NoPath => At(fs', path').kind \notin {"v1", "bad"})
      /\ (path' = NoPath => ImportDir(fs') = NoDirName)
  BY NoPathIsNone DEF ReadFrom, NothingToLoad, Found, At
<1>2. Stable(fs')
  BY <1>1 DEF Stable
<1> QED BY <1>1, <1>2 DEF QuietOK, Stable

LEMMA Settles ==
  ASSUME TypeInv, ShownInv, ~settled, Relocate \/ RenameOriginal
  PROVE  QuietOK'
<1> SUFFICES ASSUME settled' PROVE QuietOK'
  BY DEF QuietOK
<1>0. failed \in BOOLEAN /\ failed' \in BOOLEAN /\ settled \in BOOLEAN
  BY TypeIs DEF RestTyped, Relocate, RenameOriginal, Works, Fails
<1>a. LoadEnds
  <2>1. CASE Relocate
    BY <2>1 DEF Relocate, LoadEnds
  <2>2. CASE RenameOriginal
    BY <2>2 DEF RenameOriginal
  <2> QED BY <2>1, <2>2
<1>b. ~failed' /\ step' = "ready"
  BY <1>0, <1>a DEF LoadEnds
<1>1. ~failed /\ ~failed' /\ step' = "ready"
  BY <1>0, <1>b DEF Relocate, RenameOriginal, Works, Fails
<1>2. ShownInv'
  BY RelocateShown, RenameOriginalShown
<1>3. FromGone(fs') /\ (ReadFrom(path)' \/ (path' = NoPath /\ NothingToLoad(fs')))
  BY <1>1, <1>2 DEF ShownInv, Moved, ShownOK, Commits, Later, FromGone, NothingToLoad, Found, ImportDir
<1>4. ~MovableAt(fs', path')
  <2>1. CASE RenameOriginal
    BY <2>1, UserFileTyped DEF RenameOriginal, MovableAt, SystemDirs
  <2>2. CASE Relocate
    BY <1>1, <2>2 DEF Relocate, Fails, Movable, MovableAt, LoadEnds
  <2> QED BY <2>1, <2>2
<1> QED BY <1>1, <1>3, <1>4, SettlesStable

LEMMA QuietSaves ==
  ASSUME TypeInv, QuietOK, settled, NEW s \in Servers, Save(s)
  PROVE  QuietOK'
<1>1. /\ step = "ready" /\ step' = "ready" /\ servers' \subseteq Servers /\ Stable(fs)
      /\ path = Found(fs)
  BY TypeIs DEF Save, RestTyped, QuietOK
<1>2. CASE fs' = fs /\ path' = path
  BY <1>1, <1>2 DEF QuietOK
<1>3. CASE fs' = Put(fs, SavePath, V2(servers')) /\ path' = SavePath
  <2>1. /\ Found(fs') = SavePath /\ FromGone(fs') /\ At(fs', SavePath).kind = "v2"
    BY <1>1, <1>3, SaveRead DEF Stable
  <2>2. SavePath # NoPath /\ SavePath.dir \notin SystemDirs
    BY SavePathIs, TypeIs DEF RestTyped
  <2>3. Stable(fs')
    BY <2>1, <2>2 DEF Stable, MovableAt
  <2> QED BY <1>1, <1>3, <2>1, <2>3 DEF QuietOK
<1> QED BY <1>2, <1>3 DEF Save, Fails

LEMMA QuietKept ==
  ASSUME TypeInv, ShownInv, QuietOK, [ConfigNext]_configVars
  PROVE  QuietOK' /\ (settled /\ step # "ready" => fs' = fs)
<1>1. CASE UNCHANGED configVars
  BY <1>1 DEF configVars, files, loading, QuietOK, Stable, FromGone, MovableAt, Found, ImportDir, At
<1>2. CASE settled
  <2>1. CASE ProcessEnds \/ LoadBegins
    BY <1>2, <2>1 DEF ProcessEnds, LoadBegins, files, found, QuietOK
  <2>2. ASSUME BackUp \/ WriteUpgrade \/ RetireEnv \/ RenameOriginal PROVE FALSE
    BY <1>2, <2>2 DEF QuietOK, BackUp, WriteUpgrade, RetireEnv, RenameOriginal
  <2>3. ASSUME NEW s \in Servers, Save(s) PROVE step = "ready"
    BY <2>3 DEF Save
  <2> QED
    BY <1>1, <1>2, <2>1, <2>2, <2>3, QuietMoves, QuietFinds, QuietRelocates, QuietSaves
    DEF ConfigNext, LoadNext
<1>3. CASE ~settled
  <2>1. CASE Relocate \/ RenameOriginal
    BY <1>3, <2>1, Settles
  <2>2. CASE ConfigNext /\ ~Relocate /\ ~RenameOriginal
    <3>1. settled' = settled
      BY <2>2 DEF ConfigNext, LoadNext, LoadBegins, MovePair, MergeEntry, MergeEnds, FindFile, BackUp,
                  WriteUpgrade, RetireEnv, Save, ProcessEnds, committing
    <3> QED BY <1>3, <3>1 DEF QuietOK
  <2> QED BY <1>1, <1>3, <2>1, <2>2
<1> QED BY <1>2, <1>3

LEMMA QuietStarts == ASSUME ConfigInit PROVE QuietOK
BY DEF ConfigInit, QuietOK

----------------------------------------------------------------------------
(* The theorems, of the whole run.                                         *)

LEMMA RunLoads == [Next]_startupVars => [ConfigNext]_configVars
BY DEF Next, StartProgram, Adopt, Load, SaveServers, UpdateProgram, Ends, ConfigNext, startupVars

LEMMA ConfigInvariant == Spec => [](TypeInv /\ ShownInv /\ QuietOK)
<1>1. Init => TypeInv /\ ShownInv /\ QuietOK
  BY ConfigInitTyped, ShownStarts, QuietStarts DEF Init
<1>2. (TypeInv /\ ShownInv /\ QuietOK) /\ [Next]_startupVars => (TypeInv /\ ShownInv /\ QuietOK)'
  BY RunLoads, ConfigTyped, ShownKept, QuietKept
<1> QED
  BY <1>1, <1>2, PTL DEF Spec

\* The files, what Load and Save remember of them, and the program's own directory keep
\* their types (main.go: AdoptName, config.Load, the interface).
THEOREM TypesOfTheFiles == Spec => []TypeOK
<1>1. TypeInv /\ BinInv => TypeOK
  BY DEF TypeInv, BinInv, TypeOK
<1> QED
  BY <1>1, ConfigInvariant, BinInvariant, PTL

\* "An order that never loses data" (migrate.go): wherever a start stops, whatever fails,
\* every server the user had is in some file or backup, if no file of the administrator's
\* that pgtower may not read stands where one of the moves goes.
THEOREM NothingIsLost == ASSUME LockedAside PROVE Spec => []NothingLost
<1>1. Init => LostInv
  BY LostStarts DEF Init
<1>2. TypeInv /\ LostInv /\ [Next]_startupVars => LostInv'
  BY RunLoads, LostKept
<1>3. LostInv => NothingLost
  BY DEF LostInv
<1> QED
  BY <1>1, <1>2, <1>3, ConfigInvariant, PTL DEF Spec

\* What the list shows is what the next start will show, while every change has worked
\* (store.go: Save; config.go: Load).
THEOREM ShowsWhatIsSaved == Spec => []ShownIsSaved
<1>1. ShownInv => ShownIsSaved
  BY DEF ShownInv, ShownOK, ShownIsSaved, Later
<1> QED
  BY <1>1, ConfigInvariant, PTL

\* A start that is cut short changes nothing for the next one: no change that Load makes
\* (relocateDirs, mergeDir, commitMigration, relocateConfig) changes the servers shown.
THEOREM LoadChangesNoServers == Spec => SameServers
<1>1. (TypeInv /\ ShownInv /\ QuietOK) /\ [Next]_startupVars =>
        [step # "ready" /\ ~failed' => Shown(fs') = Shown(fs)]_configVars
  BY RunLoads, ShownKept DEF SameShown
<1> QED
  BY <1>1, ConfigInvariant, PTL DEF Spec, SameServers

\* "A second run must not create another backup" (config_test.go): after a Load that has
\* ended without a failure, none changes a file.
THEOREM SecondRunIsQuiet == Spec => SecondRunQuiet
<1>1. (TypeInv /\ ShownInv /\ QuietOK) /\ [Next]_startupVars =>
        [settled /\ step # "ready" => fs' = fs]_configVars
  BY RunLoads, QuietKept
<1> QED
  BY <1>1, ConfigInvariant, PTL DEF Spec, SecondRunQuiet
=============================================================================
