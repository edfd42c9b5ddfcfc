---------------------------- MODULE ConfigFiles ----------------------------
(***************************************************************************)
(* The files config.Load finds, upgrades and moves at the start of every   *)
(* run, and Store.Save writes: config.yml and config.yaml of the formats 1 *)
(* and 2, the .env of the first releases, and their backups, in pgtower's  *)
(* directories and pgtui's.                                                *)
(*                                                                         *)
(* Each action is one change of the file system: Load is a sequence of     *)
(* them and the process may stop between any two.  Any of them may fail.   *)
(* writeFileAtomic is one step, since nothing reads its temporary file; a  *)
(* backup that is not complete counts as none.                             *)
(*                                                                         *)
(* Left out: the working and the binary's directory and /etc/pgtower,      *)
(* which are searched the same way; PGTOWER_CONFIG and PGTOWER_CONFIG_DIR, *)
(* which switch the moves off; the settings that are not servers.          *)
(***************************************************************************)
EXTENDS Naturals, Sequences, FiniteSets

CONSTANTS
  Servers,     \* what a connection of the user's is known by
  StartFiles   \* the file systems pgtower may find

Dirs == {"home", "opt", "pgtuiHome", "pgtuiOpt"}
SystemDirs == {"opt", "pgtuiOpt"}
ConfigNames == {"config.yml", "config.yaml"}
Names == ConfigNames \union {".env"}

\* perm: this user's alone, readable by others (the administrator's), or not
\* readable by this user.
Kinds == {"v1", "v2", "bad", "env", "none"}
Perms == {"mine", "shared", "locked"}
NoFile == [kind |-> "none", servers |-> {}, perm |-> "mine"]
Backup == [kind : Kinds \ {"none"}, servers : SUBSET Servers, perm : Perms]
File == Backup \union {NoFile}
NoDir == [there |-> FALSE, file |-> [n \in Names |-> NoFile], kept |-> {}]
Directory == [there : {TRUE}, file : [Names -> File], kept : SUBSET Backup] \union {NoDir}
FileSystem == [Dirs -> Directory]

ASSUME ConfigConstants == StartFiles \subseteq FileSystem

VARIABLES
  fs,       \* the directories: their files, and the backups in them
  step,     \* where Load is: "off" without a process, "ready" after it
  pair,     \* the pair of directories relocateDirs is at
  left,     \* the entries mergeDir has still to move
  path,     \* Store.Path
  raw,      \* the file of format 1 being upgraded, NoFile when there is none
  retire,   \* the directory whose .env was imported, NoDirName when none
  servers,  \* Store.Connections
  skipped,  \* Store.Skipped
  failed,   \* history: a change of this run failed
  had,      \* history: the servers the user has saved and not removed
  settled   \* history: a Load has ended without a failure

files == <<fs, had>>
loading == <<step, pair, left, path, raw, retire, servers, skipped, failed>>
configVars == <<files, loading, settled>>

Present(f) == f.kind # "none"
Readable(f) == Present(f) /\ f.perm # "locked"
V2(S) == [kind |-> "v2", servers |-> S, perm |-> "mine"]
At(F, p) == F[p.dir].file[p.name]
NoPath == [dir |-> "none", name |-> "none"]
NoDirName == "none"
UserFile == [dir |-> "home", name |-> "config.yml"]

\* A file is put at p; its directory is made if it is not there.
Put(F, p, f) == [F EXCEPT ![p.dir].there = TRUE, ![p.dir].file[p.name] = f]
Keep(F, d, f) == [F EXCEPT ![d].kept = @ \union {[f EXCEPT !.perm = "mine"]}]

----------------------------------------------------------------------------
(* relocateDirs and mergeDir.                                              *)

Pairs == <<[from |-> "pgtuiHome", to |-> "home"], [from |-> "pgtuiOpt", to |-> "opt"]>>

\* As if a config.yml on the new side never counted.
SeedOnly(f) == FALSE

\* A file that could not be read has none; one that does not parse counts.
HasConnections(f) == Readable(f) /\ (f.kind = "bad" \/ f.servers # {})

\* The old file takes the name; else it is kept beside the new one.
OldWins(n, new) == ~Present(new) \/ (n \in ConfigNames /\ ~HasConnections(new))

MoveEntry(F, p, n) ==
  LET old == F[p.from].file[n]
      gone == [F EXCEPT ![p.from].file[n] = NoFile]
  IN  IF OldWins(n, F[p.to].file[n])
      THEN [gone EXCEPT ![p.to].file[n] = old]
      ELSE [gone EXCEPT ![p.to].kept = @ \union {old}]

\* Nothing reads the backups again: they count as one entry.
MoveKept(F, p) ==
  [F EXCEPT ![p.to].kept = @ \union F[p.from].kept, ![p.from].kept = {}]

\* As if a directory always had all of its files.
EveryName(F, d) == Names

Entries(F, d) ==
  {n \in Names : Present(F[d].file[n])} \union (IF F[d].kept = {} THEN {} ELSE {"backups"})

MoveDir(F, p) == [F EXCEPT ![p.to] = F[p.from], ![p.from] = NoDir]

----------------------------------------------------------------------------
(* findConfigFile and parseAndMigrate.                                     *)

SearchOrder == <<"home", "opt", "pgtuiHome", "pgtuiOpt">>
Candidates ==
  [i \in 1 .. 8 |-> [dir |-> SearchOrder[(i + 1) \div 2],
                     name |-> IF i % 2 = 1 THEN "config.yml" ELSE "config.yaml"]]

\* The first of a sequence that is in K, or the given value.
FirstOf(s, K, otherwise) ==
  IF \E i \in DOMAIN s : s[i] \in K
  THEN s[CHOOSE i \in DOMAIN s : s[i] \in K /\ \A j \in 1 .. i - 1 : s[j] \notin K]
  ELSE otherwise

Paths == [dir : Dirs, name : ConfigNames]
Found(F) == FirstOf(Candidates, {p \in Paths : Readable(At(F, p))}, NoPath)

\* What the search passed over, up to the file it stopped at.
Passed(F) ==
  {Candidates[i] : i \in {j \in DOMAIN Candidates :
     /\ At(F, Candidates[j]).perm = "locked"
     /\ \A k \in 1 .. j : ~Readable(At(F, Candidates[k]))}}

\* As if the format were not looked at.
AnyFormat(f) == f.kind \in {"v1", "v2"}

IsLegacy(f) == f.kind = "v1"

\* The .env next to a file of format 1, if it is pgtower's.
HasEnv(F, d) == Readable(F[d].file[".env"])
Lifted(F, p) ==
  IF At(F, p).servers = {} /\ HasEnv(F, p.dir) THEN F[p.dir].file[".env"].servers
  ELSE At(F, p).servers

\* importLegacyDotenv looks for one that holds a connection.
ImportDir(F) ==
  FirstOf(SearchOrder, {d \in Dirs : HasEnv(F, d) /\ F[d].file[".env"].servers # {}}, NoDirName)

----------------------------------------------------------------------------
(* What a start shows when nothing fails.                                  *)

Merged(F, p) ==
  IF ~F[p.from].there THEN F
  ELSE IF ~F[p.to].there THEN MoveDir(F, p)
  ELSE [F EXCEPT ![p.from] = NoDir, ![p.to].file =
         [n \in Names |->
           IF Present(F[p.from].file[n]) /\ OldWins(n, @[n]) THEN F[p.from].file[n] ELSE @[n]]]

Shown(F) ==
  LET G == Merged(Merged(F, Pairs[1]), Pairs[2])
      p == Found(G)
  IN  IF p # NoPath THEN IF At(G, p).kind = "v1" THEN Lifted(G, p) ELSE At(G, p).servers
      ELSE IF ImportDir(G) # NoDirName THEN G[ImportDir(G)].file[".env"].servers
      ELSE {}

----------------------------------------------------------------------------
(* Load.                                                                   *)

\* An operation works, or fails and is reported.
Works == UNCHANGED failed
Fails == failed' = TRUE /\ UNCHANGED fs

NextPair ==
  /\ pair' = pair + 1
  /\ step' = IF pair < Len(Pairs) THEN "move" ELSE "find"

found == <<path, raw, retire, servers, skipped>>

LoadBegins ==
  /\ step = "off"
  /\ step' = "move" /\ pair' = 1 /\ failed' = FALSE
  /\ UNCHANGED <<files, left, found, settled>>

MovePair ==
  /\ step = "move"
  /\ LET p == Pairs[pair] IN
       \/ /\ ~fs[p.from].there
          /\ Works /\ NextPair /\ UNCHANGED <<fs, left>>
       \/ /\ fs[p.from].there /\ ~fs[p.to].there
          /\ (Works /\ fs' = MoveDir(fs, p)) \/ Fails
          /\ NextPair /\ UNCHANGED left
       \/ /\ fs[p.from].there /\ fs[p.to].there
          /\ left' = Entries(fs, p.from) /\ step' = "merge"
          /\ Works /\ UNCHANGED <<fs, pair>>
  /\ UNCHANGED <<had, found, settled>>

\* mergeDir stops at the first entry that cannot be moved.
MergeEntry(n) ==
  /\ step = "merge" /\ n \in left
  /\ \/ /\ Works
        /\ fs' = IF n = "backups" THEN MoveKept(fs, Pairs[pair]) ELSE MoveEntry(fs, Pairs[pair], n)
        /\ left' = left \ {n} /\ UNCHANGED <<step, pair>>
     \/ Fails /\ NextPair /\ left' = {}
  /\ UNCHANGED <<had, found, settled>>

\* The old directory is empty now, and is removed if it may be.
MergeEnds ==
  /\ step = "merge" /\ left = {}
  /\ (Works /\ fs' = [fs EXCEPT ![Pairs[pair].from] = NoDir]) \/ Fails
  /\ NextPair
  /\ UNCHANGED <<had, left, found, settled>>

\* As if the .env were retired before the new file is written.
RetireFirst(from) == CASE from = "start" -> "retire" [] from = "retire" -> "write"
                       [] from = "write" -> "relocate"

\* commitMigration: the new file first, then the .env.
Commit(from) == CASE from = "start" -> "write" [] from = "write" -> "retire"
                  [] from = "retire" -> "relocate"

FindFile ==
  /\ step = "find"
  /\ skipped' = Passed(fs)
  /\ LET p == Found(fs) IN
       \/ /\ p # NoPath /\ At(fs, p).kind = "bad"
          /\ step' = "refused" /\ UNCHANGED <<path, raw, retire, servers>>
       \/ /\ p # NoPath /\ At(fs, p).kind # "bad" /\ ~IsLegacy(At(fs, p))
          /\ path' = p /\ servers' = At(fs, p).servers
          /\ step' = "relocate" /\ UNCHANGED <<raw, retire>>
       \/ /\ p # NoPath /\ IsLegacy(At(fs, p))
          /\ path' = p /\ servers' = Lifted(fs, p) /\ raw' = At(fs, p)
          /\ retire' = IF HasEnv(fs, p.dir) THEN p.dir ELSE NoDirName
          /\ step' = "backup"
       \/ /\ p = NoPath /\ ImportDir(fs) # NoDirName
          /\ path' = [dir |-> ImportDir(fs), name |-> "config.yml"]
          /\ servers' = fs[ImportDir(fs)].file[".env"].servers
          /\ retire' = ImportDir(fs)
          /\ step' = Commit("start") /\ UNCHANGED raw
       \/ /\ p = NoPath /\ ImportDir(fs) = NoDirName
          /\ step' = "relocate" /\ UNCHANGED <<path, raw, retire, servers>>
  /\ UNCHANGED <<files, pair, left, failed, settled>>

committing == <<had, pair, left, found, settled>>

BackUp ==
  /\ step = "backup"
  /\ \/ Works /\ fs' = Keep(fs, path.dir, raw) /\ step' = Commit("start")
     \/ Fails /\ step' = "relocate"
  /\ UNCHANGED committing

\* As if the file were written as it was read.
AsRead == raw.servers

\* The list in memory, the imported connection included.
Rendered == servers

WriteUpgrade ==
  /\ step = "write"
  /\ \/ Works /\ fs' = Put(fs, path, V2(Rendered)) /\ step' = Commit("write")
     \/ Fails /\ step' = "relocate"
  /\ UNCHANGED committing

\* The .env becomes a backup beside itself.
RetireEnv ==
  /\ step = "retire"
  /\ step' = Commit("retire")
  /\ \/ retire = NoDirName /\ Works /\ UNCHANGED fs
     \/ /\ retire # NoDirName /\ Works
        /\ fs' = [Keep(fs, retire, fs[retire].file[".env"]) EXCEPT
                    ![retire].file[".env"] = NoFile]
     \/ retire # NoDirName /\ Fails
  /\ UNCHANGED committing

\* relocateConfig: a system file of this user's alone moves to the user's directory.
Movable ==
  /\ path # NoPath /\ path.dir \in SystemDirs
  /\ At(fs, path).perm = "mine" /\ Present(At(fs, path))
  /\ ~Present(At(fs, UserFile))

LoadEnds == step' = "ready" /\ settled' = (settled \/ ~failed')

\* The copy is written first; path names the original until it is renamed.
Relocate ==
  /\ step = "relocate"
  /\ \/ ~Movable /\ Works /\ LoadEnds /\ UNCHANGED <<fs, path>>
     \/ Movable /\ Fails /\ LoadEnds /\ UNCHANGED path
     \/ /\ Movable /\ Works
        /\ fs' = Put(fs, UserFile, V2(servers))
        /\ step' = "original" /\ UNCHANGED <<path, settled>>
  /\ UNCHANGED <<had, pair, left, raw, retire, servers, skipped>>

RenameOriginal ==
  /\ step = "original"
  /\ \/ /\ Works
        /\ fs' = [Keep(fs, path.dir, At(fs, path)) EXCEPT
                    ![path.dir].file[path.name] = NoFile]
     \/ Fails
  /\ path' = UserFile /\ LoadEnds
  /\ UNCHANGED <<had, pair, left, raw, retire, servers, skipped>>

----------------------------------------------------------------------------
(* Save, and the end of the process at any point.                          *)

SavePath == IF path = NoPath \/ path.dir \in SystemDirs THEN UserFile ELSE path

\* The user adds or removes a server; a file that was skipped is not written over.
Save(s) ==
  /\ step = "ready"
  /\ servers' = IF s \in servers THEN servers \ {s} ELSE servers \union {s}
  /\ \/ /\ SavePath \notin skipped /\ Works
        /\ fs' = Put(fs, SavePath, V2(servers'))
        /\ path' = SavePath
        /\ had' = (had \ {s}) \union servers'
     \/ Fails /\ had' = had \ {s} /\ UNCHANGED path
  /\ UNCHANGED <<step, pair, left, raw, retire, skipped, settled>>

\* The memory of a process that is not there.
ProcessEnds ==
  /\ step # "off" /\ step' = "off"
  /\ pair' = 0 /\ left' = {} /\ path' = NoPath /\ raw' = NoFile
  /\ retire' = NoDirName /\ servers' = {} /\ skipped' = {} /\ failed' = FALSE
  /\ UNCHANGED <<files, settled>>

----------------------------------------------------------------------------
AllFiles(F) == UNION {{F[d].file[n] : n \in Names} \union F[d].kept : d \in Dirs}

ConfigInit ==
  /\ fs \in StartFiles /\ had = UNION {f.servers : f \in AllFiles(fs)}
  /\ step = "off" /\ pair = 0 /\ left = {} /\ path = NoPath /\ raw = NoFile
  /\ retire = NoDirName /\ servers = {} /\ skipped = {} /\ failed = FALSE
  /\ settled = FALSE

LoadNext ==
  \/ MovePair \/ MergeEnds \/ \E n \in left : MergeEntry(n)
  \/ FindFile \/ BackUp \/ WriteUpgrade \/ RetireEnv \/ Relocate \/ RenameOriginal

ConfigNext == LoadBegins \/ LoadNext \/ (\E s \in Servers : Save(s)) \/ ProcessEnds
ConfigSpec == ConfigInit /\ [][ConfigNext]_configVars

----------------------------------------------------------------------------
(* Properties.                                                             *)

ConfigTypeOK ==
  /\ fs \in FileSystem
  /\ step \in {"off", "move", "merge", "find", "backup", "write", "retire", "relocate",
               "original", "ready", "refused"}
  /\ pair \in 0 .. 3 /\ left \subseteq Names \union {"backups"}
  /\ path \in Paths \union {NoPath}
  /\ raw \in File /\ retire \in Dirs \union {NoDirName}
  /\ servers \subseteq Servers /\ skipped \subseteq Paths
  /\ failed \in BOOLEAN /\ settled \in BOOLEAN /\ had \subseteq Servers

\* "An order that never loses data" (migrate.go): wherever a start stops and whatever
\* fails, every server the user had is still in some file or backup.
NothingLost == had \subseteq UNION {f.servers : f \in AllFiles(fs)}

\* A start that is cut short changes nothing for the next one: while nothing fails,
\* no step of Load changes the servers a start shows.
SameServers ==
  [][step # "ready" /\ ~failed' => Shown(fs') = Shown(fs)]_configVars

\* What the list shows is what the next start will show.
ShownIsSaved == step = "ready" /\ ~failed => servers = Shown(fs)

\* "A second run must not create another backup" (config_test.go): once a Load has
\* ended without a failure, no later one changes a file.
SecondRunQuiet == [][settled /\ step # "ready" => fs' = fs]_configVars

\* "A file you may not read is skipped ...; pgtower never saves over it" (README).
LockedStays ==
  [][\A n \in ConfigNames :
       fs["home"].file[n].perm = "locked" => fs'["home"].file[n] = fs["home"].file[n]]_configVars

\* "A file readable by others is admin-managed: it is read, never moved or written"
\* (location.go), for the files that are in a system directory of pgtower's already.
SharedStays ==
  [][\A n \in ConfigNames :
       fs["opt"].file[n].perm = "shared" => fs'["opt"].file[n] = fs["opt"].file[n]]_configVars
=============================================================================
