------------------------------ MODULE MCStartup ------------------------------
(* Small instances of Startup: what installs of different ages left. *)
EXTENDS Startup

CONSTANTS a, b

F(kind, S, perm) == [kind |-> kind, servers |-> S, perm |-> perm]
D(yml, yaml, env) ==
  [there |-> TRUE, kept |-> {},
   file |-> [n \in Names |-> CASE n = "config.yml" -> yml [] n = "config.yaml" -> yaml
                               [] n = ".env" -> env]]
Seed == F("v2", {}, "mine")
Mine == F("v2", {a}, "mine")
Template == F("v1", {}, "mine")
DotEnv == F("env", {a}, "mine")

Tree(h, o, ph, po) ==
  [d \in Dirs |-> CASE d = "home" -> h [] d = "opt" -> o
                    [] d = "pgtuiHome" -> ph [] d = "pgtuiOpt" -> po]

\* Pieces: a list of one server, an upgrade with its .env, the administrator's file.
User == D(F("v2", {b}, "mine"), NoFile, NoFile)
Pgtui == D(Mine, NoFile, NoFile)
Seeded == D(Seed, NoFile, NoFile)
OldEnv == D(NoFile, NoFile, DotEnv)
Commented == D(Template, NoFile, DotEnv)
Upgrade == D(F("v1", {a}, "mine"), NoFile, F("env", {b}, "mine"))
Shared == D(F("v2", {b}, "shared"), NoFile, NoFile)
Yaml == D(NoFile, Mine, DotEnv)
Garbled == D(F("bad", {}, "mine"), NoFile, NoFile)

\* Another user's file in the home directory, with nothing to be moved there.
Foreign == D(F("v2", {b}, "locked"), NoFile, NoFile)

MCFiles ==
  {Tree(NoDir, NoDir, NoDir, NoDir), Tree(NoDir, Upgrade, NoDir, NoDir),
   Tree(NoDir, Commented, Pgtui, NoDir), Tree(Seeded, NoDir, Pgtui, NoDir),
   Tree(Seeded, Shared, Commented, NoDir), Tree(User, NoDir, Pgtui, OldEnv),
   Tree(User, Upgrade, Commented, NoDir), Tree(Yaml, Shared, NoDir, NoDir),
   Tree(Garbled, NoDir, Pgtui, NoDir), Tree(NoDir, Shared, NoDir, OldEnv),
   Tree(NoDir, NoDir, NoDir, OldEnv), Tree(Foreign, Upgrade, NoDir, NoDir)}

\* The same user, with the .env of a first release in pgtui's directory.
ForeignEnv == {Tree(Foreign, NoDir, OldEnv, NoDir)}

\* The administrator's file, in the format of the first releases.
SharedUpgrade == {Tree(NoDir, D(F("v1", {a}, "shared"), NoFile, NoFile), NoDir, NoDir)}
=============================================================================
