---------------------------- MODULE ServerStore ----------------------------
(***************************************************************************)
(* The list of servers behind the Servers screen: config.Store of          *)
(* internal/config.  A store is a record                                   *)
(*   conns    the connections of config.yml, in file order                 *)
(*   default  the name opened at startup, NoName when unset                *)
(*   env      TRUE when DATABASE_URL / PG* gave a session-only connection  *)
(* and a connection is a name with its settings.  Host, port, user and the *)
(* rest are one opaque Settings value: what matters is whether two         *)
(* connections have the same settings and whether they resolve.            *)
(***************************************************************************)
EXTENDS Naturals, Sequences, Lists

CONSTANTS
  Names,      \* names a server may have, EnvName among them
  EnvName,    \* config.EnvConnectionName, reserved for the environment
  NoName,     \* the empty string where a name is expected
  Settings,   \* the settings a connection may have
  BadSettings \* those Resolve refuses: only a hand-edited file holds them

ASSUME StoreConstants ==
  /\ EnvName \in Names
  /\ NoName \notin Names
  /\ BadSettings \subseteq Settings /\ BadSettings # Settings

Connection == [name: Names, cfg: Settings]
Stores == [conns: Seq(Connection), default: Names \union {NoName}, env: BOOLEAN]

\* The connection of DATABASE_URL: its settings always parse in this model.
EnvConnection ==
  [name |-> EnvName, cfg |-> CHOOSE s \in Settings : s \notin BadSettings]

Resolvable(c) == c.cfg \notin BadSettings

\* Store.Names: the environment's connection first.
StoreNames(s) ==
  (IF s.env THEN <<EnvName>> ELSE <<>>) \o [i \in DOMAIN s.conns |-> s.conns[i].name]

\* The first saved connection of that name: a hand-edited file may hold two.
IndexOf(s, n) ==
  CHOOSE i \in DOMAIN s.conns :
    s.conns[i].name = n /\ \A j \in 1 .. i - 1 : s.conns[j].name # n

IsSaved(s, n) == \E i \in DOMAIN s.conns : s.conns[i].name = n

\* Store.Find: the environment's connection hides a saved one of that name.
Found(s, n) == (s.env /\ n = EnvName) \/ IsSaved(s, n)
Find(s, n) == IF s.env /\ n = EnvName THEN EnvConnection ELSE s.conns[IndexOf(s, n)]

\* Store.Initial without -s: the environment, the default, the only one.
Initial(s) ==
  LET hasDefault == s.default # NoName /\ Found(s, s.default)
  IN  CASE s.env        -> {EnvConnection}
        [] hasDefault /\ ~s.env -> {Find(s, s.default)}
        [] ~hasDefault /\ ~s.env ->
             {s.conns[i] : i \in {j \in DOMAIN s.conns : Len(s.conns) = 1}}

\* As if the name were not looked up among the other servers.
UpsertAnyName(s, old, c) == c.name # EnvName /\ Resolvable(c)

\* Store.Upsert: what it refuses, and what it does otherwise.
UpsertOK(s, old, c) ==
  /\ c.name # EnvName
  /\ Resolvable(c)
  /\ \A i \in DOMAIN s.conns : s.conns[i].name = c.name => s.conns[i].name = old

\* As if a renamed server left the default pointing at its old name.
UpsertForgetsDefault(s, old, c) ==
  IF IsSaved(s, old) THEN [s EXCEPT !.conns[IndexOf(s, old)] = c]
  ELSE [s EXCEPT !.conns = Append(@, c)]

Upsert(s, old, c) ==
  IF IsSaved(s, old)
  THEN [s EXCEPT !.conns[IndexOf(s, old)] = c,
                 !.default = IF @ = old THEN c.name ELSE @]
  ELSE [s EXCEPT !.conns = Append(@, c)]

\* Store.Remove clears the default that named the removed server.
Remove(s, n) ==
  [s EXCEPT !.conns = Only(@, [name : Names \ {n}, cfg : Settings]),
            !.default = IF @ = n THEN NoName ELSE @]

\* What Store.Save writes: the environment's connection is never part of it.
Saved(s) == [conns |-> s.conns, default |-> s.default]
=============================================================================
