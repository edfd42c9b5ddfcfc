---------------------------- MODULE TabCommands ----------------------------
(***************************************************************************)
(* The commands that the tabs of one session start (ui/commands.go), the   *)
(* server they read and change, and their answers.  A command reads at one *)
(* moment and its answer is handled at a later one, in any order: bags,    *)
(* since two loads of the same list are two answers.                       *)
(***************************************************************************)
EXTENDS Statements, Lists, FiniteSets, BagsExt, SequencesExt

CONSTANTS
  Databases, AdminDB,
  Tables, TablesIn,        \* the tables of each database
  Pids,                    \* backends of other clients
  Gucs, GucOrder,          \* settings, by name
  Internal, Restarts,      \* those fixed at compile time, those read at a restart only
  Values, Default,         \* of settings
  Typed, Taken,            \* values that pass the form, values the server takes
  Sql,                     \* the texts a user may enter
  Jobs,                    \* bound: the tabs, operations and texts of a behaviour
  MaxCmds,                 \* bound: commands and answers under way
  MaxFaults, MaxOthers     \* bounds: failures, changes by somebody else

ASSUME CommandConstants ==
  /\ AdminDB \in Databases /\ TablesIn \in [Databases -> SUBSET Tables]
  /\ IsFiniteSet(Databases) /\ IsFiniteSet(Tables) /\ IsFiniteSet(Pids)
  /\ {MaxCmds, MaxFaults, MaxOthers} \subseteq Nat
  /\ Empty \in Sql
  /\ GucOrder \in Seq(Gucs) /\ Internal \union Restarts \subseteq Gucs
  /\ \A n \in Gucs : Default \in Taken[n] /\ Typed[n] \union Taken[n] \subseteq Values

VARIABLES
  server,                  \* databases, backends, settings
  pending, answers,        \* commands that run, answers that were not handled
  job, faults, others      \* bounds

world == <<server, job, faults, others>>
commands == <<pending, answers>>

----------------------------------------------------------------------------
(* The texts the program writes itself, and the commands.                  *)

Reading(t) == [first |-> "read", where |-> FALSE, dml |-> FALSE, does |-> "reads",
               planned |-> "reads", about |-> t]
SelectAll(t) == Reading(<<t, "all">>)
SelectLike(t) == Reading(<<t, "search">>)

Typable == {q \in Sql : q.about \in job}

LoadDatabases == [kind |-> "databases"]
LoadTables(d) == [kind |-> "tables", db |-> d]
DescribeTable(d, t) == [kind |-> "describe", db |-> d, table |-> t]
LoadTableData(d, q, n) == [kind |-> "data", db |-> d, sql |-> q, token |-> n]
RunQuery(d, q) == [kind |-> "query", db |-> d, sql |-> q]
CreateDatabase(d) == [kind |-> "exec", op |-> "create", db |-> d]
DropDatabase(d) == [kind |-> "exec", op |-> "drop", db |-> d]
LoadSessions == [kind |-> "sessions"]
SessionAction(op, p) == [kind |-> "session action", op |-> op, pid |-> p]
LoadLocks == [kind |-> "locks"]
LoadDashboard == [kind |-> "dashboard"]
LoadTuning == [kind |-> "tuning"]
LoadAllSettings == [kind |-> "settings"]
TuningLoads == {LoadTuning, LoadAllSettings}
\* A reset is a change to the default.
ApplySetting(n, v) ==
  [kind |-> "setting", name |-> n, value |-> v, restart |-> n \in Restarts, step |-> "alter"]
Tick == [kind |-> "tick"]

OnePool == {"tables", "describe", "data", "query"}

UnderwayNow == DOMAIN pending \union {a.cmd : a \in DOMAIN answers}
Underway(c) == c \in UnderwayNow

TickAnswer == [cmd |-> Tick, ok |-> TRUE, rows |-> <<>>]
Copies(c, b) == IF c \in DOMAIN b THEN b[c] ELSE 0
Timers(p, a) == Copies(Tick, p) + Copies(TickAnswer, a)
\* The bound: a timer that waits is none of the commands.
Room(p, a) == BagCardinality(p) + BagCardinality(a) <= MaxCmds + Timers(p, a)
Start(p, a) == Room(p, a) /\ pending' = p /\ answers' = a
\* What the handling of a key, or of an answer, starts.
Send(cs) == Start(pending (+) SetToBag(cs), answers)
Reply(a, cs) == Start(pending (+) SetToBag(cs), BagRemove(answers, a))

----------------------------------------------------------------------------
(* The server.                                                             *)

Accepted(c) ==
  /\ c.kind \in OnePool => c.db \in server.dbs
  /\ c.kind = "exec" => IF c.op = "create" THEN c.db \notin server.dbs
                        ELSE c.db \in server.dbs \ {AdminDB}
  /\ c.kind = "setting" => c.value \in Taken[c.name]

\* As if the value were only written.
NotTold(s) == s
\* pg_reload_conf sends a signal.
Signalled(s) == [s EXCEPT !.signalled = TRUE]

Effect(c) ==
  CASE c.kind = "exec" /\ c.op = "create" -> [server EXCEPT !.dbs = @ \union {c.db}]
    [] c.kind = "exec" /\ c.op = "drop" -> [server EXCEPT !.dbs = @ \ {c.db}]
    [] c.kind = "session action" /\ c.op = "terminate" -> [server EXCEPT !.pids = @ \ {c.pid}]
    [] c.kind = "setting" -> Signalled(server)
    [] OTHER -> server

\* Lists come sorted by size, by state or by age: in any order.  A statement that
\* writes may return rows or a command tag.
TableRows(d) == {[db |-> d, name |-> t] : t \in TablesIn[d]}
Rows(c) ==
  CASE c.kind = "databases" -> SetToSeqs(server.dbs)
    [] c.kind = "tables" -> SetToSeqs(TableRows(c.db))
    [] c.kind = "sessions" -> SetToSeqs(server.pids)
    [] c.kind = "settings" -> {GucOrder}
    [] c.kind = "query" -> IF c.sql.does = "reads" THEN {<<"row">>} ELSE {<<"row">>, <<>>}
    [] OTHER -> {<<>>}

Done(c, ok, rows) ==
  /\ pending' = BagRemove(pending, c)
  /\ answers' = BagAdd(answers, [cmd |-> c, ok |-> ok, rows |-> rows])

\* A setting is written first, then the server is told to read it.
AlterSystem(c) ==
  /\ c.kind = "setting" /\ c.step = "alter" /\ Accepted(c)
  /\ server' = [server EXCEPT !.file[c.name] = c.value]
  /\ pending' = BagAdd(BagRemove(pending, c), [c EXCEPT !.step = "reload"])
  /\ UNCHANGED <<answers, job, faults, others>>
\* It does so in its own time.
ReadConfig ==
  /\ server.signalled
  /\ server' = [server EXCEPT !.signalled = FALSE,
                              !.live = [n \in Gucs |-> IF n \in Restarts THEN server.live[n]
                                                    ELSE server.file[n]]]
  /\ UNCHANGED <<commands, job, faults, others>>

RunCommand(c) ==
  /\ c.kind = "setting" => c.step = "reload"
  /\ Accepted(c) /\ server' = Effect(c)
  /\ \E rows \in Rows(c) : Done(c, TRUE, rows)
  /\ UNCHANGED <<job, faults, others>>
RefuseCommand(c) == ~Accepted(c) /\ Done(c, FALSE, <<>>) /\ UNCHANGED world
\* No connection, a deadline, a server that went away.
FailCommand(c) ==
  /\ "faults" \in job /\ c # Tick /\ faults < MaxFaults
  /\ faults' = faults + 1 /\ Done(c, FALSE, <<>>)
  /\ UNCHANGED <<server, job, others>>

SomebodyElse ==
  /\ "others" \in job /\ others < MaxOthers /\ others' = others + 1
  /\ \/ \E d \in Databases \ {AdminDB} :
          server' = [server EXCEPT !.dbs = IF d \in @ THEN @ \ {d} ELSE @ \union {d}]
     \/ \E p \in Pids : server' = [server EXCEPT !.pids = IF p \in @ THEN @ \ {p} ELSE @ \union {p}]
  /\ UNCHANGED <<commands, job, faults>>

----------------------------------------------------------------------------
(* The tables on the screen.                                               *)

\* As if the cursor stayed where it was.
KeptCursor(l, c) == {c}
\* A cursor below a new list goes to its end or to its top, and is nowhere (0) in
\* an empty one, until it is moved.
CursorIn(l, c) ==
  IF c \in DOMAIN l \union {0} THEN {c} ELSE {IF l = <<>> THEN 0 ELSE 1, Len(l)}
Moves(l, c) == {IF c < Len(l) THEN c + 1 ELSE c, IF c > 1 THEN c - 1 ELSE 1} \ {c}

CommandsInit ==
  /\ job \in Jobs /\ faults = 0 /\ others = 0
  /\ server = [dbs |-> Databases, pids |-> Pids, signalled |-> FALSE,
               file |-> [n \in Gucs |-> Default], live |-> [n \in Gucs |-> Default]]
=============================================================================
