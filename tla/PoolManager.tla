---------------------------- MODULE PoolManager ----------------------------
(***************************************************************************)
(* db.Manager: one pgxpool per database, made on demand, and the commands  *)
(* that use them from their own goroutines.                                *)
(*                                                                         *)
(* A command is a plan: steps that ask the manager for the pool of a       *)
(* database (Manager.Pool) and run a query on it, or run one more query on *)
(* the pool they got earlier (reuse).  A load is one step; ForceDropRole   *)
(* and RoleAccess visit several databases.  Manager.Pool holds the mutex   *)
(* only around the map; Manager.Close holds it while every pool waits for  *)
(* the connections in use.                                                 *)
(*                                                                         *)
(* A pool is known by the order in which it was made.  Left out: the size  *)
(* of a pool and its health checks, and what the queries return.           *)
(***************************************************************************)
EXTENDS Naturals, Sequences

CONSTANTS
  Databases,
  AdminDB,
  Commands,   \* goroutines running a command
  Plans       \* the plans a command may follow

Step == [reuse : BOOLEAN, db : Databases]

ASSUME PoolConstants ==
  /\ AdminDB \in Databases
  /\ Plans \subseteq Seq(Step)
  /\ \A p \in Plans : Len(p) > 0

VARIABLES
  plan,    \* the plan of each command
  at,      \* the step each command is at
  pc,      \* where it is in that step
  handle,  \* the pool it last got for each database, NoPool before
  pools,   \* Manager.pools, NoPool where there is none
  made,    \* every pool made so far: its database and its state
  closer,  \* Manager.Close: "no", "closing" (it holds the mutex) or "done"
  lost     \* history: pools replaced in the map by another one

vars == <<plan, at, pc, handle, pools, made, closer, lost>>
unmoved == <<plan, closer>>

NoPool == 0
PoolIds == DOMAIN made
Here(c) == plan[c][at[c]].db
Mine(c) == handle[c][Here(c)]

\* m.mu: Close keeps it until every pool is closed.
Unlocked == closer # "closing"

\* As if a command kept its connection (rows left open) to the end of its plan.
BusyToTheEnd(p) ==
  \E c \in Commands : pc[c] # "done" /\ \E d \in Databases : handle[c][d] = p

\* A pool with a connection that has not been returned.
Busy(p) == \E c \in Commands : pc[c] = "query" /\ Mine(c) = p

\* As if the copy of the base configuration kept the database of the DSN.
AdminConfig(d) == AdminDB

\* The pool configuration for d: the base one with another database.
ConfigFor(d) == d

----------------------------------------------------------------------------
(* Manager.Pool.                                                           *)

\* The map has a pool of that database: it is returned as it is.
PoolFound(c) ==
  /\ pc[c] = "ask" /\ Unlocked
  /\ pools[Here(c)] # NoPool
  /\ handle' = [handle EXCEPT ![c][Here(c)] = pools[Here(c)]]
  /\ pc' = [pc EXCEPT ![c] = "ready"]
  /\ UNCHANGED <<unmoved, at, pools, made, lost>>

\* There is none: the mutex is given back before connecting.
PoolMissing(c) ==
  /\ pc[c] = "ask" /\ Unlocked
  /\ pools[Here(c)] = NoPool
  /\ pc' = [pc EXCEPT ![c] = "open"]
  /\ UNCHANGED <<unmoved, at, handle, pools, made, lost>>

\* pgxpool.NewWithConfig makes the pool.
PoolOpened(c) ==
  /\ pc[c] = "open"
  /\ made' = Append(made, [db |-> ConfigFor(Here(c)), st |-> "open"])
  /\ handle' = [handle EXCEPT ![c][Here(c)] = Len(made) + 1]
  /\ pc' = [pc EXCEPT ![c] = "ping"]
  /\ UNCHANGED <<unmoved, at, pools, lost>>

\* As if the loop over the databases ran one past its end.
AdvancePast(c) ==
  /\ at' = [at EXCEPT ![c] = @ + 1]
  /\ pc' = [pc EXCEPT ![c] =
             CASE at[c] = Len(plan[c]) -> "done"
               [] at[c] < Len(plan[c]) -> IF plan[c][at[c] + 1].reuse THEN "ready" ELSE "ask"]

\* The command goes on: with its next step, or not at all after an error.
Advance(c) ==
  \/ /\ at[c] < Len(plan[c])
     /\ at' = [at EXCEPT ![c] = @ + 1]
     /\ pc' = [pc EXCEPT ![c] = IF plan[c][at[c] + 1].reuse THEN "ready" ELSE "ask"]
  \/ at' = at /\ pc' = [pc EXCEPT ![c] = "done"]

\* NewWithConfig refuses: nothing was made.
OpenFails(c) ==
  /\ pc[c] = "open"
  /\ Advance(c)
  /\ UNCHANGED <<unmoved, handle, pools, made, lost>>

\* As if a pool that does not answer were dropped without closing it.
AbandonPool(p) == made

ClosedPool(p) == [made EXCEPT ![p].st = "closed"]

\* The first ping fails or times out: the pool is closed at once.
PingFails(c) ==
  /\ pc[c] = "ping"
  /\ made' = ClosedPool(Mine(c))
  /\ Advance(c)
  /\ UNCHANGED <<unmoved, handle, pools, lost>>

PingAnswers(c) ==
  /\ pc[c] = "ping"
  /\ pc' = [pc EXCEPT ![c] = "insert"]
  /\ UNCHANGED <<unmoved, at, handle, pools, made, lost>>

\* The pool enters the map, whatever happened since the map was read.
Insert(c) ==
  /\ pc[c] = "insert" /\ Unlocked
  /\ pools' = [pools EXCEPT ![Here(c)] = Mine(c)]
  /\ lost' = lost \union ({pools[Here(c)]} \ {NoPool})
  /\ pc' = [pc EXCEPT ![c] = "ready"]
  /\ UNCHANGED <<unmoved, at, handle, made>>

----------------------------------------------------------------------------
(* The queries of a command.                                               *)

QueryStarts(c) ==
  /\ pc[c] = "ready" /\ Mine(c) # NoPool
  /\ made[Mine(c)].st = "open"
  /\ pc' = [pc EXCEPT ![c] = "query"]
  /\ UNCHANGED <<unmoved, at, handle, pools, made, lost>>

\* The pool is being closed ("closed pool"), or an earlier step got none.
QueryRefused(c) ==
  /\ pc[c] = "ready"
  /\ Mine(c) = NoPool \/ (Mine(c) # NoPool /\ made[Mine(c)].st # "open")
  /\ Advance(c)
  /\ UNCHANGED <<unmoved, handle, pools, made, lost>>

\* The rows are read and closed, or the timeout of the command ends the query.
QueryEnds(c) ==
  /\ pc[c] = "query"
  /\ Advance(c)
  /\ UNCHANGED <<unmoved, handle, pools, made, lost>>

----------------------------------------------------------------------------
(* Manager.Close, in a goroutine of its own, once: session.close, a        *)
(* superseded connect or the end of the program.                           *)

\* As if Close left the closed pools in the map.
KeptMap == pools

EmptyMap == [d \in Databases |-> NoPool]

CloseBegins ==
  /\ closer = "no"
  /\ closer' = "closing"
  /\ UNCHANGED <<plan, at, pc, handle, pools, made, lost>>

\* The pools are closed one after another, in the order of the map.
ClosePool(d) ==
  /\ closer = "closing"
  /\ pools[d] # NoPool /\ made[pools[d]].st = "open"
  /\ \A p \in PoolIds : made[p].st # "closing"
  /\ made' = [made EXCEPT ![pools[d]].st = "closing"]
  /\ UNCHANGED <<plan, at, pc, handle, pools, closer, lost>>

\* pgxpool.Pool.Close returns when its last connection has come back.
PoolDrained(p) ==
  /\ made[p].st = "closing" /\ ~Busy(p)
  /\ made' = ClosedPool(p)
  /\ UNCHANGED <<plan, at, pc, handle, pools, closer, lost>>

CloseEnds ==
  /\ closer = "closing"
  /\ \A d \in Databases : pools[d] # NoPool => made[pools[d]].st = "closed"
  /\ pools' = EmptyMap
  /\ closer' = "done"
  /\ UNCHANGED <<plan, at, pc, handle, made, lost>>

----------------------------------------------------------------------------
\* NewManager has pinged the pool of the administrative database.
Init ==
  /\ plan \in [Commands -> Plans]
  /\ at = [c \in Commands |-> 1]
  /\ pc = [c \in Commands |-> IF plan[c][1].reuse THEN "ready" ELSE "ask"]
  /\ handle = [c \in Commands |-> [d \in Databases |-> NoPool]]
  /\ made = <<[db |-> AdminDB, st |-> "open"]>>
  /\ pools = [d \in Databases |-> IF d = AdminDB THEN 1 ELSE NoPool]
  /\ closer = "no" /\ lost = {}

Command(c) ==
  \/ PoolFound(c) \/ PoolMissing(c) \/ PoolOpened(c) \/ OpenFails(c)
  \/ PingFails(c) \/ PingAnswers(c) \/ Insert(c)
  \/ QueryStarts(c) \/ QueryRefused(c) \/ QueryEnds(c)

Closing ==
  \/ \E d \in Databases : ClosePool(d)
  \/ \E p \in PoolIds : PoolDrained(p)
  \/ CloseEnds

Next == (\E c \in Commands : Command(c)) \/ CloseBegins \/ Closing

Spec == Init /\ [][Next]_vars

\* A goroutine that can run does: a ping or a query ends by itself or by its
\* timeout, and the mutex goes to one that waits for it.  Nothing says that a
\* manager is closed.
FairSpec == Spec /\ WF_vars(Closing) /\ \A c \in Commands : WF_vars(Command(c))

----------------------------------------------------------------------------
(* Properties.                                                             *)

PoolStates == {"open", "closing", "closed"}
Places == {"ask", "open", "ping", "insert", "ready", "query", "done"}

TypeOK ==
  /\ plan \in [Commands -> Plans]
  /\ at \in [Commands -> Nat \ {0}]
  /\ \A c \in Commands : at[c] <= Len(plan[c])
  /\ pc \in [Commands -> Places]
  /\ made \in Seq([db : Databases, st : PoolStates])
  /\ handle \in [Commands -> [Databases -> {NoPool} \union PoolIds]]
  /\ pools \in [Databases -> {NoPool} \union PoolIds]
  /\ closer \in {"no", "closing", "done"}
  /\ lost \subseteq PoolIds

\* No caller of Pool is given a pool that is closed or being closed, unless the
\* manager itself was closed meanwhile: whatever is in the map works.
MapHoldsOpenPools ==
  Unlocked => \A d \in Databases : pools[d] # NoPool => made[pools[d]].st = "open"

\* A query runs on the database its step names: "DROP OWNED" never goes elsewhere,
\* whatever the other commands do to the map.
RightDatabase == \A c \in Commands : pc[c] = "query" => made[Mine(c)].db = Here(c)

\* Bringing up: the pool is between NewWithConfig and the map.
BeingMade(p) == \E c \in Commands : pc[c] \in {"ping", "insert"} /\ Mine(c) = p

\* The only pools left open and out of the map are those that a second caller's
\* pool replaced: a failed ping and Close leave none behind.
NoOtherLeak ==
  \A p \in PoolIds :
    made[p].st = "open" => BeingMade(p) \/ p \in lost \/ \E d \in Databases : pools[d] = p

\* "Close closes all open pools" (db.go): once it has returned and the commands of
\* the session are over, no pool of the manager is open.
CloseClosesAll ==
  closer = "done" /\ (\A c \in Commands : pc[c] = "done") =>
    \A p \in PoolIds : made[p].st # "open"

\* Close waits for the queries and the queries never wait for Close.
CloseReturns == closer = "closing" ~> closer = "done"

\* Every command is answered, also the one that waits for the mutex during Close.
CommandsAnswered == \A c \in Commands : <>(pc[c] = "done")

\* Neither waits for the other for ever (Manager.Close holds the mutex while the
\* pools wait for their connections).
EverybodyEnds == CloseReturns /\ CommandsAnswered
=============================================================================
