----------------------------- MODULE PoolProofs -----------------------------
(***************************************************************************)
(* Proofs about PoolManager: for any number of databases and commands, and *)
(* whatever the commands do, no pool is lost but those the known race      *)
(* replaces, the map hands out pools that work, and a query runs on the    *)
(* database it was meant for.                                              *)
(***************************************************************************)
EXTENDS PoolManager, SequenceTheorems, TLAPS

PoolRecord == [db : Databases, st : PoolStates]

\* The pool c has made and not yet put into the map.
Making(c) == pc[c] \in {"ping", "insert"}

(***************************************************************************)
(* The inductive invariant.                                                *)
(***************************************************************************)

\* A pool is kept and handed out under the database it was made for.
Filed ==
  /\ \A d \in Databases : pools[d] # NoPool => made[pools[d]].db = d
  /\ \A c \in Commands, d \in Databases :
       handle[c][d] # NoPool => made[handle[c][d]].db = d

\* Nobody else knows of a pool that is being made.
OwnPool ==
  \A c \in Commands : Making(c) =>
    /\ Mine(c) # NoPool /\ made[Mine(c)].st = "open"
    /\ \A d \in Databases : pools[d] # Mine(c)
    /\ \A b \in Commands \ {c} : Making(b) => Mine(b) # Mine(c)

\* A query has a pool.
InUse == \A c \in Commands : pc[c] = "query" => Mine(c) # NoPool

PoolInv == TypeOK /\ Filed /\ OwnPool /\ InUse /\ MapHoldsOpenPools /\ NoOtherLeak

-----------------------------------------------------------------------------
\* The step of a command is about a database.
LEMMA HereIsDatabase ==
  ASSUME TypeOK, NEW c \in Commands
  PROVE  Here(c) \in Databases
<1>1. plan[c] \in Seq(Step) /\ at[c] \in 1 .. Len(plan[c])
  BY PoolConstants DEF TypeOK
<1>2. plan[c][at[c]] \in Step
  BY <1>1, ElementOfSeq
<1> QED
  BY <1>2 DEF Here, Step

\* What is known of the pools made so far.
LEMMA MadeFacts ==
  ASSUME TypeOK
  PROVE  /\ Len(made) \in Nat /\ PoolIds = 1 .. Len(made)
         /\ \A p \in PoolIds : made[p] \in PoolRecord
<1>1. made \in Seq(PoolRecord)
  BY DEF TypeOK, PoolRecord
<1>2. Len(made) \in Nat /\ DOMAIN made = 1 .. Len(made)
  BY <1>1, LenProperties
<1>3. \A p \in 1 .. Len(made) : made[p] \in PoolRecord
  BY <1>1, ElementOfSeq
<1> QED
  BY <1>2, <1>3 DEF PoolIds

\* A change of the state of one pool.
LEMMA NewState ==
  ASSUME TypeOK, NEW p \in PoolIds, NEW s \in PoolStates,
         made' = [made EXCEPT ![p].st = s]
  PROVE  /\ made' \in Seq(PoolRecord) /\ PoolIds' = PoolIds
         /\ \A q \in PoolIds : made'[q].db = made[q].db
                               /\ made'[q].st = IF q = p THEN s ELSE made[q].st
<1>1. p \in 1 .. Len(made) /\ made[p] \in PoolRecord /\ made \in Seq(PoolRecord)
  BY MadeFacts DEF TypeOK, PoolRecord
<1> DEFINE r == [made[p] EXCEPT !.st = s]
<1>2. r \in PoolRecord /\ r.st = s /\ r.db = made[p].db
  BY <1>1 DEF PoolRecord
<1>3. made' = [made EXCEPT ![p] = r]
  OBVIOUS
<1>4. /\ made' \in Seq(PoolRecord) /\ Len(made') = Len(made)
      /\ \A q \in 1 .. Len(made) : made'[q] = IF q = p THEN r ELSE made[q]
  <2> HIDE DEF r
  <2> QED
    BY <1>1, <1>2, <1>3, ExceptSeq
<1>5. DOMAIN made' = 1 .. Len(made')
  BY <1>4, LenProperties
<1> QED
  BY <1>2, <1>4, <1>5, MadeFacts DEF PoolIds

\* A pool is added.
LEMMA NewPool ==
  ASSUME TypeOK, NEW d \in Databases,
         made' = Append(made, [db |-> d, st |-> "open"])
  PROVE  /\ made' \in Seq(PoolRecord)
         /\ PoolIds' = PoolIds \union {Len(made) + 1} /\ Len(made) + 1 \notin PoolIds
         /\ \A q \in PoolIds : made'[q] = made[q]
         /\ made'[Len(made) + 1].db = d /\ made'[Len(made) + 1].st = "open"
<1> DEFINE r == [db |-> d, st |-> "open"]
<1>1. made \in Seq(PoolRecord) /\ r \in PoolRecord
  BY DEF TypeOK, PoolRecord, PoolStates
<1>2. r.db = d /\ r.st = "open" /\ made' = Append(made, r)
  OBVIOUS
<1>3. /\ made' \in Seq(PoolRecord) /\ Len(made') = Len(made) + 1
      /\ \A q \in 1 .. Len(made) : made'[q] = made[q]
      /\ made'[Len(made) + 1] = r
  <2> HIDE DEF r
  <2> QED
    BY <1>1, <1>2, AppendProperties
<1>4. DOMAIN made' = 1 .. Len(made')
  BY <1>3, LenProperties
<1> QED
  BY <1>2, <1>3, <1>4, MadeFacts DEF PoolIds

-----------------------------------------------------------------------------
LEMMA InitPoolInv == Init => PoolInv
<1> SUFFICES ASSUME Init PROVE PoolInv
  OBVIOUS
<1> USE PoolConstants DEF NoPool
<1>1. /\ made = <<[db |-> AdminDB, st |-> "open"]>> /\ Len(made) = 1 /\ PoolIds = {1}
      /\ made[1].db = AdminDB /\ made[1].st = "open"
      /\ made \in Seq([db : Databases, st : PoolStates])
  BY DEF Init, PoolIds, PoolStates
<1>2. /\ \A c \in Commands, d \in Databases : handle[c][d] = 0
      /\ \A c \in Commands : pc[c] \in {"ready", "ask"} /\ at[c] = 1
      /\ \A c \in Commands : plan[c] \in Plans
  BY DEF Init
<1>3. TypeOK
  <2>1. \A c \in Commands : at[c] <= Len(plan[c])
    <3> SUFFICES ASSUME NEW c \in Commands PROVE at[c] <= Len(plan[c])
      OBVIOUS
    <3>1. plan[c] \in Seq(Step) /\ Len(plan[c]) > 0 /\ at[c] = 1
      BY <1>2
    <3> QED
      BY <3>1, LenProperties
  <2>2. handle \in [Commands -> [Databases -> {NoPool} \union PoolIds]]
    BY <1>1 DEF Init
  <2> QED
    BY <1>1, <2>1, <2>2 DEF TypeOK, Init, Places
<1>4. Filed
  BY <1>1, <1>2 DEF Filed, Init
<1>5. OwnPool /\ InUse
  BY <1>2 DEF OwnPool, InUse, Making
<1>6. MapHoldsOpenPools
  BY <1>1 DEF MapHoldsOpenPools, Init
<1>7. NoOtherLeak
  BY <1>1 DEF NoOtherLeak, Init
<1> QED
  BY <1>3, <1>4, <1>5, <1>6, <1>7 DEF PoolInv

-----------------------------------------------------------------------------
\* Where a command is after Advance.
LEMMA AdvanceFacts ==
  ASSUME TypeOK, NEW c \in Commands, Advance(c), UNCHANGED plan
  PROVE  /\ pc' \in [Commands -> Places] /\ pc'[c] \in {"ready", "ask", "done"}
         /\ at' \in [Commands -> Nat \ {0}]
         /\ \A b \in Commands : at'[b] <= Len(plan'[b])
         /\ \A b \in Commands \ {c} : pc'[b] = pc[b] /\ at'[b] = at[b]
<1>1. /\ pc \in [Commands -> Places] /\ at \in [Commands -> Nat \ {0}]
      /\ \A b \in Commands : at[b] <= Len(plan[b]) /\ Len(plan[b]) \in Nat
  BY PoolConstants, LenProperties DEF TypeOK
<1>2. CASE at[c] < Len(plan[c]) /\ at' = [at EXCEPT ![c] = @ + 1]
           /\ pc' = [pc EXCEPT ![c] = IF plan[c][at[c] + 1].reuse THEN "ready" ELSE "ask"]
  BY <1>1, <1>2 DEF Places
<1>3. CASE at' = at /\ pc' = [pc EXCEPT ![c] = "done"]
  BY <1>1, <1>3 DEF Places
<1> QED
  BY <1>2, <1>3 DEF Advance

\* A command moves within its step; its pool stays what it was.
LEMMA Moves ==
  ASSUME PoolInv, NEW c \in Commands, NEW to \in Places,
         pc' = [pc EXCEPT ![c] = to],
         UNCHANGED <<plan, at, handle, pools, made, closer, lost>>,
         Making(c) <=> to \in {"ping", "insert"},
         to = "query" => Mine(c) # NoPool
  PROVE  PoolInv'
<1>1. \A b \in Commands : pc'[b] = IF b = c THEN to ELSE pc[b]
  BY DEF PoolInv, TypeOK
<1>2. \A b \in Commands : Mine(b)' = Mine(b) /\ Making(b)' = Making(b)
  BY <1>1 DEF Mine, Here, Making
<1>3. TypeOK'
  BY DEF PoolInv, TypeOK, PoolIds
<1>4. Filed'
  BY DEF PoolInv, Filed
<1>5. OwnPool'
  BY <1>2 DEF PoolInv, OwnPool
<1>6. InUse'
  BY <1>1, <1>2 DEF PoolInv, InUse
<1>7. MapHoldsOpenPools'
  BY DEF PoolInv, MapHoldsOpenPools, Unlocked
<1>8. NoOtherLeak'
  <2>1. \A p : BeingMade(p)' <=> BeingMade(p)
    BY <1>2 DEF BeingMade, Making
  <2> QED
    BY <2>1 DEF PoolInv, NoOtherLeak, PoolIds
<1> QED
  BY <1>3, <1>4, <1>5, <1>6, <1>7, <1>8 DEF PoolInv

\* A command goes on after its step: nothing it was making is left behind.
LEMMA GoesOn ==
  ASSUME PoolInv, NEW c \in Commands, Advance(c), ~Making(c),
         UNCHANGED <<plan, handle, pools, made, closer, lost>>
  PROVE  PoolInv'
<1>1. /\ pc'[c] \in {"ready", "ask", "done"}
      /\ \A b \in Commands \ {c} : pc'[b] = pc[b] /\ Mine(b)' = Mine(b) /\ Making(b)' = Making(b)
  BY AdvanceFacts DEF PoolInv, Mine, Here, Making
<1>2. ~Making(c)'
  BY <1>1 DEF Making
<1>3. TypeOK'
  BY AdvanceFacts DEF PoolInv, TypeOK, PoolIds
<1>4. Filed' /\ MapHoldsOpenPools'
  BY DEF PoolInv, Filed, MapHoldsOpenPools, Unlocked
<1>5. OwnPool'
  BY <1>1, <1>2 DEF PoolInv, OwnPool
<1>6. InUse'
  BY <1>1 DEF PoolInv, InUse
<1>7. NoOtherLeak'
  <2>1. \A p : BeingMade(p) => BeingMade(p)'
    BY <1>1 DEF BeingMade, Making
  <2> QED
    BY <2>1 DEF PoolInv, NoOtherLeak, PoolIds
<1> QED
  BY <1>3, <1>4, <1>5, <1>6, <1>7 DEF PoolInv

\* A failed ping closes the pool only its maker knows of.
LEMMA FailedPing ==
  ASSUME PoolInv, NEW c \in Commands, PingFails(c)
  PROVE  PoolInv'
<1> DEFINE p == Mine(c)
<1>1. /\ Making(c) /\ Advance(c) /\ UNCHANGED <<plan, closer, handle, pools, lost>>
      /\ made' = [made EXCEPT ![p].st = "closed"]
  BY DEF PingFails, ClosedPool, Making, unmoved
<1>2. /\ p # NoPool /\ \A d \in Databases : pools[d] # p
      /\ \A b \in Commands \ {c} : Making(b) => Mine(b) # p
  BY <1>1 DEF PoolInv, OwnPool
<1>3. p \in PoolIds
  BY <1>2, HereIsDatabase DEF PoolInv, TypeOK, Mine
<1>4. /\ made' \in Seq(PoolRecord) /\ PoolIds' = PoolIds
      /\ \A q \in PoolIds : made'[q].db = made[q].db
                            /\ made'[q].st = IF q = p THEN "closed" ELSE made[q].st
  <2> HIDE DEF p
  <2> QED
    BY <1>1, <1>3, NewState DEF PoolInv, PoolStates
<1>5. /\ pc'[c] \in {"ready", "ask", "done"}
      /\ \A b \in Commands \ {c} : pc'[b] = pc[b] /\ Mine(b)' = Mine(b) /\ Making(b)' = Making(b)
  BY <1>1, AdvanceFacts DEF PoolInv, Mine, Here, Making
<1>6. ~Making(c)'
  BY <1>5 DEF Making
<1> HIDE DEF p
<1>7. TypeOK'
  BY <1>1, <1>4, AdvanceFacts DEF PoolInv, TypeOK, PoolRecord
<1>8. Filed'
  BY <1>1, <1>4 DEF PoolInv, Filed, TypeOK
<1>9. OwnPool'
  <2> SUFFICES ASSUME NEW b \in Commands, Making(b)'
               PROVE  /\ Mine(b)' # NoPool /\ made'[Mine(b)'].st = "open"
                      /\ \A d \in Databases : pools'[d] # Mine(b)'
                      /\ \A e \in Commands \ {b} : Making(e)' => Mine(e)' # Mine(b)'
    BY DEF OwnPool
  <2>1. b # c /\ Making(b) /\ Mine(b)' = Mine(b) /\ Mine(b) # p
    BY <1>2, <1>5, <1>6
  <2>2. Mine(b) # NoPool /\ Mine(b) \in PoolIds
    BY <2>1, HereIsDatabase DEF PoolInv, OwnPool, TypeOK, Mine
  <2> QED
    BY <1>1, <1>4, <1>5, <1>6, <2>1, <2>2 DEF PoolInv, OwnPool
<1>10. InUse'
  BY <1>5 DEF PoolInv, InUse
<1>11. MapHoldsOpenPools'
  BY <1>1, <1>2, <1>4 DEF PoolInv, MapHoldsOpenPools, Unlocked, TypeOK
<1>12. NoOtherLeak'
  <2>1. \A q \in PoolIds : BeingMade(q) /\ q # p => BeingMade(q)'
    BY <1>5 DEF BeingMade, Making, p
  <2>2. \A q \in PoolIds : made'[q].st = "open" => made[q].st = "open" /\ q # p
    BY <1>4
  <2> QED
    BY <1>1, <1>4, <2>1, <2>2 DEF PoolInv, NoOtherLeak
<1> QED
  BY <1>7, <1>8, <1>9, <1>10, <1>11, <1>12 DEF PoolInv

\* The map hands out the pool it has.
LEMMA Found ==
  ASSUME PoolInv, NEW c \in Commands, PoolFound(c)
  PROVE  PoolInv'
<1> DEFINE d == Here(c)
<1>1. /\ pc[c] = "ask" /\ pools[d] # NoPool /\ d \in Databases
      /\ handle' = [handle EXCEPT ![c][d] = pools[d]]
      /\ pc' = [pc EXCEPT ![c] = "ready"]
      /\ UNCHANGED <<plan, at, pools, made, closer, lost>>
  BY HereIsDatabase DEF PoolFound, PoolInv, unmoved
<1> HIDE DEF d
<1>2. /\ \A b \in Commands : pc'[b] = IF b = c THEN "ready" ELSE pc[b]
      /\ \A b \in Commands, e \in Databases :
           handle'[b][e] = IF b = c /\ e = d THEN pools[d] ELSE handle[b][e]
  BY <1>1 DEF PoolInv, TypeOK
<1>3. /\ \A b \in Commands \ {c} : Mine(b)' = Mine(b) /\ Making(b)' = Making(b)
      /\ ~Making(c) /\ ~Making(c)'
  BY <1>1, <1>2, HereIsDatabase DEF Mine, Here, Making, PoolInv
<1>4. TypeOK'
  BY <1>1 DEF PoolInv, TypeOK, PoolIds, Places
<1>5. Filed' /\ MapHoldsOpenPools'
  BY <1>1, <1>2 DEF PoolInv, Filed, MapHoldsOpenPools, Unlocked
<1>6. OwnPool'
  BY <1>1, <1>3 DEF PoolInv, OwnPool
<1>7. InUse'
  BY <1>2, <1>3 DEF PoolInv, InUse
<1>8. NoOtherLeak'
  <2>1. \A p : BeingMade(p) => BeingMade(p)'
    BY <1>3 DEF BeingMade, Making
  <2> QED
    BY <1>1, <2>1 DEF PoolInv, NoOtherLeak, PoolIds
<1> QED
  BY <1>4, <1>5, <1>6, <1>7, <1>8 DEF PoolInv

\* A new pool is known to its maker only.
LEMMA Opened ==
  ASSUME PoolInv, NEW c \in Commands, PoolOpened(c)
  PROVE  PoolInv'
<1>1. PICK d \in Databases : d = Here(c)
  BY HereIsDatabase DEF PoolInv
<1>2. PICK new : new = Len(made) + 1
  OBVIOUS
<1>3. /\ pc[c] = "open" /\ made' = Append(made, [db |-> d, st |-> "open"])
      /\ handle' = [handle EXCEPT ![c][d] = new] /\ pc' = [pc EXCEPT ![c] = "ping"]
  BY <1>1, <1>2 DEF PoolOpened, ConfigFor
<1>4. UNCHANGED <<plan, at, pools, closer, lost>>
  BY DEF PoolOpened, unmoved
<1>5. /\ made' \in Seq(PoolRecord) /\ PoolIds' = PoolIds \union {new} /\ new \notin PoolIds
      /\ \A q \in PoolIds : made'[q] = made[q]
      /\ made'[new].db = d /\ made'[new].st = "open" /\ new # NoPool
  BY <1>2, <1>3, NewPool, MadeFacts DEF PoolInv, NoPool
<1>6. /\ \A b \in Commands : pc'[b] = IF b = c THEN "ping" ELSE pc[b]
      /\ \A b \in Commands, e \in Databases :
           handle'[b][e] = IF b = c /\ e = d THEN new ELSE handle[b][e]
      /\ \A b \in Commands, e \in Databases : handle[b][e] \in {NoPool} \union PoolIds
      /\ \A e \in Databases : pools[e] \in {NoPool} \union PoolIds
  BY <1>3 DEF PoolInv, TypeOK
<1>7. /\ \A b \in Commands \ {c} :
           Mine(b)' = Mine(b) /\ Making(b)' = Making(b) /\ Mine(b) \in {NoPool} \union PoolIds
      /\ Mine(c)' = new /\ Making(c)' /\ ~Making(c)
  BY <1>1, <1>3, <1>4, <1>6, HereIsDatabase DEF Mine, Here, Making, PoolInv
<1>8. TypeOK'
  <2>1. handle' \in [Commands -> [Databases -> {NoPool} \union PoolIds']]
    BY <1>3, <1>5 DEF PoolInv, TypeOK
  <2> QED
    BY <1>3, <1>4, <1>5, <2>1 DEF PoolInv, TypeOK, PoolRecord, Places
<1>9. Filed'
  BY <1>4, <1>5, <1>6 DEF PoolInv, Filed
<1>10. OwnPool'
  BY <1>4, <1>5, <1>6, <1>7 DEF PoolInv, OwnPool
<1>11. InUse'
  BY <1>6, <1>7 DEF PoolInv, InUse
<1>12. MapHoldsOpenPools'
  BY <1>4, <1>5, <1>6 DEF PoolInv, MapHoldsOpenPools, Unlocked
<1>13. NoOtherLeak'
  <2>1. BeingMade(new)' /\ \A q : BeingMade(q) => BeingMade(q)'
    BY <1>7 DEF BeingMade, Making
  <2> QED
    BY <1>4, <1>5, <2>1 DEF PoolInv, NoOtherLeak
<1> QED
  BY <1>8, <1>9, <1>10, <1>11, <1>12, <1>13 DEF PoolInv

\* The pool enters the map; the one it replaces, if any, is recorded as lost.
LEMMA Inserted ==
  ASSUME PoolInv, NEW c \in Commands, Insert(c)
  PROVE  PoolInv'
<1> DEFINE d == Here(c)
           p == Mine(c)
<1>1. /\ pc[c] = "insert" /\ Unlocked /\ d \in Databases /\ p = handle[c][d]
      /\ pools' = [pools EXCEPT ![d] = p]
      /\ lost' = lost \union ({pools[d]} \ {NoPool})
      /\ pc' = [pc EXCEPT ![c] = "ready"]
      /\ UNCHANGED <<plan, at, handle, made, closer>>
  BY HereIsDatabase DEF Insert, Mine, PoolInv, unmoved
<1>2. /\ p # NoPool /\ p \in PoolIds /\ made[p].st = "open" /\ made[p].db = d
      /\ \A b \in Commands \ {c} : Making(b) => Mine(b) # p
  BY <1>1 DEF PoolInv, OwnPool, Making, TypeOK, Filed
<1>3. p = Mine(c)
  OBVIOUS
<1> HIDE DEF d, p
<1>4. /\ \A e \in Databases : pools'[e] = IF e = d THEN p ELSE pools[e]
      /\ \A b \in Commands : pc'[b] = IF b = c THEN "ready" ELSE pc[b]
      /\ pools[d] \in {NoPool} \union PoolIds
  BY <1>1 DEF PoolInv, TypeOK
<1>5. /\ \A b \in Commands : Mine(b)' = Mine(b)
      /\ \A b \in Commands \ {c} : Making(b)' = Making(b)
      /\ ~Making(c)'
  BY <1>1, <1>4 DEF Mine, Here, Making
<1>6. TypeOK'
  BY <1>1, <1>2, <1>4 DEF PoolInv, TypeOK, PoolIds, Places
<1>7. Filed'
  BY <1>1, <1>2, <1>4 DEF PoolInv, Filed
<1>8. OwnPool'
  BY <1>1, <1>2, <1>4, <1>5 DEF PoolInv, OwnPool
<1>9. InUse'
  BY <1>4, <1>5 DEF PoolInv, InUse
<1>10. MapHoldsOpenPools'
  BY <1>1, <1>2, <1>4 DEF PoolInv, MapHoldsOpenPools, Unlocked
<1>11. NoOtherLeak'
  <2>1. \A q : BeingMade(q) => BeingMade(q)' \/ q = p
    BY <1>3, <1>5 DEF BeingMade, Making
  <2>2. \A q \in PoolIds : (\E e \in Databases : pools[e] = q) =>
          q \in lost' \/ \E e \in Databases : pools'[e] = q
    BY <1>1, <1>4, MadeFacts DEF PoolInv, NoPool
  <2>3. \E e \in Databases : pools'[e] = p
    BY <1>1, <1>4
  <2> QED
    BY <1>1, <2>1, <2>2, <2>3 DEF PoolInv, NoOtherLeak, PoolIds
<1> QED
  BY <1>6, <1>7, <1>8, <1>9, <1>10, <1>11 DEF PoolInv

\* Close: the state of a pool that is in the map, or being closed, changes; the
\* map is emptied once all its pools are closed.
LEMMA OnePoolCloses ==
  ASSUME PoolInv, NEW p \in PoolIds, NEW s \in {"closing", "closed"},
         made' = [made EXCEPT ![p].st = s],
         made[p].st = "closing" \/ (closer = "closing" /\ \E d \in Databases : pools[d] = p),
         UNCHANGED <<plan, at, pc, handle, pools, closer, lost>>
  PROVE  PoolInv'
<1>1. /\ made' \in Seq(PoolRecord) /\ PoolIds' = PoolIds
      /\ \A q \in PoolIds : made'[q].db = made[q].db
                            /\ made'[q].st = IF q = p THEN s ELSE made[q].st
  <2>1. TypeOK /\ s \in PoolStates
    BY DEF PoolInv, PoolStates
  <2> QED
    BY <2>1, NewState
<1>2. \A b \in Commands :
        Mine(b)' = Mine(b) /\ Making(b)' = Making(b) /\ Mine(b) \in {NoPool} \union PoolIds
  BY HereIsDatabase DEF Mine, Here, Making, PoolInv, TypeOK
<1>3. \A b \in Commands : Making(b) => Mine(b) # p
  BY DEF PoolInv, OwnPool
<1>4. TypeOK'
  BY <1>1 DEF PoolInv, TypeOK, PoolRecord
<1>5. Filed'
  BY <1>1 DEF PoolInv, Filed, TypeOK
<1>6. OwnPool'
  BY <1>1, <1>2, <1>3 DEF PoolInv, OwnPool
<1>7. InUse'
  BY <1>2 DEF PoolInv, InUse
<1>8. MapHoldsOpenPools'
  BY <1>1 DEF PoolInv, MapHoldsOpenPools, Unlocked, TypeOK
<1>9. NoOtherLeak'
  <2>1. \A q : BeingMade(q) => BeingMade(q)'
    BY <1>2 DEF BeingMade, Making
  <2> QED
    BY <1>1, <2>1 DEF PoolInv, NoOtherLeak
<1> QED
  BY <1>4, <1>5, <1>6, <1>7, <1>8, <1>9 DEF PoolInv

LEMMA ClosingSteps ==
  ASSUME PoolInv, CloseBegins \/ Closing
  PROVE  PoolInv'
<1>1. CASE CloseBegins
  <2>1. closer' = "closing" /\ UNCHANGED <<plan, at, pc, handle, pools, made, lost>>
    BY <1>1 DEF CloseBegins
  <2>2. \A b : Mine(b)' = Mine(b) /\ Making(b)' = Making(b)
    BY <2>1 DEF Mine, Here, Making
  <2>3. TypeOK' /\ Filed' /\ MapHoldsOpenPools'
    BY <2>1 DEF PoolInv, TypeOK, Filed, MapHoldsOpenPools, Unlocked, PoolIds
  <2>4. OwnPool' /\ InUse'
    BY <2>1, <2>2 DEF PoolInv, OwnPool, InUse
  <2>5. NoOtherLeak'
    BY <2>1, <2>2 DEF PoolInv, NoOtherLeak, BeingMade, PoolIds
  <2> QED
    BY <2>3, <2>4, <2>5 DEF PoolInv
<1>2. ASSUME NEW d \in Databases, ClosePool(d) PROVE PoolInv'
  <2>1. pools[d] \in PoolIds
    BY <1>2 DEF ClosePool, PoolInv, TypeOK
  <2> QED
    BY <1>2, <2>1, OnePoolCloses DEF ClosePool
<1>3. ASSUME NEW p \in PoolIds, PoolDrained(p) PROVE PoolInv'
  BY <1>3, OnePoolCloses DEF PoolDrained, ClosedPool
<1>4. CASE CloseEnds
  <2>1. /\ closer = "closing" /\ closer' = "done"
        /\ \A d \in Databases : pools[d] # NoPool => made[pools[d]].st = "closed"
        /\ \A d \in Databases : pools'[d] = NoPool
        /\ pools' \in [Databases -> {NoPool} \union PoolIds]
        /\ UNCHANGED <<plan, at, pc, handle, made, lost>>
    BY <1>4 DEF CloseEnds, EmptyMap
  <2>2. \A b : Mine(b)' = Mine(b) /\ Making(b)' = Making(b)
    BY <2>1 DEF Mine, Here, Making
  <2>3. TypeOK' /\ Filed' /\ MapHoldsOpenPools'
    BY <2>1 DEF PoolInv, TypeOK, Filed, MapHoldsOpenPools, Unlocked, PoolIds
  <2>4. OwnPool' /\ InUse'
    BY <2>1, <2>2 DEF PoolInv, OwnPool, InUse
  <2>5. \A q \in PoolIds : made[q].st = "open" => ~\E d \in Databases : pools[d] = q
    BY <2>1, MadeFacts DEF PoolInv, NoPool
  <2>6. NoOtherLeak'
    BY <2>1, <2>2, <2>5 DEF PoolInv, NoOtherLeak, BeingMade, Making, PoolIds
  <2> QED
    BY <2>3, <2>4, <2>6 DEF PoolInv
<1> QED
  BY <1>1, <1>2, <1>3, <1>4 DEF Closing

-----------------------------------------------------------------------------
LEMMA NextPoolInv == PoolInv /\ [Next]_vars => PoolInv'
<1> SUFFICES ASSUME PoolInv, [Next]_vars PROVE PoolInv'
  OBVIOUS
<1>1. ASSUME NEW c \in Commands, Command(c) PROVE PoolInv'
  <2>1. CASE PoolFound(c)
    BY <2>1, Found
  <2>2. CASE PoolMissing(c)
    BY <2>2, Moves DEF PoolMissing, Making, Places, unmoved
  <2>3. CASE PoolOpened(c)
    BY <2>3, Opened
  <2>4. CASE OpenFails(c)
    BY <2>4, GoesOn DEF OpenFails, Making, unmoved
  <2>5. CASE PingFails(c)
    BY <2>5, FailedPing
  <2>6. CASE PingAnswers(c)
    BY <2>6, Moves DEF PingAnswers, Making, Places, unmoved
  <2>7. CASE Insert(c)
    BY <2>7, Inserted
  <2>8. CASE QueryStarts(c)
    BY <2>8, Moves DEF QueryStarts, Making, Places, unmoved
  <2>9. CASE QueryRefused(c)
    BY <2>9, GoesOn DEF QueryRefused, Making, unmoved
  <2>10. CASE QueryEnds(c)
    BY <2>10, GoesOn DEF QueryEnds, Making, unmoved
  <2> QED
    BY <1>1, <2>1, <2>2, <2>3, <2>4, <2>5, <2>6, <2>7, <2>8, <2>9, <2>10 DEF Command
<1>2. CASE CloseBegins \/ Closing
  BY <1>2, ClosingSteps
<1>3. CASE UNCHANGED vars
  <2>1. UNCHANGED <<plan, at, pc, handle, pools, made, closer, lost>>
    BY <1>3 DEF vars
  <2> USE DEF PoolInv, Mine, Here, Making, BeingMade, Unlocked, PoolIds
  <2>2. TypeOK'
    BY <2>1 DEF TypeOK
  <2>3. Filed' /\ MapHoldsOpenPools'
    BY <2>1 DEF TypeOK, Filed, MapHoldsOpenPools
  <2>4. OwnPool'
    <3>1. \A c \in Commands : Mine(c)' = Mine(c) /\ (Making(c)' <=> Making(c))
      BY <2>1
    <3> HIDE DEF Mine, Making
    <3> QED BY <2>1, <3>1 DEF OwnPool
  <2>6. InUse'
    BY <2>1 DEF TypeOK, InUse
  <2>5. NoOtherLeak'
    BY <2>1 DEF TypeOK, NoOtherLeak
  <2> QED BY <2>2, <2>3, <2>4, <2>5, <2>6
<1> QED
  BY <1>1, <1>2, <1>3 DEF Next

\* The invariant holds in every reachable state.
THEOREM PoolInvariant == Spec => []PoolInv
<1>1. Init => PoolInv
  BY InitPoolInv
<1>2. PoolInv /\ [Next]_vars => PoolInv'
  BY NextPoolInv
<1> QED
  BY <1>1, <1>2, PTL DEF Spec

\* The state keeps its type, for any set of databases, commands and plans.
THEOREM PoolTypes == Spec => []TypeOK
<1>1. PoolInv => TypeOK
  BY DEF PoolInv
<1> QED
  BY <1>1, PoolInvariant, PTL

\* Manager.Pool hands out pools that work until the manager is closed, and again
\* after it: the map never holds a pool that is closed or being closed.
THEOREM PoolsWork == Spec => []MapHoldsOpenPools
<1>1. PoolInv => MapHoldsOpenPools
  BY DEF PoolInv
<1> QED
  BY <1>1, PoolInvariant, PTL

\* A failed ping and Close leave no pool open: only the replaced ones are lost.
THEOREM OnlyTheRaceLeaks == Spec => []NoOtherLeak
<1>1. PoolInv => NoOtherLeak
  BY DEF PoolInv
<1> QED
  BY <1>1, PoolInvariant, PTL

\* A query runs on the database of its step: the statements of a forced drop never
\* reach another database, however many commands share the manager.
THEOREM QueriesOnTheirDatabase == Spec => []RightDatabase
<1>1. PoolInv => RightDatabase
  <2> SUFFICES ASSUME PoolInv, NEW c \in Commands, pc[c] = "query"
               PROVE  made[Mine(c)].db = Here(c)
    BY DEF RightDatabase
  <2>1. Here(c) \in Databases /\ Mine(c) # NoPool
    BY HereIsDatabase DEF PoolInv, InUse
  <2> QED
    BY <2>1 DEF PoolInv, Filed, Mine
<1> QED
  BY <1>1, PoolInvariant, PTL
=============================================================================
