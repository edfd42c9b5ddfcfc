---------------------------- MODULE RolesProofs ----------------------------
(***************************************************************************)
(* The Roles tab, for every number of roles, databases, objects, commands  *)
(* and failures.  What is proved, in this order:                           *)
(*   - a forced drop does not drop what its role owned when it began.  The *)
(*     invariant says of each forced drop under way that it may still lose *)
(*     only what came later: what it must take care of is owned by its     *)
(*     role and, before DROP OWNED runs in a database, is not in it;       *)
(*   - the types of the state, and that every command that starts is the   *)
(*     one the dialog on the screen asked about;                           *)
(*   - a revocation that was carried out left nothing of what it took;     *)
(*   - the report of a role's access names every database the role had     *)
(*     access to all along;                                                *)
(*   - the password that is shown is the one the server has.               *)
(***************************************************************************)
EXTENDS RolesTab, ListProofs, TLAPS

Fields == {"roles", "attrs", "pwd", "owner", "at", "of", "acl", "held"}
\* The parts of a server that the argument is about.
Shaped(s) == DOMAIN s = Fields /\ DOMAIN s.at = Objects /\ DOMAIN s.of = Objects
\* What a command has whatever it does, and what a forced drop has.
HasCommon(c) == {"pc", "act", "role"} \subseteq DOMAIN c
IsForceDrop(c) == DOMAIN c = {"pc", "act", "role", "to", "dbs"} /\ c.to # c.role

Safe(s, c, k) ==
  /\ IsForceDrop(c)
  /\ k \subseteq Concern(s, c)
  /\ c.pc = "drop owned" => \A o \in k : s.at[o] # Head(c.dbs)

KeptInv ==
  /\ Shaped(srv)
  /\ DOMAIN cmds = Ids /\ DOMAIN kept = Ids
  /\ \A i \in Ids : HasCommon(cmds[i])
  /\ \A i \in Ids : ForcedDrop(cmds[i]) => Safe(srv, cmds[i], kept[i])

----------------------------------------------------------------------------
(* What a statement does to where objects are and to whom they belong.     *)

\* No statement moves an object: it stays or goes.
LEMMA AfterShaped ==
  ASSUME NEW s, Shaped(s), NEW q, NEW d
  PROVE  /\ Shaped(After(s, q, d))
         /\ q.op # "drop owned" => After(s, q, d).at = s.at
         /\ \A o \in Objects : After(s, q, d).at[o] \in {s.at[o], Nowhere}
<1>1. CASE q.op = "create role" BY <1>1 DEF Shaped, Fields, After
<1>2. CASE q.op = "drop role" BY <1>2 DEF Shaped, Fields, After
<1>3. CASE q.op = "alter role" BY <1>3 DEF Shaped, Fields, After
<1>4. CASE q.op = "password" BY <1>4 DEF Shaped, Fields, After
<1>5. CASE q.op = "grant" BY <1>5 DEF Shaped, Fields, After
<1>6. CASE q.op = "revoke" BY <1>6 DEF Shaped, Fields, After
<1>7. CASE q.op = "grant here" BY <1>7 DEF Shaped, Fields, After
<1>8. CASE q.op = "revoke here" BY <1>8 DEF Shaped, Fields, After
<1>9. CASE q.op = "grant all" BY <1>9 DEF Shaped, Fields, After
<1>10. CASE q.op = "revoke all" BY <1>10 DEF Shaped, Fields, After
<1>11. CASE q.op = "own" BY <1>11 DEF Shaped, Fields, After
<1>12. CASE q.op = "reassign" BY <1>12 DEF Shaped, Fields, After, Reassigned
<1>13. CASE q.op = "drop owned" BY <1>13 DEF Shaped, Fields, After, WithoutOwned
<1>14. CASE q.op \notin {"create role", "drop role", "alter role", "password", "grant", "revoke",
                         "grant here", "revoke here", "grant all", "revoke all", "own",
                         "reassign", "drop owned"}
  BY <1>14 DEF Shaped, Fields, After
<1> QED
  BY <1>1, <1>2, <1>3, <1>4, <1>5, <1>6, <1>7, <1>8, <1>9, <1>10, <1>11, <1>12, <1>13, <1>14

LEMMA AfterReassign ==
  ASSUME NEW s, NEW q, NEW d, q.op = "reassign"
  PROVE  After(s, q, d) = Reassigned(s, q.role, q.to, d)
BY DEF After
LEMMA AfterDropOwned ==
  ASSUME NEW s, NEW q, NEW d, q.op = "drop owned"
  PROVE  After(s, q, d) = WithoutOwned(s, q.role, d)
BY DEF After

\* After a REASSIGN what the role still owns is elsewhere.
LEMMA ReassignedElsewhere ==
  ASSUME NEW s, Shaped(s), NEW r, NEW to, to # r, NEW d, NEW o \in Objects,
         s.of[o] = r, After(s, Reassign(r, to), d).of[o] = r
  PROVE  s.at[o] # d
<1>1. After(s, Reassign(r, to), d) = Reassigned(s, r, to, d)
  BY AfterReassign DEF Reassign
<1>2. SUFFICES ASSUME s.at[o] = d PROVE FALSE
  OBVIOUS
<1>3. o \in Owned(s, r, d)
  BY <1>2 DEF Owned, ObjectsIn
<1>4. Reassigned(s, r, to, d).of[o] = to
  BY <1>3 DEF Reassigned, Shaped, Fields
<1> QED
  BY <1>1, <1>4

\* DROP OWNED drops only what its role owns in the database it runs in.
LEMMA DropsOnlyThere ==
  ASSUME NEW s, Shaped(s), NEW r, NEW d, NEW o \in Objects, s.at[o] # d
  PROVE  After(s, DropOwned(r), d).at[o] = s.at[o]
<1> DEFINE q == DropOwned(r)
<1>1. q.op = "drop owned" /\ q.role = r
  BY DEF DropOwned
<1>2. After(s, q, d) = WithoutOwned(s, r, d)
  <2> HIDE DEF q
  <2> QED BY <1>1, AfterDropOwned
<1>3. o \notin Owned(s, r, d)
  BY DEF Owned, ObjectsIn
<1>4. WithoutOwned(s, r, d).at[o] = s.at[o]
  BY <1>3 DEF WithoutOwned, Shaped, Fields
<1> QED
  BY <1>2, <1>4

----------------------------------------------------------------------------
(* What it takes for a step to preserve the invariant.                     *)

\* No object is somewhere else afterwards.
Stays == \A o \in Objects : srv.at[o] # Nowhere => srv'.at[o] \in {srv.at[o], Nowhere}
\* A forced drop that goes on, but not to DROP OWNED.
Follows(c, b) ==
  /\ DOMAIN c = DOMAIN b /\ c.act = b.act /\ c.role = b.role /\ c.to = b.to
  /\ c.pc # "drop owned"

\* A change of the server takes the objects it moved to another owner, or dropped,
\* out of what a command must take care of.
LEMMA SafeStays ==
  ASSUME KeptInv, SameServer \/ (ServerBecomes(srv') /\ Stays),
         NEW k \in Ids, ForcedDrop(cmds[k])
  PROVE  Safe(srv', cmds[k], kept'[k])
<1>1. Safe(srv, cmds[k], kept[k])
  BY DEF KeptInv
<1>2. CASE SameServer
  BY <1>1, <1>2 DEF SameServer
<1>3. CASE ServerBecomes(srv') /\ Stays
  <2>1. kept'[k] = kept[k] \intersect Concern(srv', cmds[k])
    BY <1>3 DEF ServerBecomes
  <2>2. ASSUME cmds[k].pc = "drop owned", NEW o \in kept'[k]
        PROVE  srv'.at[o] # Head(cmds[k].dbs)
    <3>1. o \in Objects /\ srv.at[o] # Nowhere /\ srv.at[o] # Head(cmds[k].dbs)
      BY <1>1, <2>1, <2>2 DEF Safe, Concern
    <3>2. srv'.at[o] # Nowhere
      BY <2>1, <2>2 DEF Concern
    <3> QED
      BY <3>1, <3>2, <1>3 DEF Stays
  <2> QED
    BY <1>1, <2>1, <2>2 DEF Safe
<1> QED
  BY <1>2, <1>3

LEMMA FollowsSafe ==
  ASSUME NEW s, NEW b, NEW c, NEW k, Safe(s, b, k), ForcedDrop(b), ForcedDrop(c), Follows(c, b)
  PROVE  Safe(s, c, k)
<1>1. IsForceDrop(c)
  BY DEF Safe, IsForceDrop, Follows
<1>2. Concern(s, c) = Concern(s, b)
  BY DEF Concern, Follows
<1> QED
  BY <1>1, <1>2 DEF Safe, Follows

LEMMA StepKept ==
  ASSUME KeptInv, Shaped(srv'), SameServer \/ (ServerBecomes(srv') /\ Stays),
         DOMAIN cmds' = Ids, \A k \in Ids : HasCommon(cmds'[k]),
         \A k \in Ids : ForcedDrop(cmds'[k]) =>
           \/ cmds'[k] = cmds[k]
           \/ ForcedDrop(cmds[k]) /\ Follows(cmds'[k], cmds[k])
           \/ Safe(srv', cmds'[k], kept'[k])
  PROVE  KeptInv'
<1>1. DOMAIN kept' = Ids
  BY DEF KeptInv, SameServer, ServerBecomes
<1>2. ASSUME NEW k \in Ids, ForcedDrop(cmds'[k])
      PROVE  Safe(srv', cmds'[k], kept'[k])
  <2>1. CASE cmds'[k] = cmds[k]
    BY <1>2, <2>1, SafeStays
  <2>2. CASE ForcedDrop(cmds[k]) /\ Follows(cmds'[k], cmds[k])
    <3>1. Safe(srv', cmds[k], kept'[k])
      BY <2>2, SafeStays
    <3> QED
      BY <2>2, <3>1, <1>2, FollowsSafe
  <2> QED
    BY <1>2, <2>1, <2>2
<1> QED
  BY <1>1, <1>2 DEF KeptInv

\* A key, a load or an answer that concerns no command.
LEMMA QuietStep ==
  ASSUME KeptInv, SameServer, UNCHANGED cmds
  PROVE  KeptInv'
<1>1. Shaped(srv')
  BY DEF KeptInv, SameServer
<1>2. DOMAIN cmds' = Ids /\ \A k \in Ids : HasCommon(cmds'[k]) /\ cmds'[k] = cmds[k]
  BY DEF KeptInv
<1> QED
  BY <1>1, <1>2, StepKept

\* One command goes on, and perhaps a statement of its ran.
LEMMA BecomesKept ==
  ASSUME KeptInv, NEW i \in Ids, NEW c, Becomes(i, c), HasCommon(c),
         SameServer \/ (ServerBecomes(srv') /\ Shaped(srv') /\ Stays),
         ForcedDrop(c) => \/ ForcedDrop(cmds[i]) /\ Follows(c, cmds[i])
                          \/ Safe(srv', c, kept'[i])
  PROVE  KeptInv'
<1>1. Shaped(srv')
  BY DEF KeptInv, SameServer
<1>2. /\ DOMAIN cmds' = Ids /\ cmds'[i] = c
      /\ \A k \in Ids : k # i => cmds'[k] = cmds[k]
  BY DEF KeptInv, Becomes
<1>3. \A k \in Ids : HasCommon(cmds'[k])
  BY <1>2 DEF KeptInv
<1>4. ASSUME NEW k \in Ids, ForcedDrop(cmds'[k])
      PROVE  \/ cmds'[k] = cmds[k]
             \/ ForcedDrop(cmds[k]) /\ Follows(cmds'[k], cmds[k])
             \/ Safe(srv', cmds'[k], kept'[k])
  <2>1. CASE k = i
    BY <1>2, <1>4, <2>1
  <2> QED
    BY <1>2, <2>1
<1> QED
  BY <1>1, <1>2, <1>3, <1>4, StepKept

\* A statement of a forced drop that is accepted, refused or lost.
LEMMA AttemptKept ==
  ASSUME KeptInv, NEW i \in Ids, ForcedDrop(cmds[i]), NEW q, NEW d, NEW done, NEW failed,
         Attempt(i, q, d, done, failed), Follows(done, cmds[i]), Follows(failed, cmds[i])
  PROVE  KeptInv'
<1>1. HasCommon(done) /\ HasCommon(failed)
  BY DEF KeptInv, HasCommon, Follows
<1>2. CASE ServerBecomes(After(srv, q, d)) /\ Becomes(i, done)
  <2>1. Shaped(srv') /\ Stays /\ ServerBecomes(srv')
    BY <1>2, AfterShaped DEF KeptInv, ServerBecomes, Stays, Shaped
  <2> QED
    BY <1>1, <1>2, <2>1, BecomesKept
<1>3. CASE SameServer /\ Becomes(i, failed)
  BY <1>1, <1>3, BecomesKept
<1>4. \/ ServerBecomes(After(srv, q, d)) /\ Becomes(i, done)
      \/ SameServer /\ Becomes(i, failed)
  BY Zenon DEF Attempt
<1> QED
  BY <1>2, <1>3, <1>4

LEMMA LearnKept ==
  ASSUME KeptInv, NEW i \in Ids, NEW c, Becomes(i, c), SameServer, DOMAIN c = DOMAIN cmds[i],
         ForcedDrop(c) => ForcedDrop(cmds[i]) /\ Follows(c, cmds[i])
  PROVE  KeptInv'
<1>1. HasCommon(c)
  BY DEF KeptInv, HasCommon
<1> QED
  BY <1>1, BecomesKept

\* A command starts: what it must take care of is what its role has by now.
LEMMA StartKept ==
  ASSUME KeptInv, NEW c, Start(c), HasCommon(c),
         ForcedDrop(c) => IsForceDrop(c) /\ c.pc = "pool"
  PROVE  KeptInv'
<1> DEFINE n == NextId
<1>1. /\ n \in Ids /\ srv' = srv
      /\ cmds' = [cmds EXCEPT ![n] = c] /\ kept' = [kept EXCEPT ![n] = Concern(srv, c)]
  BY DEF Start
<1> HIDE DEF n
<1>2. /\ DOMAIN cmds' = Ids /\ DOMAIN kept' = Ids
      /\ cmds'[n] = c /\ kept'[n] = Concern(srv, c)
      /\ \A k \in Ids : k # n => cmds'[k] = cmds[k] /\ kept'[k] = kept[k]
  BY <1>1 DEF KeptInv
<1>3. ASSUME NEW k \in Ids
      PROVE  HasCommon(cmds'[k]) /\ (ForcedDrop(cmds'[k]) => Safe(srv, cmds'[k], kept'[k]))
  <2>1. CASE k = n
    BY <1>2, <2>1 DEF Safe
  <2>2. CASE k # n
    BY <1>2, <2>2 DEF KeptInv
  <2> QED
    BY <2>1, <2>2
<1> QED
  BY <1>1, <1>2, <1>3 DEF KeptInv

\* A command is answered.
LEMMA AnswerKept ==
  ASSUME KeptInv, NEW i \in Ids, Answer(i)
  PROVE  KeptInv'
<1>1. /\ srv' = srv /\ DOMAIN cmds' = Ids /\ DOMAIN kept' = Ids /\ cmds'[i] = Over
      /\ \A k \in Ids : k # i => cmds'[k] = cmds[k] /\ kept'[k] = kept[k]
  BY DEF KeptInv, Answer
<1>2. HasCommon(Over) /\ ~ForcedDrop(Over)
  BY DEF HasCommon, Over, Unused, ForcedDrop, Active
<1>3. ASSUME NEW k \in Ids
      PROVE  HasCommon(cmds'[k]) /\ (ForcedDrop(cmds'[k]) => Safe(srv, cmds'[k], kept'[k]))
  <2>1. CASE k = i
    BY <1>1, <1>2, <2>1
  <2>2. CASE k # i
    BY <1>1, <2>2 DEF KeptInv
  <2> QED
    BY <2>1, <2>2
<1> QED
  BY <1>1, <1>3 DEF KeptInv

----------------------------------------------------------------------------
(* The actions.                                                            *)

LEMMA InitKept == Init => KeptInv
<1> SUFFICES ASSUME Init PROVE KeptInv
  OBVIOUS
<1>1. srv \in Servers
  BY TabConstants DEF Init
<1>2. Shaped(srv)
  BY <1>1 DEF Servers, Shaped, Fields
<1>3. HasCommon(Unused) /\ ~ForcedDrop(Unused)
  BY DEF HasCommon, Unused, ForcedDrop, Active
<1> QED
  BY <1>2, <1>3 DEF Init, KeptInv

\* What a key that starts no command does.
LEMMA ShowKept ==
  ASSUME KeptInv, NEW m, Show(m)
  PROVE  KeptInv'
BY QuietStep DEF Show

LEMMA OpensKept ==
  ASSUME KeptInv, OpensSomething
  PROVE  KeptInv'
<1>1. CASE AskResetPassword BY <1>1, QuietStep DEF AskResetPassword
<1>2. CASE OpenFinder BY <1>2, ShowKept DEF OpenFinder
<1>3. CASE OpenRoleMenu BY <1>3, ShowKept DEF OpenRoleMenu
<1>4. CASE OpenCreateForm BY <1>4, ShowKept DEF OpenCreateForm
<1>5. CASE OpenConnLimitForm BY <1>5, ShowKept DEF OpenConnLimitForm
<1>6. CASE OpenAttrsForm BY <1>6, ShowKept DEF OpenAttrsForm
<1>7. CASE AskDropRole BY <1>7, ShowKept DEF AskDropRole
<1>8. CASE StartGrantFlow BY <1>8, ShowKept DEF StartGrantFlow
<1>9. CASE PickDB BY <1>9, ShowKept DEF PickDB
<1>10. CASE OpenGrantConfirm BY <1>10, ShowKept DEF OpenGrantConfirm
<1>11. CASE OpenForceDropForm BY <1>11, ShowKept DEF OpenForceDropForm
<1> QED
  BY <1>1, <1>2, <1>3, <1>4, <1>5, <1>6, <1>7, <1>8, <1>9, <1>10, <1>11 DEF OpensSomething

\* A command that is no forced drop.
LEMMA SubmitKept ==
  ASSUME KeptInv, NEW c, Submit(c), HasCommon(c), c.act # "force-drop"
  PROVE  KeptInv'
<1>1. Start(c) /\ ~ForcedDrop(c)
  BY DEF Submit, ForcedDrop
<1> QED
  BY <1>1, StartKept

LEMMA StatementsCommon ==
  ASSUME NEW act, NEW r, NEW on
  PROVE  HasCommon(Statements(act, r, on)) /\ Statements(act, r, on).act = act
BY DEF HasCommon, Statements

LEMMA StartsKept ==
  ASSUME KeptInv, StartsSomething
  PROVE  KeptInv'
<1>1. CASE CreateRoleYes
  BY <1>1, SubmitKept, StatementsCommon DEF CreateRoleYes
<1>2. CASE DropRoleYes
  BY <1>2, SubmitKept, StatementsCommon DEF DropRoleYes
<1>3. CASE ResetPasswordYes
  <2> DEFINE c == Statements("reset password", pendingPwdRole,
                             On(AdminDB, <<SetPassword(pendingPwdRole, NextId)>>))
  <2>1. Start(c)
    BY <1>3, Zenon DEF ResetPasswordYes
  <2>2. HasCommon(c) /\ c.act = "reset password"
    BY StatementsCommon
  <2> HIDE DEF c
  <2> QED
    BY <2>1, <2>2, StartKept DEF ForcedDrop
<1>4. CASE ConnLimitYes
  BY <1>4, SubmitKept, StatementsCommon DEF ConnLimitYes
<1>5. CASE AttrsYes
  <2>1. PICK want \in SUBSET Attributes :
          \/ Show(Closed)
          \/ \E m : Show(m)
          \/ \E list : Submit(Statements("alter role", modal.role, On(AdminDB, list)))
    BY <1>5 DEF AttrsYes
  <2> QED
    BY <2>1, ShowKept, SubmitKept, StatementsCommon
<1>6. CASE EscalateYes
  BY <1>6, SubmitKept, StatementsCommon DEF EscalateYes
<1>7. CASE GrantYes
  <2> DEFINE s == Statements("grant", modal.role, modal.on)
             clears == IF modal.verb = "revoke" /\ modal.schema
                       THEN {<<modal.db, modal.role>>} ELSE {}
             c == [s EXCEPT !.clears = clears]
  <2>1. Submit(c)
    BY <1>7 DEF GrantYes
  <2>2. HasCommon(c) /\ c.act = "grant"
    BY DEF HasCommon, Statements
  <2> QED
    BY <2>1, <2>2, SubmitKept
<1>8. CASE ForceDropYes
  <2>1. PICK successor \in Roles \ {modal.role} : Submit(ForceDrop(modal.role, successor))
    BY <1>8 DEF ForceDropYes
  <2> DEFINE c == ForceDrop(modal.role, successor)
  <2>2. HasCommon(c) /\ IsForceDrop(c) /\ c.pc = "pool"
    BY DEF HasCommon, IsForceDrop, ForceDrop
  <2>3. Start(c)
    BY <2>1 DEF Submit
  <2> HIDE DEF c
  <2> QED
    BY <2>2, <2>3, StartKept
<1>9. CASE OpenAccess
  <2>1. HasCommon(RoleAccess(Selected.name)) /\ RoleAccess(Selected.name).act = "access"
    BY DEF HasCommon, RoleAccess
  <2> QED
    BY <1>9, <2>1, SubmitKept DEF OpenAccess
<1> QED
  BY <1>1, <1>2, <1>3, <1>4, <1>5, <1>6, <1>7, <1>8, <1>9 DEF StartsSomething

\* The states a forced drop passes through before and after DROP OWNED.
LEMMA FollowsOn ==
  ASSUME NEW b, IsForceDrop(b)
  PROVE  /\ \A pc : pc # "drop owned" => Follows([b EXCEPT !.pc = pc], b)
         /\ \A list : Follows(NextOwned(b, list), b)
         /\ Follows(NextDatabase(b), b) /\ Follows(NotReassigned(b), b)
BY DEF IsForceDrop, Follows, NextOwned, NextDatabase, NotReassigned

LEMMA ForcedDropIs ==
  ASSUME KeptInv, NEW i \in Ids, ForcedDrop(cmds[i])
  PROVE  IsForceDrop(cmds[i]) /\ kept[i] \subseteq Concern(srv, cmds[i])
BY DEF KeptInv, Safe

\* REASSIGN OWNED leaves nothing of the role's in the database it ran in.
LEMMA ReassignKept ==
  ASSUME KeptInv, NEW i \in Ids, ReassignOwned(i)
  PROVE  KeptInv'
<1> DEFINE c == cmds[i]
           d == Head(c.dbs)
           q == Reassign(c.role, c.to)
           done == [c EXCEPT !.pc = "drop owned"]
<1>1. /\ ForcedDrop(c) /\ c.pc = "reassign"
      /\ \/ ServerBecomes(After(srv, q, d)) /\ Becomes(i, done)
         \/ SameServer /\ Becomes(i, NotReassigned(c))
  BY DEF ReassignOwned, ReassignedIn, Attempt, At
<1>2. IsForceDrop(c) /\ kept[i] \subseteq Concern(srv, c) /\ c.to # c.role
  BY <1>1, ForcedDropIs DEF IsForceDrop
<1>3. CASE SameServer /\ Becomes(i, NotReassigned(c))
  BY <1>1, <1>2, <1>3, FollowsOn, LearnKept DEF Follows
<1>4. CASE ServerBecomes(After(srv, q, d)) /\ Becomes(i, done)
  <2>1. srv' = After(srv, q, d) /\ kept'[i] = kept[i] \intersect Concern(srv', c)
    BY <1>4 DEF ServerBecomes
  <2>2. q.op = "reassign"
    BY DEF Reassign
  <2>3. Shaped(srv) /\ Shaped(srv') /\ srv'.at = srv.at
    <3> HIDE DEF q
    <3> QED BY <2>1, <2>2, AfterShaped DEF KeptInv
  <2>4. Stays /\ ServerBecomes(srv')
    BY <1>4, <2>1, <2>3 DEF Stays, ServerBecomes
  <2>5. /\ DOMAIN done = DOMAIN c /\ done.act = c.act /\ done.role = c.role /\ done.to = c.to
        /\ done.dbs = c.dbs
    BY <1>2 DEF IsForceDrop
  <2>6. IsForceDrop(done) /\ HasCommon(done) /\ Concern(srv', done) = Concern(srv', c)
    BY <1>1, <1>2, <2>5 DEF IsForceDrop, HasCommon, Concern, ForcedDrop, Active
  <2>7. ASSUME NEW o \in kept'[i] PROVE srv'.at[o] # Head(done.dbs)
    <3>1. o \in Objects /\ srv.of[o] = c.role /\ srv'.of[o] = c.role
      BY <1>1, <1>2, <2>1 DEF Concern
    <3>2. srv.at[o] # d
      BY <1>2, <2>1, <2>3, <3>1, ReassignedElsewhere
    <3> QED
      BY <2>3, <2>5, <3>2
  <2>8. Safe(srv', done, kept'[i])
    BY <2>1, <2>6, <2>7 DEF Safe
  <2> HIDE DEF done, q, d
  <2> QED
    BY <1>4, <2>3, <2>4, <2>6, <2>8, BecomesKept
<1> QED
  BY <1>1, <1>3, <1>4

LEMMA ForceDropKept ==
  ASSUME KeptInv, NEW i \in Ids, ForceDropStep(i)
  PROVE  KeptInv'
<1>1. CASE DatabasesOwnedBy(i)
  <2>1. PICK list : Learn(i, NextOwned(cmds[i], list))
    BY <1>1 DEF DatabasesOwnedBy
  <2>2. ForcedDrop(cmds[i]) /\ IsForceDrop(cmds[i])
    BY <1>1, ForcedDropIs DEF DatabasesOwnedBy, At
  <2>3. Becomes(i, NextOwned(cmds[i], list)) /\ SameServer
    BY <2>1 DEF Learn
  <2>4. Follows(NextOwned(cmds[i], list), cmds[i])
    BY <2>2, FollowsOn
  <2> QED
    BY <2>2, <2>3, <2>4, LearnKept DEF Follows
<1>2. CASE AlterOwner(i)
  BY <1>2, ForcedDropIs, FollowsOn, AttemptKept DEF AlterOwner, At
<1>3. CASE ConnectableDatabases(i)
  <2> DEFINE c == [cmds[i] EXCEPT !.dbs = DatabaseOrder, !.pc = "visit"]
  <2>1. ForcedDrop(cmds[i]) /\ IsForceDrop(cmds[i]) /\ Becomes(i, c) /\ SameServer
    BY <1>3, ForcedDropIs DEF ConnectableDatabases, Learn, At
  <2>2. Follows(c, cmds[i])
    BY <2>1 DEF Follows, IsForceDrop
  <2> HIDE DEF c
  <2> QED
    BY <2>1, <2>2, LearnKept DEF Follows
<1>4. CASE VisitDatabase(i)
  <2>1. ForcedDrop(cmds[i]) /\ IsForceDrop(cmds[i]) /\ SameServer
    BY <1>4, ForcedDropIs DEF VisitDatabase, Learn, At
  <2>2. \/ Becomes(i, [cmds[i] EXCEPT !.pc = "reassign"])
        \/ Becomes(i, NextDatabase(cmds[i]))
    BY <1>4 DEF VisitDatabase, Learn
  <2>3. Follows([cmds[i] EXCEPT !.pc = "reassign"], cmds[i]) /\ Follows(NextDatabase(cmds[i]), cmds[i])
    BY <2>1, FollowsOn
  <2> QED
    BY <2>1, <2>2, <2>3, LearnKept DEF Follows
<1>5. CASE ReassignOwned(i)
  BY <1>5, ReassignKept
<1>6. CASE DropWhatIsOwned(i)
  BY <1>6, ForcedDropIs, FollowsOn, AttemptKept DEF DropWhatIsOwned, At
<1>7. CASE DropTheRole(i)
  BY <1>7, ForcedDropIs, FollowsOn, AttemptKept DEF DropTheRole, At
<1> QED
  BY <1>1, <1>2, <1>3, <1>4, <1>5, <1>6, <1>7 DEF ForceDropStep

\* Statements of the other commands.
LEMMA RunKept ==
  ASSUME KeptInv, NEW i \in Ids, RunStatement(i)
  PROVE  KeptInv'
<1> DEFINE q == Head(cmds[i].todo)
           d == cmds[i].target
<1>1. HasStatements(i) /\ ServerBecomes(After(srv, q, d))
  BY DEF RunStatement
<1> HIDE DEF q, d
<1>2. Shaped(srv') /\ Stays /\ ServerBecomes(srv')
  BY <1>1, AfterShaped DEF KeptInv, ServerBecomes, Stays, Shaped
<1>3. PICK given : \A k \in Ids : k # i => cmds'[k] = StillClears(given)[k]
  BY DEF RunStatement, StillClears
<1>4. DOMAIN cmds' = Ids
  BY DEF RunStatement, StillClears
<1>5. DOMAIN cmds'[i] = DOMAIN cmds[i] /\ cmds'[i].act = cmds[i].act
  <2> DEFINE gives == Gives(q, d)
             still == StillClears(gives)
  <2>1. DOMAIN still[i] = DOMAIN cmds[i] /\ still[i].act = cmds[i].act
    BY <1>1 DEF StillClears, KeptInv, HasCommon
  <2>2. i \in DOMAIN still /\ "act" \in DOMAIN still[i]
    BY <2>1 DEF StillClears, KeptInv, HasCommon
  <2>3. PICK pc, todo : \/ cmds' = [still EXCEPT ![i].todo = todo, ![i].pc = pc]
                        \/ cmds' = [still EXCEPT ![i].pc = pc]
    BY DEF RunStatement, q, d
  <2> HIDE DEF still
  <2> QED
    BY <2>1, <2>2, <2>3
<1>6. ~ForcedDrop(cmds'[i])
  BY <1>1, <1>5 DEF HasStatements, ForcedDrop
<1>7. ASSUME NEW k \in Ids, k # i
      PROVE  /\ HasCommon(cmds'[k])
             /\ ForcedDrop(cmds'[k]) => cmds'[k] = cmds[k]
  <2>1. CASE HasStatements(k)
    <3>1. DOMAIN cmds'[k] = DOMAIN cmds[k] /\ cmds'[k].act = cmds[k].act
      BY <1>3, <1>7, <2>1 DEF StillClears, KeptInv, HasCommon
    <3> QED
      BY <2>1, <3>1 DEF HasStatements, ForcedDrop, KeptInv, HasCommon
  <2>2. CASE ~HasStatements(k)
    BY <1>3, <1>7, <2>2 DEF StillClears, KeptInv
  <2> QED
    BY <2>1, <2>2
<1>8. \A k \in Ids : HasCommon(cmds'[k])
  BY <1>5, <1>7 DEF KeptInv, HasCommon
<1> QED
  BY <1>2, <1>4, <1>6, <1>7, <1>8, StepKept

LEMMA ExecKept ==
  ASSUME KeptInv, NEW i \in Ids, ExecStep(i)
  PROVE  KeptInv'
<1>1. ASSUME NEW pc, pc # "drop owned", SameServer, Becomes(i, [cmds[i] EXCEPT !.pc = pc]),
             Active(cmds[i])
      PROVE  KeptInv'
  <2> DEFINE c == [cmds[i] EXCEPT !.pc = pc]
  <2>1. HasCommon(cmds[i])
    BY DEF KeptInv
  <2>2. DOMAIN c = DOMAIN cmds[i] /\ c.act = cmds[i].act
    BY <2>1 DEF HasCommon
  <2>3. ASSUME ForcedDrop(c) PROVE ForcedDrop(cmds[i]) /\ Follows(c, cmds[i])
    <3>1. ForcedDrop(cmds[i])
      BY <1>1, <2>2, <2>3 DEF ForcedDrop
    <3> QED
      BY <1>1, <3>1, ForcedDropIs, FollowsOn
  <2> HIDE DEF c
  <2> QED
    BY <1>1, <2>2, <2>3, LearnKept DEF c
<1>2. CASE GetPool(i)
  <2>1. PICK pc \in {"run", "levels", "owned"} : Becomes(i, [cmds[i] EXCEPT !.pc = pc])
    BY <1>2 DEF GetPool
  <2> QED
    BY <1>1, <1>2, <2>1 DEF GetPool, Active
<1>3. CASE RunStatement(i)
  BY <1>3, RunKept
<1>4. CASE RefuseStatement(i)
  BY <1>1, <1>4 DEF RefuseStatement, HasStatements
<1>5. CASE CommandFails(i)
  BY <1>1, <1>5 DEF CommandFails
<1> QED
  BY <1>2, <1>3, <1>4, <1>5 DEF ExecStep

LEMMA ProbeKept ==
  ASSUME KeptInv, NEW i \in Ids, ReadLevels(i) \/ ReadSchema(i) \/ ReadTables(i)
  PROVE  KeptInv'
<1>1. Probe(cmds[i]) /\ SameServer /\ HasCommon(cmds[i]) /\ cmds[i].act = "access"
  BY DEF ReadLevels, ReadSchema, ReadTables, Unreadable, Learn, Probe, KeptInv
<1>2. PICK c : Becomes(i, c) /\ DOMAIN c = DOMAIN cmds[i] /\ c.act = "access"
  <2>1. ASSUME NEW more
        PROVE  /\ DOMAIN NextReport(cmds[i], more) = DOMAIN cmds[i]
               /\ NextReport(cmds[i], more).act = "access"
    BY <1>1 DEF NextReport, HasCommon
  <2>2. CASE ReadLevels(i)
    <3>1. PICK found : Becomes(i, [cmds[i] EXCEPT !.pc = "schemas", !.dbs = DatabaseOrder,
                                                  !.found = found])
      BY <2>2 DEF ReadLevels, Learn
    <3> DEFINE c == [cmds[i] EXCEPT !.pc = "schemas", !.dbs = DatabaseOrder, !.found = found]
    <3>2. DOMAIN c = DOMAIN cmds[i] /\ c.act = "access"
      BY <1>1 DEF HasCommon
    <3> HIDE DEF c
    <3> QED
      BY <3>1, <3>2 DEF c
  <2>3. CASE ReadSchema(i)
    <3>1. \/ \E more : Becomes(i, NextReport(cmds[i], more))
          \/ \E found : Becomes(i, [cmds[i] EXCEPT !.found = found, !.pc = "tables"])
      <4>1. CASE Unreadable(i)
        BY <4>1 DEF Unreadable
      <4>2. CASE ~Unreadable(i)
        BY <2>3, <4>2 DEF ReadSchema, Learn
      <4> QED BY <4>1, <4>2
    <3>2. ASSUME NEW found
          PROVE  LET c == [cmds[i] EXCEPT !.found = found, !.pc = "tables"]
                 IN  DOMAIN c = DOMAIN cmds[i] /\ c.act = "access"
      BY <1>1 DEF HasCommon
    <3> QED
      BY <2>1, <3>1, <3>2
  <2>4. CASE ReadTables(i)
    <3>1. \E more : Becomes(i, NextReport(cmds[i], more))
      BY <2>4 DEF ReadTables, Learn, Unreadable
    <3> QED
      BY <2>1, <3>1
  <2> QED
    BY <2>2, <2>3, <2>4
<1> QED
  BY <1>1, <1>2, LearnKept DEF ForcedDrop

LEMMA OthersKept ==
  ASSUME KeptInv, OtherAlters \/ OtherCreates \/ OtherExecMsg
  PROVE  KeptInv'
<1>1. CASE OtherExecMsg
  BY <1>1, QuietStep DEF OtherExecMsg, OtherFrame
<1>2. ASSUME UNCHANGED cmds, Shaped(srv'), Stays, ServerBecomes(srv')
      PROVE  KeptInv'
  BY <1>2, StepKept DEF KeptInv
<1>3. CASE OtherAlters
  <2>1. PICK r, on : ServerBecomes([srv EXCEPT !.attrs[r] = on])
    BY <1>3 DEF OtherAlters
  <2>2. Shaped(srv') /\ Stays /\ ServerBecomes(srv')
    BY <2>1 DEF KeptInv, Shaped, Fields, Stays, ServerBecomes
  <2> QED
    BY <1>2, <1>3, <2>2 DEF OtherAlters, OtherFrame
<1>4. CASE OtherCreates
  <2>0. PICK o \in ObjectsIn(srv, Nowhere) : \E d, r : ServerBecomes(Created(srv, o, d, r))
    BY <1>4 DEF OtherCreates
  <2>1. PICK d, r : ServerBecomes(Created(srv, o, d, r))
    BY <2>0
  <2>2. /\ Shaped(srv') /\ ServerBecomes(srv')
        /\ \A p \in Objects : p # o => srv'.at[p] = srv.at[p]
    BY <2>1 DEF KeptInv, Shaped, Fields, ServerBecomes, Created
  <2>3. Stays
    BY <2>0, <2>2 DEF Stays, ObjectsIn
  <2> QED
    BY <1>2, <1>4, <2>2, <2>3 DEF OtherCreates, OtherFrame
<1> QED
  BY <1>1, <1>3, <1>4

LEMMA NextKept == KeptInv /\ [Next]_vars => KeptInv'
<1> SUFFICES ASSUME KeptInv, [Next]_vars PROVE KeptInv'
  OBVIOUS
<1>1. CASE ReadRoles \/ LoadFails \/ RolesMsg \/ DatabasesMsg
  BY <1>1, QuietStep DEF ReadRoles, LoadFails, RolesMsg, DatabasesMsg
<1>2. CASE Cancel \/ CloseAlert \/ MoveCursor \/ Refresh \/ PickRole
  BY <1>2, ShowKept, QuietStep DEF Cancel, CloseAlert, MoveCursor, Refresh, PickRole
<1>3. CASE OpensSomething
  BY <1>3, OpensKept
<1>4. CASE StartsSomething
  BY <1>4, StartsKept
<1>5. ASSUME NEW i \in Ids, CommandStep(i) PROVE KeptInv'
  <2>1. CASE ExecMsg(i) \/ RoleAccessMsg(i)
    BY <2>1, AnswerKept DEF ExecMsg, RoleAccessMsg
  <2> QED
    BY <1>5, <2>1, ExecKept, ForceDropKept, ProbeKept DEF CommandStep
<1>6. CASE OtherAlters \/ OtherCreates \/ OtherExecMsg
  BY <1>6, OthersKept
<1>7. CASE UNCHANGED vars
  BY <1>7, QuietStep DEF vars, SameServer
<1> QED
  BY <1>1, <1>2, <1>3, <1>4, <1>5, <1>6, <1>7 DEF Next

\* What a forced drop must take care of is still its role's and, when DROP OWNED is
\* next, outside the database it is about to run in (ForceDropRole: a database whose
\* REASSIGN failed is left).
THEOREM KeptAlways == Spec => []KeptInv
<1>1. Init => KeptInv
  BY InitKept
<1>2. KeptInv /\ [Next]_vars => KeptInv'
  BY NextKept
<1> QED
  BY <1>1, <1>2, PTL DEF Spec

----------------------------------------------------------------------------
(* No step of a forced drop drops such an object.                          *)

KeptThere(i) == \A o \in kept[i] : srv'.at[o] # Nowhere

LEMMA ThereWhenNothingMoves ==
  ASSUME KeptInv, NEW i \in Ids, ForcedDrop(cmds[i]), srv'.at = srv.at
  PROVE  KeptThere(i)
BY ForcedDropIs DEF KeptThere, Concern

LEMMA StartsMovesNothing ==
  ASSUME StartsSomething
  PROVE  srv' = srv
<1>1. ASSUME NEW c, Submit(c) PROVE srv' = srv
  BY <1>1 DEF Submit, Start
<1>2. ASSUME NEW m, Show(m) PROVE srv' = srv
  BY <1>2 DEF Show, SameServer
<1>3. CASE ResetPasswordYes
  BY <1>3 DEF ResetPasswordYes, Start
<1>4. CASE AttrsYes
  BY <1>1, <1>2, <1>4 DEF AttrsYes
<1> QED
  BY <1>1, <1>3, <1>4
     DEF StartsSomething, CreateRoleYes, DropRoleYes, ConnLimitYes, EscalateYes, GrantYes,
         ForceDropYes, OpenAccess

\* A statement of a forced drop drops nothing but by DROP OWNED.
LEMMA AttemptMovesNothing ==
  ASSUME KeptInv, NEW i, NEW q, NEW d, NEW done, NEW failed,
         Attempt(i, q, d, done, failed), q.op # "drop owned"
  PROVE  srv'.at = srv.at
<1>1. srv' = srv \/ srv' = After(srv, q, d)
  BY Zenon DEF Attempt, ServerBecomes, SameServer
<1>2. After(srv, q, d).at = srv.at
  BY AfterShaped DEF KeptInv
<1> QED
  BY <1>1, <1>2

LEMMA ForceDropThere ==
  ASSUME KeptInv, NEW i \in Ids, ForceDropStep(i)
  PROVE  KeptThere(i)
<1>1. ForcedDrop(cmds[i])
  BY DEF ForceDropStep, DatabasesOwnedBy, AlterOwner, ConnectableDatabases, VisitDatabase,
         ReassignOwned, DropWhatIsOwned, DropTheRole, At
<1>2. CASE DatabasesOwnedBy(i) \/ ConnectableDatabases(i) \/ VisitDatabase(i)
  BY <1>1, <1>2, ThereWhenNothingMoves
     DEF DatabasesOwnedBy, ConnectableDatabases, VisitDatabase, Learn, SameServer
<1>3. ASSUME NEW q, q.op # "drop owned", NEW d, NEW done, NEW failed,
             Attempt(i, q, d, done, failed)
      PROVE  KeptThere(i)
  BY <1>1, <1>3, AttemptMovesNothing, ThereWhenNothingMoves
<1>4. CASE AlterOwner(i) \/ ReassignOwned(i) \/ DropTheRole(i)
  <2>1. ASSUME NEW d, NEW r PROVE OwnDatabase(d, r).op # "drop owned"
    BY DEF OwnDatabase
  <2>2. ASSUME NEW r, NEW to PROVE Reassign(r, to).op # "drop owned"
    BY DEF Reassign
  <2>3. ASSUME NEW r PROVE DropRole(r).op # "drop owned"
    BY DEF DropRole
  <2>4. CASE AlterOwner(i)
    BY <1>3, <2>1, <2>4 DEF AlterOwner
  <2>5. CASE ReassignOwned(i)
    BY <1>3, <2>2, <2>5 DEF ReassignOwned
  <2>6. CASE DropTheRole(i)
    BY <1>3, <2>3, <2>6 DEF DropTheRole
  <2> QED
    BY <1>4, <2>4, <2>5, <2>6
<1>5. CASE DropWhatIsOwned(i)
  <2> DEFINE d == Head(cmds[i].dbs)
             q == DropOwned(cmds[i].role)
  <2>1. srv' = srv \/ srv' = After(srv, q, d)
    BY <1>5 DEF DropWhatIsOwned, Attempt, ServerBecomes, SameServer
  <2>2. Safe(srv, cmds[i], kept[i]) /\ cmds[i].pc = "drop owned" /\ Shaped(srv)
    BY <1>1, <1>5 DEF KeptInv, DropWhatIsOwned, At
  <2>3. ASSUME NEW o \in kept[i] PROVE srv'.at[o] # Nowhere
    <3>1. o \in Objects /\ srv.at[o] # Nowhere /\ srv.at[o] # d
      BY <1>1, <2>2 DEF Safe, Concern
    <3>2. Shaped(srv) /\ o \in Objects /\ srv.at[o] # d
      BY <2>2, <3>1
    <3>3. After(srv, DropOwned(cmds[i].role), d).at[o] = srv.at[o]
      BY ONLY <3>2, DropsOnlyThere
    <3> QED
      BY <2>1, <3>1, <3>3
  <2> QED
    BY <2>3 DEF KeptThere
<1> QED
  BY <1>2, <1>4, <1>5 DEF ForceDropStep

LEMMA StepThere ==
  ASSUME KeptInv, Next, NEW i \in Ids, ForcedDrop(cmds[i]), cmds'[i] # cmds[i]
  PROVE  KeptThere(i)
<1>1. CASE srv' = srv
  BY <1>1, ThereWhenNothingMoves
<1>2. CASE StartsSomething
  BY <1>1, <1>2, StartsMovesNothing
<1>3. ASSUME NEW j \in Ids, CommandStep(j) PROVE KeptThere(i)
  <2>1. CASE ExecStep(j)
    <3>1. CASE RunStatement(j)
      <4>1. i # j /\ ~HasStatements(i)
        BY <3>1 DEF RunStatement, HasStatements
      <4>2. cmds'[i] = cmds[i]
        BY <3>1, <4>1 DEF RunStatement, StillClears, KeptInv
      <4> QED
        BY <4>2
    <3>2. CASE GetPool(j) \/ RefuseStatement(j) \/ CommandFails(j)
      BY <1>1, <3>2 DEF GetPool, RefuseStatement, CommandFails, SameServer
    <3> QED
      BY <2>1, <3>1, <3>2 DEF ExecStep
  <2>2. CASE ForceDropStep(j)
    <3>1. PICK c : Becomes(j, c)
      BY <2>2 DEF ForceDropStep, DatabasesOwnedBy, AlterOwner, ConnectableDatabases,
         VisitDatabase, ReassignOwned, DropWhatIsOwned, DropTheRole, Learn, Attempt
    <3>2. j = i
      BY <3>1 DEF Becomes, KeptInv
    <3> QED
      BY <2>2, <3>2, ForceDropThere
  <2>3. CASE ReadLevels(j) \/ ReadSchema(j) \/ ReadTables(j) \/ ExecMsg(j) \/ RoleAccessMsg(j)
    BY <1>1, <2>3 DEF ReadLevels, ReadSchema, ReadTables, Unreadable, Learn, SameServer,
                      ExecMsg, RoleAccessMsg, Answer
  <2> QED
    BY <1>3, <2>1, <2>2, <2>3 DEF CommandStep
<1>4. CASE ReadRoles \/ LoadFails \/ RolesMsg \/ DatabasesMsg
  BY <1>4 DEF ReadRoles, LoadFails, RolesMsg, DatabasesMsg
<1>5. CASE Cancel \/ CloseAlert \/ MoveCursor \/ Refresh \/ PickRole
  BY <1>5 DEF Cancel, Show, CloseAlert, MoveCursor, Refresh, PickRole
<1>6. CASE OpensSomething
  BY <1>6 DEF OpensSomething, OpenFinder, OpenRoleMenu, OpenCreateForm, OpenConnLimitForm,
     OpenAttrsForm, AskDropRole, AskResetPassword, StartGrantFlow, PickDB, OpenGrantConfirm,
     OpenForceDropForm, Show
<1>7. CASE OtherAlters \/ OtherCreates \/ OtherExecMsg
  BY <1>7 DEF OtherAlters, OtherCreates, OtherExecMsg, OtherFrame
<1> QED
  BY <1>2, <1>3, <1>4, <1>5, <1>6, <1>7 DEF Next

\* A forced drop does not drop an object that its role owned from the start of the
\* command on, however many databases there are and whichever statements fail.
THEOREM ForcedDropKeepsOwned == Spec => OwnedSurvives
<1>1. KeptInv /\ [Next]_vars
        => [\A i \in Ids : ForcedDrop(cmds[i]) /\ cmds'[i] # cmds[i]
              => \A o \in kept[i] : srv'.at[o] # Nowhere]_vars
  BY StepThere DEF KeptThere
<1> QED
  BY <1>1, KeptAlways, PTL DEF Spec, OwnedSurvives

----------------------------------------------------------------------------
(* Types.  What a statement is about, by its kind.                         *)

Schema == {"usage", "table", "sequence"}
GrantQueries ==
  [op : {"grant", "revoke"}, db : Databases, role : Roles, what : SUBSET OnDatabase]
    \union [op : {"grant here", "revoke here"}, role : Roles, what : Schema]
    \union [op : {"grant all", "revoke all"}, role : Roles, kind : Kinds]
    \union [op : {"own"}, db : Databases, role : Roles]
RoleQueries ==
  [op : {"create role"}, role : Roles, on : SUBSET Attributes]
    \union [op : {"alter role"}, role : Roles, on : SUBSET Attributes, off : SUBSET Attributes]
    \union [op : {"password"}, role : Roles, pwd : Nat]
    \union [op : {"drop role", "limit"}, role : Roles]
Queries == GrantQueries \union RoleQueries

Sane(q) ==
  /\ q.role \in Roles
  /\ q.op \in {"create role", "alter role"} => q.on \subseteq Attributes
  /\ q.op = "password" => q.pwd \in Nat
  /\ q.op \in {"grant", "revoke"} => q.db \in Databases /\ q.what \subseteq OnDatabase
  /\ q.op \in {"grant here", "revoke here"} => q.what \in Schema
  /\ q.op \in {"grant all", "revoke all"} => q.kind \in Kinds
  /\ q.op = "own" => q.db \in Databases
  /\ q.op = "reassign" => q.to \in Roles

LEMMA QueriesSane == ASSUME NEW q \in Queries PROVE Sane(q)
<1>1. CASE q \in GrantQueries
  BY <1>1 DEF GrantQueries, Sane, Schema
<1>2. CASE q \in RoleQueries
  BY <1>2 DEF RoleQueries, Sane
<1> QED BY <1>1, <1>2 DEF Queries

\* A server: its parts have their types, privileges are on what is there, and the role
\* that is connected exists.
Standing(s) ==
  s \in Servers /\ Me \in s.roles /\ \A p \in s.acl : s.at[p[1]] # Nowhere

LEMMA ServerParts ==
  ASSUME NEW s \in Servers
  PROVE  /\ DOMAIN s = Fields
         /\ s.roles \subseteq Roles /\ s.attrs \in [Roles -> SUBSET Attributes]
         /\ s.pwd \in [Roles -> Nat] /\ s.owner \in [Databases -> Roles]
         /\ s.at \in [Objects -> Databases \union {Nowhere}] /\ s.of \in [Objects -> Roles]
         /\ s.acl \subseteq Objects \X Roles
         /\ s.held \subseteq Databases \X Roles \X Holdings
BY DEF Servers, Fields

LEMMA ServerMade ==
  ASSUME NEW s, DOMAIN s = Fields, s = [f \in Fields |-> s[f]],
         s.roles \subseteq Roles, s.attrs \in [Roles -> SUBSET Attributes],
         s.pwd \in [Roles -> Nat], s.owner \in [Databases -> Roles],
         s.at \in [Objects -> Databases \union {Nowhere}], s.of \in [Objects -> Roles],
         s.acl \subseteq Objects \X Roles,
         s.held \subseteq Databases \X Roles \X Holdings
  PROVE  s \in Servers
BY DEF Servers, Fields

LEMMA AfterStands ==
  ASSUME NEW s, Standing(s), NEW q, Sane(q), NEW d \in Databases, Accepts(s, q)
  PROVE  Standing(After(s, q, d))
<1> DEFINE t == After(s, q, d)
<1>0. /\ s \in Servers /\ Me \in s.roles /\ \A p \in s.acl : s.at[p[1]] # Nowhere
      /\ q.role \in Roles /\ d # Nowhere
  BY ServerConstants DEF Standing, Sane
<1>1. CASE q.op = "create role"
  BY <1>0, <1>1 DEF Standing, Servers, After, Sane
<1>2. CASE q.op = "drop role"
  BY <1>0, <1>2 DEF Standing, Servers, After, Accepts
<1>3. CASE q.op = "alter role"
  BY <1>0, <1>3 DEF Standing, Servers, After, Sane
<1>4. CASE q.op = "password"
  BY <1>0, <1>4 DEF Standing, Servers, After, Sane
<1>5. CASE q.op = "grant"
  BY <1>0, <1>5 DEF Standing, Servers, After, Sane, OnDatabase, Holdings
<1>6. CASE q.op = "revoke"
  BY <1>0, <1>6 DEF Standing, Servers, After
<1>7. CASE q.op = "grant here"
  <2> DEFINE held == s.held \union {<<d, q.role, q.what>>}
  <2>1. q.what \in Holdings
    BY <1>7 DEF Sane, Schema, Holdings
  <2>2. held \subseteq Databases \X Roles \X Holdings
    BY <1>0, <2>1, ServerParts
  <2>3. After(s, q, d) = [s EXCEPT !.held = held]
    BY <1>7 DEF After
  <2> HIDE DEF held
  <2> QED
    BY <1>0, <2>2, <2>3 DEF Standing, Servers
<1>8. CASE q.op = "revoke here"
  BY <1>0, <1>8 DEF Standing, Servers, After
<1>9. CASE q.op = "grant all"
  BY <1>0, <1>9 DEF Standing, Servers, After, OfKind, ObjectsIn
<1>10. CASE q.op = "revoke all"
  BY <1>0, <1>10 DEF Standing, Servers, After
<1>11. CASE q.op = "own"
  BY <1>0, <1>11 DEF Standing, Servers, After, Sane
<1>12. CASE q.op = "reassign"
  BY <1>0, <1>12 DEF Standing, Servers, After, Reassigned, Sane
<1>13. CASE q.op = "drop owned"
  BY <1>0, <1>13 DEF Standing, Servers, After, WithoutOwned, Owned, ObjectsIn
<1>14. CASE q.op \notin {"create role", "drop role", "alter role", "password", "grant", "revoke",
                         "grant here", "revoke here", "grant all", "revoke all", "own",
                         "reassign", "drop owned"}
  BY <1>0, <1>14 DEF Standing, After
<1> QED
  BY <1>1, <1>2, <1>3, <1>4, <1>5, <1>6, <1>7, <1>8, <1>9, <1>10, <1>11, <1>12, <1>13, <1>14

LEMMA CreatedStands ==
  ASSUME NEW s, Standing(s), NEW o \in ObjectsIn(s, Nowhere), NEW d \in Databases,
         NEW r \in s.roles
  PROVE  Standing(Created(s, o, d, r))
<1>1. /\ s \in Servers /\ Me \in s.roles /\ \A p \in s.acl : s.at[p[1]] # Nowhere
      /\ o \in Objects /\ r \in Roles /\ d # Nowhere
  BY ServerConstants, ServerParts DEF Standing, ObjectsIn
<1> DEFINE gifts == {<<o, e>> : e \in {g \in Roles : r = Me /\ <<d, g, Kind[o]>> \in s.held}}
           acl == s.acl \union gifts
           t == [s EXCEPT !.at[o] = d, !.of[o] = r, !.acl = acl]
<1>2. acl \subseteq Objects \X Roles /\ \A p \in acl : p[1] = o \/ s.at[p[1]] # Nowhere
  <2>1. ASSUME NEW p \in gifts PROVE p[1] = o /\ p \in Objects \X Roles
    <3>1. PICK e \in {g \in Roles : r = Me /\ <<d, g, Kind[o]>> \in s.held} : p = <<o, e>>
      BY Zenon
    <3>2. e \in Roles
      BY <3>1
    <3> QED
      BY <1>1, <3>1, <3>2
  <2>2. s.acl \subseteq Objects \X Roles
    BY <1>1, ServerParts
  <2> QED
    BY <1>1, <2>1, <2>2
<1>3. Created(s, o, d, r) = t
  BY DEF Created
<1> HIDE DEF gifts, acl
<1>4. /\ t.roles = s.roles /\ t.acl = acl
      /\ \A p \in Objects : t.at[p] = IF p = o THEN d ELSE s.at[p]
  BY <1>1 DEF Servers
<1>5. t \in Servers
  BY <1>1, <1>2 DEF Servers
<1>6. \A p \in acl : p[1] \in Objects
  BY <1>2
<1> HIDE DEF t
<1> QED
  BY <1>1, <1>2, <1>3, <1>4, <1>5, <1>6 DEF Standing

\* The statements of a grant or revoke are about privileges and owners only.
LEMMA PresetsTyped ==
  ASSUME NEW d \in Databases, NEW r \in Roles, NEW scope \in Scopes
  PROVE  /\ LET on == BuildGrant(scope, d, r)
            IN  on.target \in Databases /\ on.list \in Seq(GrantQueries) /\ on.list # <<>>
         /\ scope # "owner" =>
              LET on == BuildRevoke(scope, d, r)
              IN  on.target \in Databases /\ on.list \in Seq(GrantQueries) /\ on.list # <<>>
<1>1. AdminDB \in Databases
  BY ServerConstants
<1>2. /\ \A w \in SUBSET OnDatabase :
           Grant(d, r, w) \in GrantQueries /\ Revoke(d, r, w) \in GrantQueries
      /\ \A k \in Kinds : /\ GrantAll(r, k) \in GrantQueries /\ RevokeAll(r, k) \in GrantQueries
                          /\ GrantLater(r, k) \in GrantQueries
                          /\ RevokeLater(r, k) \in GrantQueries
      /\ GrantUsage(r) \in GrantQueries /\ RevokeUsage(r) \in GrantQueries
      /\ OwnDatabase(d, r) \in GrantQueries
  BY DEF GrantQueries, Schema, Kinds, Grant, Revoke, GrantAll, RevokeAll, GrantLater,
         RevokeLater, GrantUsage, RevokeUsage, OwnDatabase
<1>3. {"connect"} \in SUBSET OnDatabase /\ "table" \in Kinds /\ "sequence" \in Kinds
  BY DEF OnDatabase, Kinds
<1>4. ASSUME NEW e \in Databases, NEW q \in GrantQueries
      PROVE  /\ On(e, <<q>>).target \in Databases
             /\ On(e, <<q>>).list \in Seq(GrantQueries) /\ On(e, <<q>>).list # <<>>
  <2>1. <<q>> \in Seq(GrantQueries) /\ <<q>> # <<>>
    OBVIOUS
  <2> QED
    BY <2>1 DEF On
<1>5. CASE scope \in {"connect", "database"}
  <2>1. PICK w \in SUBSET OnDatabase :
          /\ BuildGrant(scope, d, r) = On(AdminDB, <<Grant(d, r, w)>>)
          /\ BuildRevoke(scope, d, r) = On(AdminDB, <<Revoke(d, r, w)>>)
    BY <1>3, <1>5 DEF BuildGrant, BuildRevoke
  <2> QED
    BY <1>1, <1>2, <1>4, <2>1
<1>6. CASE scope = "owner"
  <2>1. BuildGrant(scope, d, r) = On(AdminDB, <<OwnDatabase(d, r)>>)
    BY <1>6 DEF BuildGrant
  <2> QED
    BY <1>1, <1>2, <1>4, <1>6, <2>1
<1>7. CASE scope = "schema"
  <2>1. BuildGrant(scope, d, r) =
          On(d, <<GrantUsage(r), GrantAll(r, "table"), GrantAll(r, "sequence"),
                  GrantLater(r, "table"), GrantLater(r, "sequence")>>)
    BY <1>7 DEF BuildGrant
  <2>2. BuildRevoke(scope, d, r) =
          On(d, <<RevokeLater(r, "table"), RevokeLater(r, "sequence"),
                  RevokeAll(r, "table"), RevokeAll(r, "sequence"), RevokeUsage(r)>>)
    BY <1>7 DEF BuildRevoke
  <2>3. \A a, b, c, e, f \in GrantQueries :
          <<a, b, c, e, f>> \in Seq(GrantQueries) /\ <<a, b, c, e, f>> # <<>>
    OBVIOUS
  <2>4. \A list : On(d, list).target = d /\ On(d, list).list = list
    BY DEF On
  <2>5. BuildGrant(scope, d, r).list \in Seq(GrantQueries) /\ BuildGrant(scope, d, r).list # <<>>
    <3> DEFINE list == <<GrantUsage(r), GrantAll(r, "table"), GrantAll(r, "sequence"),
                         GrantLater(r, "table"), GrantLater(r, "sequence")>>
    <3>1. list \in Seq(GrantQueries) /\ list # <<>>
      BY <1>2, <1>3, <2>3
    <3> HIDE DEF list
    <3> QED
      BY <2>1, <2>4, <3>1 DEF list
  <2>6. BuildRevoke(scope, d, r).list \in Seq(GrantQueries) /\ BuildRevoke(scope, d, r).list # <<>>
    <3> DEFINE list == <<RevokeLater(r, "table"), RevokeLater(r, "sequence"),
                         RevokeAll(r, "table"), RevokeAll(r, "sequence"), RevokeUsage(r)>>
    <3>1. list \in Seq(GrantQueries) /\ list # <<>>
      BY <1>2, <1>3, <2>3
    <3> HIDE DEF list
    <3> QED
      BY <2>2, <2>4, <3>1 DEF list
  <2> QED
    BY <2>1, <2>2, <2>4, <2>5, <2>6
<1> QED
  BY <1>5, <1>6, <1>7 DEF Scopes

----------------------------------------------------------------------------
(* The types of the tab, part by part.                                     *)

AboutRole == {"menu", "drop", "reset", "limit", "attrs", "escalate", "pick db", "scope", "grant",
              "force"}

ListsTyped ==
  /\ roles \in Seq(Rows) /\ dbNames \subseteq Databases
  /\ \A l \in lists : l \in Seq(Rows) /\ l # <<>>
  /\ cursor = 1 \/ cursor \in DOMAIN roles

ModalTyped ==
  /\ modal.kind \in AboutRole <=> "role" \in DOMAIN modal
  /\ modal.kind \in AboutRole => modal.role \in Roles
  /\ modal.kind \in {"scope", "grant"} => modal.db \in Databases
  /\ modal.kind = "reset" => modal.role = pendingPwdRole
  /\ modal.kind = "escalate" => modal.list \in Seq(Queries) /\ modal.list # <<>>
  /\ modal.kind = "grant" =>
       /\ modal.on.target \in Databases
       /\ modal.on.list \in Seq(GrantQueries) /\ modal.on.list # <<>>
       /\ modal.verb = "revoke" /\ modal.schema => modal.on = BuildRevoke("schema", modal.db, modal.role)

AlertTyped ==
  /\ alert.role \in Roles /\ alert.pwd \in 0 .. MaxCmds /\ alert.dbs \subseteq Databases
  /\ pendingPwdRole \in Roles /\ newPassword \in 0 .. MaxCmds

RunsStatements(c) ==
  /\ DOMAIN c = {"pc", "act", "role", "target", "todo", "clears"}
  /\ c.act \notin {"force-drop", "access"} /\ c.role \in Roles /\ c.target \in Databases
  /\ c.pc \in {"pool", "run", "answered", "failed"}
  /\ c.todo \in Seq(Queries)
  /\ c.pc \in {"pool", "run"} => c.todo # <<>>
DropsByForce(c) ==
  /\ DOMAIN c = {"pc", "act", "role", "to", "dbs"}
  /\ c.act = "force-drop" /\ c.role \in Roles /\ c.to \in Roles
  /\ c.pc \in {"pool", "owned", "own", "dbs", "visit", "reassign", "drop owned", "answered",
               "failed"}
  /\ c.dbs \in Seq(Databases)
  /\ c.pc \in {"own", "reassign", "drop owned"} => c.dbs # <<>>
LooksForAccess(c) ==
  /\ DOMAIN c = {"pc", "act", "role", "dbs", "found"}
  /\ c.act = "access" /\ c.role \in Roles
  /\ c.pc \in {"pool", "levels", "schemas", "tables", "answered", "failed"}
  /\ c.dbs \in Seq(Databases) /\ c.found \subseteq Databases
  /\ c.pc \in {"schemas", "tables"} => c.dbs # <<>>
CommandOK(c) ==
  c \in {Unused, Over} \/ RunsStatements(c) \/ DropsByForce(c) \/ LooksForAccess(c)

CommandsTyped == DOMAIN cmds = Ids /\ \A i \in Ids : CommandOK(cmds[i])

TypeInv == Standing(srv) /\ ListsTyped /\ ModalTyped /\ AlertTyped /\ CommandsTyped

\* What a step leaves alone keeps its type.
LEMMA ListsStay ==
  ASSUME ListsTyped, UNCHANGED <<roles, dbNames, lists, cursor>> PROVE ListsTyped'
BY DEF ListsTyped
LEMMA ModalStays ==
  ASSUME ModalTyped, UNCHANGED <<modal, pendingPwdRole>> PROVE ModalTyped'
BY DEF ModalTyped
LEMMA AlertStays ==
  ASSUME AlertTyped, UNCHANGED <<alert, pendingPwdRole, newPassword>> PROVE AlertTyped'
BY DEF AlertTyped
LEMMA CommandsStay ==
  ASSUME CommandsTyped, UNCHANGED cmds PROVE CommandsTyped'
BY DEF CommandsTyped
LEMMA ServerStays ==
  ASSUME Standing(srv), SameServer \/ srv' = srv PROVE Standing(srv')
BY DEF SameServer

LEMMA ListedTyped ==
  ASSUME NEW s, Standing(s)
  PROVE  ListRoles(s) \in Seq(Rows) /\ ListRoles(s) # <<>>
<1> DEFINE names == Only(RoleOrder, s.roles)
<1>1. RoleOrder \in Seq(Roles) /\ s \in Servers /\ Me \in s.roles /\ Me \in Roles
  BY TabConstants, ServerConstants DEF Standing
<1>2. names \in Seq(Roles \intersect s.roles)
  BY <1>1, OnlyKeeps
<1>3. \E k \in DOMAIN names : names[k] = Me
  <2>1. PICK p \in DOMAIN RoleOrder : RoleOrder[p] = Me
    BY <1>1, TabConstants
  <2>2. RoleOrder[p] \in s.roles
    BY <1>1, <2>1
  <2>3. \E k \in DOMAIN names : names[k] = RoleOrder[p]
    BY <1>1, <2>2, OnlyFinds
  <2> QED
    BY <2>1, <2>3
<1> HIDE DEF names
<1>4. \A r \in Roles : [name |-> r, attrs |-> s.attrs[r]] \in Rows
  BY <1>1, ServerParts DEF Rows
<1>5. Len(names) \in Nat /\ DOMAIN names = 1 .. Len(names)
      /\ \A k \in 1 .. Len(names) : names[k] \in Roles
  BY <1>2
<1>6. ListRoles(s) = [k \in DOMAIN names |-> [name |-> names[k], attrs |-> s.attrs[names[k]]]]
  BY DEF ListRoles, names
<1>7. ListRoles(s) \in Seq(Rows)
  BY <1>4, <1>5, <1>6
<1>8. DOMAIN ListRoles(s) # {}
  BY <1>3, <1>6
<1> QED
  BY <1>7, <1>8

LEMMA SelectedTyped ==
  ASSUME ListsTyped
  PROVE  Selected.name \in Roles /\ Selected.attrs \subseteq Attributes
<1>1. NoRole \in Rows
  BY ServerConstants DEF NoRole, Rows
<1>2. Selected \in Rows
  BY <1>1 DEF Selected, IsSelected, ListsTyped
<1> QED
  BY <1>2 DEF Rows

LEMMA LoadsTyped ==
  ASSUME TypeInv, ReadRoles \/ LoadFails \/ RolesMsg \/ DatabasesMsg
  PROVE  TypeInv'
<1> USE DEF TypeInv
<1>1. SameServer /\ UNCHANGED <<modal, alert, pendingPwdRole, newPassword, cmds>>
  BY DEF ReadRoles, LoadFails, RolesMsg, DatabasesMsg, ui, bounds
<1>2. Standing(srv)' /\ ModalTyped' /\ AlertTyped' /\ CommandsTyped'
  BY <1>1, ServerStays, ModalStays, AlertStays, CommandsStay DEF SameServer
<1>3. CASE ReadRoles
  <2>1. ListRoles(srv) \in Seq(Rows) /\ ListRoles(srv) # <<>>
    BY ListedTyped
  <2>2. ListsTyped'
    BY <1>3, <2>1 DEF ReadRoles, ListsTyped, ui
  <2> QED BY <1>2, <2>2
<1>4. CASE LoadFails
  BY <1>2, <1>4, ListsStay DEF LoadFails, ui
<1>5. CASE RolesMsg
  <2>1. PICK l \in lists : /\ roles' = l /\ lists' = lists \ {l} /\ dbNames' = dbNames
                           /\ cursor' \in CursorIn(l, cursor)
    BY <1>5 DEF RolesMsg
  <2>2. l \in Seq(Rows) /\ l # <<>> /\ Len(l) \in Nat /\ DOMAIN l = 1 .. Len(l)
    BY DEF ListsTyped
  <2>3. cursor' \in DOMAIN l \/ cursor' = 1
    BY <2>1, <2>2 DEF CursorIn
  <2>4. ListsTyped'
    BY <2>1, <2>2, <2>3 DEF ListsTyped
  <2> QED BY <1>2, <2>4
<1>6. CASE DatabasesMsg
  <2>1. ListsTyped'
    BY <1>6 DEF DatabasesMsg, ListsTyped, loads
  <2> QED BY <1>2, <2>1
<1> QED
  BY <1>3, <1>4, <1>5, <1>6

\* A modal opens or closes.
LEMMA ShowTyped ==
  ASSUME TypeInv, NEW m, Show(m), ModalTyped'
  PROVE  TypeInv'
<1> USE DEF TypeInv
<1>1. /\ SameServer
      /\ UNCHANGED <<roles, dbNames, lists, cursor, alert, pendingPwdRole, newPassword, cmds>>
  BY DEF Show, loads
<1> QED
  BY <1>1, ServerStays, ListsStay, AlertStays, CommandsStay DEF SameServer

LEMMA ClosedTyped ==
  ASSUME modal' = Closed
  PROVE  ModalTyped'
BY DEF ModalTyped, Closed, AboutRole

\* A modal that is about a role and has nothing else that matters.
LEMMA NamedTyped ==
  ASSUME NEW kind \in {"menu", "drop", "limit", "attrs", "force"}, NEW r \in Roles,
         modal' = [kind |-> kind, role |-> r]
  PROVE  ModalTyped'
BY DEF ModalTyped, AboutRole

LEMMA KeysTyped ==
  ASSUME TypeInv, Cancel \/ CloseAlert \/ MoveCursor \/ Refresh \/ PickRole
  PROVE  TypeInv'
<1> USE DEF TypeInv
<1>1. CASE Cancel
  <2>1. Show(Closed) /\ modal' = Closed
    BY <1>1 DEF Cancel, Show
  <2> QED BY <2>1, ClosedTyped, ShowTyped
<1>2. CASE CloseAlert
  <2>1. /\ SameServer /\ alert' = NoAlert
        /\ UNCHANGED <<roles, dbNames, lists, cursor, modal, pendingPwdRole, newPassword, cmds>>
    BY <1>2 DEF CloseAlert, loads
  <2>2. AlertTyped'
    BY <2>1, ServerConstants, TabConstants DEF AlertTyped, NoAlert
  <2> QED
    BY <2>1, <2>2, ServerStays, ListsStay, ModalStays, CommandsStay DEF SameServer
<1>3. CASE MoveCursor \/ Refresh
  <2>1. /\ SameServer
        /\ UNCHANGED <<roles, dbNames, lists, modal, alert, pendingPwdRole, newPassword, cmds>>
        /\ cursor' = cursor \/ cursor' \in DOMAIN roles
    BY <1>3 DEF MoveCursor, Refresh, loads, ui
  <2>2. ListsTyped'
    BY <2>1 DEF ListsTyped
  <2> QED
    BY <2>1, <2>2, ServerStays, AlertStays, ModalStays, CommandsStay DEF SameServer
<1>4. CASE PickRole
  <2>1. /\ SameServer /\ modal' = Closed
        /\ UNCHANGED <<roles, dbNames, lists, alert, pendingPwdRole, newPassword, cmds>>
        /\ cursor' = cursor \/ cursor' \in DOMAIN roles
    BY <1>4 DEF PickRole, loads
  <2>2. ListsTyped'
    BY <2>1 DEF ListsTyped
  <2> QED
    BY <2>1, <2>2, ClosedTyped, ServerStays, AlertStays, CommandsStay DEF SameServer
<1> QED
  BY <1>1, <1>2, <1>3, <1>4

LEMMA OpensTyped ==
  ASSUME TypeInv, OpensSomething
  PROVE  TypeInv'
<1> USE DEF TypeInv
<1>1. Selected.name \in Roles
  BY SelectedTyped
<1>2. ASSUME NEW kind \in {"menu", "drop", "limit", "attrs", "force"},
             Show([kind |-> kind, role |-> Selected.name])
      PROVE  TypeInv'
  <2>1. modal' = [kind |-> kind, role |-> Selected.name]
    BY <1>2 DEF Show
  <2> QED
    BY <1>1, <1>2, <2>1, NamedTyped, ShowTyped
<1>3. CASE OpenFinder
  <2>1. Show([kind |-> "find", items |-> Len(roles)])
    BY <1>3 DEF OpenFinder
  <2>2. ModalTyped'
    BY <2>1 DEF Show, ModalTyped, AboutRole
  <2> QED BY <2>1, <2>2, ShowTyped
<1>4. CASE OpenRoleMenu BY <1>2, <1>4 DEF OpenRoleMenu
<1>5. CASE OpenCreateForm
  <2>1. Show([kind |-> "create"])
    BY <1>5 DEF OpenCreateForm
  <2>2. ModalTyped'
    BY <2>1 DEF Show, ModalTyped, AboutRole
  <2> QED BY <2>1, <2>2, ShowTyped
<1>6. CASE OpenConnLimitForm BY <1>2, <1>6 DEF OpenConnLimitForm
<1>7. CASE OpenAttrsForm BY <1>2, <1>7 DEF OpenAttrsForm
<1>8. CASE AskDropRole BY <1>2, <1>8 DEF AskDropRole
<1>9. CASE OpenForceDropForm BY <1>2, <1>9 DEF OpenForceDropForm
<1>10. CASE AskResetPassword
  <2>1. /\ SameServer /\ modal' = [kind |-> "reset", role |-> Selected.name]
        /\ pendingPwdRole' = Selected.name
        /\ UNCHANGED <<roles, dbNames, lists, cursor, alert, newPassword, cmds>>
    BY <1>10 DEF AskResetPassword, loads
  <2>2. ModalTyped' /\ AlertTyped'
    BY <1>1, <2>1 DEF ModalTyped, AlertTyped, AboutRole
  <2> QED
    BY <2>1, <2>2, ServerStays, ListsStay, CommandsStay DEF SameServer
<1>11. CASE StartGrantFlow
  <2>1. PICK op : Show([kind |-> "pick db", role |-> Selected.name, verb |-> op])
    BY <1>11 DEF StartGrantFlow
  <2>2. ModalTyped'
    BY <1>1, <2>1 DEF Show, ModalTyped, AboutRole
  <2> QED BY <2>1, <2>2, ShowTyped
<1>12. CASE PickDB
  <2>1. PICK d \in dbNames :
          Show([kind |-> "scope", role |-> modal.role, verb |-> modal.verb, db |-> d])
    BY <1>12 DEF PickDB
  <2>2. modal.role \in Roles /\ d \in Databases
    BY <1>12 DEF PickDB, HasKeys, ModalTyped, ListsTyped, AboutRole
  <2>3. ModalTyped'
    BY <2>1, <2>2 DEF Show, ModalTyped, AboutRole
  <2> QED BY <2>1, <2>3, ShowTyped
<1>13. CASE OpenGrantConfirm
  <2>1. PICK scope \in Scopes :
          /\ modal.verb = "revoke" => scope # "owner"
          /\ Show([kind |-> "grant", role |-> modal.role, verb |-> modal.verb, db |-> modal.db,
                   schema |-> scope = "schema",
                   on |-> IF modal.verb = "revoke" THEN BuildRevoke(scope, modal.db, modal.role)
                          ELSE BuildGrant(scope, modal.db, modal.role)])
    BY <1>13 DEF OpenGrantConfirm, Scopes
  <2>2. modal.role \in Roles /\ modal.db \in Databases
    BY <1>13 DEF OpenGrantConfirm, HasKeys, ModalTyped, AboutRole
  <2> DEFINE on == IF modal.verb = "revoke" THEN BuildRevoke(scope, modal.db, modal.role)
                   ELSE BuildGrant(scope, modal.db, modal.role)
  <2>3. on.target \in Databases /\ on.list \in Seq(GrantQueries) /\ on.list # <<>>
    BY <2>1, <2>2, PresetsTyped
  <2>4. modal.verb = "revoke" /\ scope = "schema" => on = BuildRevoke("schema", modal.db, modal.role)
    OBVIOUS
  <2>5. modal' = [kind |-> "grant", role |-> modal.role, verb |-> modal.verb, db |-> modal.db,
                  schema |-> scope = "schema", on |-> on]
    BY <2>1 DEF Show
  <2> HIDE DEF on
  <2>6. ModalTyped'
    BY <2>2, <2>3, <2>4, <2>5 DEF ModalTyped, AboutRole
  <2> QED BY <2>1, <2>6, ShowTyped
<1> QED
  BY <1>3, <1>4, <1>5, <1>6, <1>7, <1>8, <1>9, <1>10, <1>11, <1>12, <1>13 DEF OpensSomething

\* A command starts; what else the key does is to close the modal.
LEMMA StartTyped ==
  ASSUME TypeInv, NEW c, Start(c), CommandOK(c)
  PROVE  CommandsTyped' /\ Standing(srv)' /\ lists' = lists
<1>1. srv' = srv /\ lists' = lists /\ cmds' = [cmds EXCEPT ![NextId] = c]
  BY DEF Start, loads
<1> QED
  BY <1>1 DEF TypeInv, CommandsTyped

LEMMA SubmitTyped ==
  ASSUME TypeInv, NEW c, Submit(c), CommandOK(c)
  PROVE  TypeInv'
<1>1. /\ Start(c) /\ modal' = Closed
      /\ UNCHANGED <<roles, dbNames, cursor, alert, pendingPwdRole, newPassword>>
  BY DEF Submit
<1> QED
  BY <1>1, StartTyped, ClosedTyped, ListsStay, AlertStays DEF TypeInv

\* A list of statements as it starts.
LEMMA StatementsTyped ==
  ASSUME NEW act, act \notin {"force-drop", "access"}, NEW r \in Roles, NEW d \in Databases,
         NEW list \in Seq(Queries), list # <<>>
  PROVE  RunsStatements(Statements(act, r, On(d, list)))
BY DEF RunsStatements, Statements, On

LEMMA OneStatement ==
  ASSUME NEW act, act \notin {"force-drop", "access"}, NEW r \in Roles, NEW q \in Queries
  PROVE  CommandOK(Statements(act, r, On(AdminDB, <<q>>)))
<1>1. <<q>> \in Seq(Queries) /\ <<q>> # <<>>
  OBVIOUS
<1>2. AdminDB \in Databases
  BY ServerConstants
<1>3. RunsStatements(Statements(act, r, On(AdminDB, <<q>>)))
  BY <1>1, <1>2, StatementsTyped
<1> QED BY <1>3 DEF CommandOK

LEMMA StartsTyped ==
  ASSUME TypeInv, StartsSomething
  PROVE  TypeInv'
<1> USE DEF TypeInv
<1>0. Selected.name \in Roles /\ Selected.attrs \subseteq Attributes /\ pendingPwdRole \in Roles
  BY SelectedTyped DEF AlertTyped
<1>1. CASE CreateRoleYes
  <2>1. PICK name \in Roles, on \in SUBSET (Attributes \ Powers) :
          Submit(Statements("create role", name, On(AdminDB, <<CreateRole(name, on)>>)))
    BY <1>1 DEF CreateRoleYes
  <2>2. CreateRole(name, on) \in Queries
    BY DEF CreateRole, Queries, RoleQueries
  <2> QED
    BY <2>1, <2>2, OneStatement, SubmitTyped
<1>2. CASE DropRoleYes
  <2>1. modal.role \in Roles
    BY <1>2 DEF DropRoleYes, HasKeys, ModalTyped, AboutRole
  <2>2. DropRole(modal.role) \in Queries
    BY <2>1 DEF DropRole, Queries, RoleQueries
  <2>3. Submit(Statements("drop role", modal.role, On(AdminDB, <<DropRole(modal.role)>>)))
    BY <1>2 DEF DropRoleYes, Named
  <2> QED
    BY <2>1, <2>2, <2>3, OneStatement, SubmitTyped
<1>3. CASE ResetPasswordYes
  <2> DEFINE n == NextId
             c == Statements("reset password", pendingPwdRole,
                             On(AdminDB, <<SetPassword(pendingPwdRole, n)>>))
  <2>1. /\ Start(c) /\ modal' = Closed /\ newPassword' = n
        /\ UNCHANGED <<roles, dbNames, cursor, alert, pendingPwdRole>>
    BY <1>3, Zenon DEF ResetPasswordYes
  <2>2. n \in Ids
    BY <2>1 DEF Start
  <2>3. n \in Nat /\ n \in 0 .. MaxCmds
    BY <2>2, TabConstants DEF Ids
  <2> HIDE DEF n
  <2>4. SetPassword(pendingPwdRole, n) \in Queries
    BY <1>0, <2>3 DEF SetPassword, Queries, RoleQueries
  <2>5. CommandOK(c)
    BY <1>0, <2>4, OneStatement
  <2>6. AlertTyped'
    BY <2>1, <2>3 DEF AlertTyped
  <2> HIDE DEF c
  <2> QED
    BY <2>1, <2>5, <2>6, StartTyped, ClosedTyped, ListsStay
<1>4. CASE ConnLimitYes
  <2>1. modal.role \in Roles
    BY <1>4 DEF ConnLimitYes, HasKeys, ModalTyped, AboutRole
  <2>2. SetLimit(modal.role) \in Queries
    BY <2>1 DEF SetLimit, Queries, RoleQueries
  <2>3. Submit(Statements("set connection limit", modal.role,
                          On(AdminDB, <<SetLimit(modal.role)>>)))
    BY <1>4 DEF ConnLimitYes
  <2> QED
    BY <2>1, <2>2, <2>3, OneStatement, SubmitTyped
<1>5. CASE AttrsYes
  <2>0. modal.role \in Roles
    BY <1>5 DEF AttrsYes, HasKeys, ModalTyped, AboutRole
  <2>1. PICK want \in SUBSET Attributes :
          LET list == BuildAlterRoleAttrs(modal.role, Selected.attrs, want)
          IN  \/ Show(Closed)
              \/ list # <<>> /\ Show([kind |-> "escalate", role |-> modal.role, list |-> list])
              \/ list # <<>> /\ Submit(Statements("alter role", modal.role, On(AdminDB, list)))
    BY <1>5, Zenon DEF AttrsYes
  <2> DEFINE list == BuildAlterRoleAttrs(modal.role, Selected.attrs, want)
             q == AlterRole(modal.role, want \ Selected.attrs, Selected.attrs \ want)
  <2>2. q \in Queries
    BY <1>0, <2>0 DEF AlterRole, Queries, RoleQueries
  <2>3. list # <<>> => list = <<q>>
    BY DEF BuildAlterRoleAttrs
  <2>4. list # <<>> => list \in Seq(Queries)
    <3> HIDE DEF list, q
    <3> QED BY <2>2, <2>3
  <2>5. CASE Show(Closed)
    BY <2>5, ClosedTyped, ShowTyped DEF Show
  <2>6. CASE list # <<>> /\ Show([kind |-> "escalate", role |-> modal.role, list |-> list])
    <3> HIDE DEF list
    <3>1. modal' = [kind |-> "escalate", role |-> modal.role, list |-> list]
      BY <2>6 DEF Show
    <3>2. ModalTyped'
      BY <2>0, <2>4, <2>6, <3>1 DEF ModalTyped, AboutRole
    <3> QED BY <2>6, <3>2, ShowTyped
  <2>7. CASE list # <<>> /\ Submit(Statements("alter role", modal.role, On(AdminDB, list)))
    <3> HIDE DEF list
    <3>1. AdminDB \in Databases
      BY ServerConstants
    <3>2. CommandOK(Statements("alter role", modal.role, On(AdminDB, list)))
      BY <2>0, <2>4, <2>7, <3>1, StatementsTyped DEF CommandOK
    <3> QED BY <2>7, <3>2, SubmitTyped
  <2> QED
    BY <2>1, <2>5, <2>6, <2>7
<1>6. CASE EscalateYes
  <2>1. modal.role \in Roles /\ modal.list \in Seq(Queries) /\ modal.list # <<>>
    BY <1>6 DEF EscalateYes, HasKeys, ModalTyped, AboutRole
  <2>2. AdminDB \in Databases
    BY ServerConstants
  <2>3. CommandOK(Statements("alter role", modal.role, On(AdminDB, modal.list)))
    BY <2>1, <2>2, StatementsTyped DEF CommandOK
  <2> QED
    BY <1>6, <2>3, SubmitTyped DEF EscalateYes
<1>7. CASE GrantYes
  <2> DEFINE s == Statements("grant", modal.role, modal.on)
             clears == IF modal.verb = "revoke" /\ modal.schema
                       THEN {<<modal.db, modal.role>>} ELSE {}
             c == [s EXCEPT !.clears = clears]
  <2>1. Submit(c)
    BY <1>7 DEF GrantYes
  <2>2. /\ modal.role \in Roles /\ modal.on.target \in Databases
        /\ modal.on.list \in Seq(GrantQueries) /\ modal.on.list # <<>>
    BY <1>7 DEF GrantYes, HasKeys, ModalTyped, AboutRole
  <2>3. modal.on.list \in Seq(Queries)
    BY <2>2 DEF Queries
  <2> HIDE DEF clears
  <2>4. RunsStatements(c)
    BY <2>2, <2>3 DEF RunsStatements, Statements
  <2> HIDE DEF c
  <2> QED
    BY <2>1, <2>4, SubmitTyped DEF CommandOK
<1>8. CASE ForceDropYes
  <2>1. PICK successor \in Roles : Submit(ForceDrop(modal.role, successor))
    BY <1>8 DEF ForceDropYes
  <2>2. modal.role \in Roles
    BY <1>8 DEF ForceDropYes, HasKeys, ModalTyped, AboutRole
  <2>3. DropsByForce(ForceDrop(modal.role, successor))
    BY <2>2 DEF DropsByForce, ForceDrop
  <2> QED
    BY <2>1, <2>3, SubmitTyped DEF CommandOK
<1>9. CASE OpenAccess
  <2>1. LooksForAccess(RoleAccess(Selected.name))
    BY <1>0 DEF LooksForAccess, RoleAccess
  <2> QED
    BY <1>9, <2>1, SubmitTyped DEF OpenAccess, CommandOK
<1> QED
  BY <1>1, <1>2, <1>3, <1>4, <1>5, <1>6, <1>7, <1>8, <1>9 DEF StartsSomething

\* Which kind a command is of.
LEMMA KindOf ==
  ASSUME CommandsTyped, NEW i \in Ids
  PROVE  /\ HasStatements(i) => RunsStatements(cmds[i])
         /\ ForcedDrop(cmds[i]) => DropsByForce(cmds[i])
         /\ Probe(cmds[i]) => LooksForAccess(cmds[i])
<1>1. CommandOK(cmds[i])
  BY DEF CommandsTyped
<1>2. cmds[i] \in {Unused, Over} => ~Active(cmds[i])
  BY DEF Unused, Over, Active
<1> QED
  BY <1>1, <1>2 DEF CommandOK, HasStatements, ForcedDrop, Probe, RunsStatements, DropsByForce,
                    LooksForAccess

\* A step of a command.
LEMMA StepTyped ==
  ASSUME TypeInv, CommandFrame, Standing(srv)', CommandsTyped'
  PROVE  TypeInv'
BY ListsStay, ModalStays, AlertStays DEF TypeInv, CommandFrame, ui, loads

LEMMA BecomesTyped ==
  ASSUME TypeInv, NEW i \in Ids, NEW c, Becomes(i, c), CommandOK(c)
  PROVE  CommandsTyped'
BY DEF TypeInv, CommandsTyped, Becomes

\* A command that goes on and does nothing to the server.
LEMMA OnTyped ==
  ASSUME TypeInv, NEW i \in Ids, NEW c, Becomes(i, c), CommandOK(c), CommandFrame, SameServer
  PROVE  TypeInv'
BY BecomesTyped, StepTyped, ServerStays DEF TypeInv, SameServer

\* Any command may end.
LEMMA FailedTyped ==
  ASSUME NEW c, CommandOK(c), c \notin {Unused, Over}
  PROVE  CommandOK([c EXCEPT !.pc = "failed"])
<1> DEFINE f == [c EXCEPT !.pc = "failed"]
<1>1. CASE RunsStatements(c)
  <2>1. RunsStatements(f)
    BY <1>1 DEF RunsStatements
  <2> QED BY <2>1 DEF CommandOK
<1>2. CASE DropsByForce(c)
  <2>1. DropsByForce(f)
    BY <1>2 DEF DropsByForce
  <2> QED BY <2>1 DEF CommandOK
<1>3. CASE LooksForAccess(c)
  <2>1. LooksForAccess(f)
    BY <1>3 DEF LooksForAccess
  <2> QED BY <2>1 DEF CommandOK
<1> QED
  BY <1>1, <1>2, <1>3 DEF CommandOK

\* What a statement that ran makes of the server and of the commands.
StillOne(given, c) == [c EXCEPT !.clears = @ \ given]
LEMMA RunMakes ==
  ASSUME CommandsTyped, NEW i \in Ids, RunStatement(i)
  PROVE  LET c == cmds[i]
             q == Head(c.todo)
             given == Gives(q, c.target)
         IN  /\ RunsStatements(c) /\ c.pc = "run" /\ q \in Queries /\ Accepts(srv, q)
             /\ srv' = After(srv, q, c.target) /\ CommandFrame
             /\ DOMAIN cmds' = Ids
             /\ \A j \in Ids : j # i =>
                  cmds'[j] = IF HasStatements(j) THEN StillOne(given, cmds[j]) ELSE cmds[j]
             /\ \/ /\ cmds'[i] = [StillOne(given, c) EXCEPT !.todo = Tail(c.todo),
                                    !.pc = IF Len(c.todo) = 1 THEN "answered" ELSE "run"]
                   /\ revoked' = (revoked \ given)
                                   \union (IF Len(c.todo) = 1 THEN c.clears ELSE {})
                \/ /\ cmds'[i] = [StillOne(given, c) EXCEPT !.pc = "failed"]
                   /\ revoked' = revoked \ given
<1> DEFINE c == cmds[i]
           q == Head(c.todo)
           given == Gives(q, c.target)
           still == StillClears(given)
           ends == Len(c.todo) = 1
<1>1. /\ HasStatements(i) /\ c.pc = "run" /\ Accepts(srv, q) /\ CommandFrame
      /\ srv' = After(srv, q, c.target)
      /\ \/ /\ cmds' = [still EXCEPT
                         ![i].todo = Tail(@), ![i].pc = IF ends THEN "answered" ELSE @]
            /\ revoked' = (revoked \ given) \union (IF ends THEN c.clears ELSE {})
         \/ /\ cmds' = [still EXCEPT ![i].pc = "failed"]
            /\ revoked' = revoked \ given
  BY Zenon DEF RunStatement, ServerBecomes
<1>2. RunsStatements(c) /\ q \in Queries
  <2>1. RunsStatements(c)
    BY <1>1, KindOf
  <2>2. c.todo \in Seq(Queries) /\ c.todo # <<>>
    BY <1>1, <2>1 DEF RunsStatements
  <2> QED
    BY <2>1, <2>2, FirstAndRest
<1> HIDE DEF given
<1>3. /\ DOMAIN still = Ids /\ i \in Ids
      /\ \A j \in Ids : still[j] = IF HasStatements(j) THEN StillOne(given, cmds[j]) ELSE cmds[j]
  BY DEF StillClears, StillOne
<1>4. /\ still[i] = StillOne(given, c) /\ DOMAIN StillOne(given, c) = DOMAIN c
      /\ StillOne(given, c).pc = "run" /\ StillOne(given, c).todo = c.todo
  BY <1>1, <1>2, <1>3 DEF StillOne, RunsStatements
<1> HIDE DEF still, ends
<1>5. CASE /\ cmds' = [still EXCEPT
                         ![i].todo = Tail(@), ![i].pc = IF ends THEN "answered" ELSE @]
           /\ revoked' = (revoked \ given) \union (IF ends THEN c.clears ELSE {})
  <2>1. /\ DOMAIN cmds' = Ids /\ \A j \in Ids : j # i => cmds'[j] = still[j]
    BY <1>3, <1>5
  <2>2. cmds'[i] = [still[i] EXCEPT !.todo = Tail(@), !.pc = IF ends THEN "answered" ELSE @]
    BY <1>3, <1>5
  <2>3. cmds'[i] = [StillOne(given, c) EXCEPT !.todo = Tail(c.todo),
                      !.pc = IF ends THEN "answered" ELSE "run"]
    BY <1>2, <1>4, <2>2 DEF RunsStatements
  <2> QED
    BY <1>1, <1>2, <1>3, <1>5, <2>1, <2>3 DEF ends, given
<1>6. CASE cmds' = [still EXCEPT ![i].pc = "failed"] /\ revoked' = revoked \ given
  <2>1. /\ DOMAIN cmds' = Ids /\ \A j \in Ids : j # i => cmds'[j] = still[j]
    BY <1>3, <1>6
  <2>2. cmds'[i] = [StillOne(given, c) EXCEPT !.pc = "failed"]
    BY <1>3, <1>4, <1>6
  <2> QED
    BY <1>1, <1>2, <1>3, <1>6, <2>1, <2>2 DEF given
<1> QED
  BY <1>1, <1>5, <1>6

LEMMA RunTyped ==
  ASSUME TypeInv, NEW i \in Ids, RunStatement(i)
  PROVE  TypeInv'
<1> USE DEF TypeInv
<1> DEFINE c == cmds[i]
           q == Head(c.todo)
           given == Gives(q, c.target)
<1>1. /\ RunsStatements(c) /\ c.pc = "run" /\ q \in Queries /\ Accepts(srv, q)
      /\ srv' = After(srv, q, c.target) /\ CommandFrame /\ DOMAIN cmds' = Ids
      /\ \A j \in Ids : j # i =>
           cmds'[j] = IF HasStatements(j) THEN StillOne(given, cmds[j]) ELSE cmds[j]
      /\ \/ cmds'[i] = [StillOne(given, c) EXCEPT !.todo = Tail(c.todo),
                          !.pc = IF Len(c.todo) = 1 THEN "answered" ELSE "run"]
         \/ cmds'[i] = [StillOne(given, c) EXCEPT !.pc = "failed"]
  BY RunMakes
<1> HIDE DEF q, given
<1>2. Standing(srv)'
  BY <1>1, QueriesSane, AfterStands DEF RunsStatements
<1>3. ASSUME NEW b, RunsStatements(b) PROVE RunsStatements(StillOne(given, b))
  BY <1>3 DEF RunsStatements, StillOne
<1>4. ASSUME NEW j \in Ids, j # i PROVE CommandOK(cmds'[j])
  BY <1>1, <1>3, <1>4, KindOf DEF CommandsTyped, CommandOK
<1>5. CommandOK(cmds'[i])
  <2> DEFINE b == StillOne(given, c)
  <2>1. RunsStatements(b) /\ b.todo = c.todo /\ c.todo # <<>> /\ c.todo \in Seq(Queries)
    BY <1>1, <1>3 DEF RunsStatements, StillOne
  <2> HIDE DEF b
  <2>2. Tail(c.todo) \in Seq(Queries) /\ (Len(c.todo) # 1 => Tail(c.todo) # <<>>)
    BY <2>1, FirstAndRest
  <2>3. ASSUME cmds'[i] = [b EXCEPT !.todo = Tail(c.todo),
                              !.pc = IF Len(c.todo) = 1 THEN "answered" ELSE "run"]
        PROVE  RunsStatements(cmds'[i])
    BY <2>1, <2>2, <2>3 DEF RunsStatements
  <2>4. ASSUME cmds'[i] = [b EXCEPT !.pc = "failed"]
        PROVE  RunsStatements(cmds'[i])
    BY <2>1, <2>4 DEF RunsStatements
  <2> QED
    BY <1>1, <2>3, <2>4 DEF CommandOK, b
<1> QED
  BY <1>1, <1>2, <1>4, <1>5, StepTyped DEF CommandsTyped

LEMMA ExecTyped ==
  ASSUME TypeInv, NEW i \in Ids, ExecStep(i)
  PROVE  TypeInv'
<1> USE DEF TypeInv
<1>0. CommandOK(cmds[i]) /\ (Active(cmds[i]) => cmds[i] \notin {Unused, Over})
  BY DEF CommandsTyped, Active, Unused, Over
<1>1. CASE GetPool(i)
  <2> DEFINE pc == IF HasStatements(i) THEN "run" ELSE IF Probe(cmds[i]) THEN "levels" ELSE "owned"
             c == [cmds[i] EXCEPT !.pc = pc]
  <2>1. cmds[i].pc = "pool" /\ Active(cmds[i]) /\ Becomes(i, c) /\ CommandFrame /\ SameServer
    BY <1>1 DEF GetPool, Active
  <2>2. CASE RunsStatements(cmds[i])
    <3>1. pc = "run"
      BY <2>1, <2>2 DEF RunsStatements, HasStatements, ForcedDrop, Probe
    <3> HIDE DEF pc
    <3>2. RunsStatements(c)
      BY <2>1, <2>2, <3>1 DEF RunsStatements
    <3> QED BY <2>1, <3>2, OnTyped DEF CommandOK
  <2>3. CASE DropsByForce(cmds[i])
    <3>1. pc = "owned"
      BY <2>1, <2>3 DEF DropsByForce, HasStatements, ForcedDrop, Probe
    <3> HIDE DEF pc
    <3>2. DropsByForce(c)
      BY <2>1, <2>3, <3>1 DEF DropsByForce
    <3> QED BY <2>1, <3>2, OnTyped DEF CommandOK
  <2>4. CASE LooksForAccess(cmds[i])
    <3>1. pc = "levels"
      BY <2>1, <2>4 DEF LooksForAccess, HasStatements, ForcedDrop, Probe
    <3> HIDE DEF pc
    <3>2. LooksForAccess(c)
      BY <2>1, <2>4, <3>1 DEF LooksForAccess
    <3> QED BY <2>1, <3>2, OnTyped DEF CommandOK
  <2> QED
    BY <1>0, <2>1, <2>2, <2>3, <2>4 DEF CommandOK
<1>2. CASE RunStatement(i)
  BY <1>2, RunTyped
<1>3. CASE RefuseStatement(i) \/ CommandFails(i)
  <2>1. /\ Active(cmds[i]) /\ Becomes(i, [cmds[i] EXCEPT !.pc = "failed"])
        /\ CommandFrame /\ SameServer
    BY <1>3 DEF RefuseStatement, CommandFails, HasStatements
  <2> QED
    BY <1>0, <2>1, FailedTyped, OnTyped
<1> QED
  BY <1>1, <1>2, <1>3 DEF ExecStep

\* A statement of a forced drop.
LEMMA AttemptTyped ==
  ASSUME TypeInv, NEW i \in Ids, NEW q, Sane(q), NEW d \in Databases, NEW done, NEW failed,
         Attempt(i, q, d, done, failed), CommandOK(done), CommandOK(failed)
  PROVE  TypeInv'
<1>1. CASE Accepts(srv, q) /\ ServerBecomes(After(srv, q, d)) /\ Becomes(i, done)
  <2>1. Standing(srv)'
    BY <1>1, AfterStands DEF TypeInv, ServerBecomes
  <2>2. CommandsTyped' /\ CommandFrame
    BY <1>1, BecomesTyped DEF Attempt
  <2> QED
    BY <2>1, <2>2, StepTyped
<1>2. CASE SameServer /\ Becomes(i, failed)
  BY <1>2, OnTyped DEF Attempt
<1> QED
  BY <1>1, <1>2, Zenon DEF Attempt

\* Where a forced drop goes on.
LEMMA GoesOnTyped ==
  ASSUME NEW c, DropsByForce(c)
  PROVE  /\ \A list \in Seq(Databases) : CommandOK(NextOwned(c, list))
         /\ \A pc \in {"answered", "failed"} : CommandOK([c EXCEPT !.pc = pc])
         /\ CommandOK([c EXCEPT !.dbs = DatabaseOrder, !.pc = "visit"])
         /\ c.dbs # <<>> => /\ CommandOK(NextDatabase(c))
                            /\ \A pc \in {"reassign", "drop owned"} :
                                 CommandOK([c EXCEPT !.pc = pc])
<1>1. ASSUME NEW list \in Seq(Databases) PROVE DropsByForce(NextOwned(c, list))
  BY DEF DropsByForce, NextOwned
<1>2. ASSUME NEW pc \in {"answered", "failed"} PROVE DropsByForce([c EXCEPT !.pc = pc])
  BY DEF DropsByForce
<1>3. DropsByForce([c EXCEPT !.dbs = DatabaseOrder, !.pc = "visit"])
  BY TabConstants DEF DropsByForce
<1>4. ASSUME c.dbs # <<>> PROVE DropsByForce(NextDatabase(c))
  <2>1. Tail(c.dbs) \in Seq(Databases)
    BY <1>4, FirstAndRest DEF DropsByForce
  <2> QED
    BY <2>1 DEF DropsByForce, NextDatabase
<1>5. ASSUME c.dbs # <<>>, NEW pc \in {"reassign", "drop owned"}
      PROVE  DropsByForce([c EXCEPT !.pc = pc])
  BY <1>5 DEF DropsByForce
<1> QED
  BY <1>1, <1>2, <1>3, <1>4, <1>5 DEF CommandOK

LEMMA ForceDropTyped ==
  ASSUME TypeInv, NEW i \in Ids, ForceDropStep(i)
  PROVE  TypeInv'
<1> USE DEF TypeInv
<1> DEFINE c == cmds[i]
<1>0. /\ DropsByForce(c) /\ AdminDB \in Databases
      /\ c.dbs \in Seq(Databases)
      /\ c.dbs # <<>> => Head(c.dbs) \in Databases /\ Tail(c.dbs) \in Seq(Databases)
  <2>1. ForcedDrop(c)
    BY DEF ForceDropStep, DatabasesOwnedBy, AlterOwner, ConnectableDatabases, VisitDatabase,
           ReassignOwned, DropWhatIsOwned, DropTheRole, At
  <2>2. DropsByForce(c)
    BY <2>1, KindOf
  <2>3. c.dbs \in Seq(Databases)
    BY <2>2 DEF DropsByForce
  <2> QED
    BY <2>2, <2>3, FirstAndRest, ServerConstants
<1>1. CASE DatabasesOwnedBy(i)
  <2> DEFINE list == Only(DatabaseOrder, {d \in Databases : srv.owner[d] = c.role})
  <2>1. list \in Seq(Databases \cap {d \in Databases : srv.owner[d] = c.role})
    BY TabConstants, OnlyKeeps
  <2>2. list \in Seq(Databases)
    BY <2>1
  <2>3. Becomes(i, NextOwned(c, list)) /\ CommandFrame /\ SameServer
    BY <1>1 DEF DatabasesOwnedBy, Learn
  <2> HIDE DEF list
  <2> QED
    BY <1>0, <2>2, <2>3, GoesOnTyped, OnTyped
<1>2. CASE AlterOwner(i)
  <2>1. c.dbs # <<>> /\ c.role \in Roles /\ c.to \in Roles
    BY <1>0, <1>2 DEF AlterOwner, At, DropsByForce
  <2>2. Sane(OwnDatabase(Head(c.dbs), c.to))
    BY <1>0, <2>1 DEF OwnDatabase, Sane
  <2>3. CommandOK(NextOwned(c, Tail(c.dbs)))
    BY <1>0, <2>1, GoesOnTyped
  <2>4. Attempt(i, OwnDatabase(Head(c.dbs), c.to), AdminDB, NextOwned(c, Tail(c.dbs)),
                NextOwned(c, Tail(c.dbs)))
    BY <1>2 DEF AlterOwner
  <2> QED
    BY <1>0, <2>2, <2>3, <2>4, AttemptTyped
<1>3. CASE ConnectableDatabases(i)
  <2>1. /\ Becomes(i, [c EXCEPT !.dbs = DatabaseOrder, !.pc = "visit"])
        /\ CommandFrame /\ SameServer
    BY <1>3 DEF ConnectableDatabases, Learn
  <2> QED
    BY <1>0, <2>1, GoesOnTyped, OnTyped
<1>4. CASE VisitDatabase(i)
  <2>1. c.dbs # <<>> /\ CommandFrame /\ SameServer
    BY <1>4 DEF VisitDatabase, Learn
  <2>2. Becomes(i, [c EXCEPT !.pc = "reassign"]) \/ Becomes(i, NextDatabase(c))
    BY <1>4 DEF VisitDatabase, Learn
  <2>3. CommandOK([c EXCEPT !.pc = "reassign"]) /\ CommandOK(NextDatabase(c))
    BY <1>0, <2>1, GoesOnTyped
  <2> QED
    BY <2>1, <2>2, <2>3, OnTyped
<1>5. CASE ReassignOwned(i)
  <2>1. c.dbs # <<>> /\ c.role \in Roles /\ c.to \in Roles
    BY <1>0, <1>5 DEF ReassignOwned, At, DropsByForce
  <2>2. Sane(Reassign(c.role, c.to))
    BY <2>1 DEF Reassign, Sane
  <2>3. CommandOK([c EXCEPT !.pc = "drop owned"]) /\ CommandOK(NotReassigned(c))
    BY <1>0, <2>1, GoesOnTyped DEF NotReassigned
  <2>4. Attempt(i, Reassign(c.role, c.to), Head(c.dbs), [c EXCEPT !.pc = "drop owned"],
                NotReassigned(c))
    BY <1>5 DEF ReassignOwned, ReassignedIn
  <2> QED
    BY <1>0, <2>1, <2>2, <2>3, <2>4, AttemptTyped
<1>6. CASE DropWhatIsOwned(i)
  <2>1. c.dbs # <<>> /\ c.role \in Roles
    BY <1>0, <1>6 DEF DropWhatIsOwned, At, DropsByForce
  <2>2. Sane(DropOwned(c.role))
    BY <2>1 DEF DropOwned, Sane
  <2>3. CommandOK(NextDatabase(c))
    BY <1>0, <2>1, GoesOnTyped
  <2>4. Attempt(i, DropOwned(c.role), Head(c.dbs), NextDatabase(c), NextDatabase(c))
    BY <1>6 DEF DropWhatIsOwned
  <2> QED
    BY <1>0, <2>1, <2>2, <2>3, <2>4, AttemptTyped
<1>7. CASE DropTheRole(i)
  <2>1. c.role \in Roles
    BY <1>0 DEF DropsByForce
  <2>2. Sane(DropRole(c.role))
    BY <2>1 DEF DropRole, Sane
  <2>3. CommandOK([c EXCEPT !.pc = "answered"]) /\ CommandOK([c EXCEPT !.pc = "failed"])
    BY <1>0, GoesOnTyped
  <2>4. Attempt(i, DropRole(c.role), AdminDB, [c EXCEPT !.pc = "answered"],
                [c EXCEPT !.pc = "failed"])
    BY <1>7 DEF DropTheRole
  <2> QED
    BY <1>0, <2>2, <2>3, <2>4, AttemptTyped
<1> QED
  BY <1>1, <1>2, <1>3, <1>4, <1>5, <1>6, <1>7 DEF ForceDropStep

\* The report as it goes on to the next database.
LEMMA NextReportTyped ==
  ASSUME NEW c, LooksForAccess(c), c.dbs # <<>>, NEW more \in SUBSET Databases
  PROVE  /\ LooksForAccess(NextReport(c, more))
         /\ NextReport(c, more).found = c.found \union more
         /\ NextReport(c, more).dbs = Tail(c.dbs)
         /\ NextReport(c, more).pc = IF Len(c.dbs) = 1 THEN "answered" ELSE "schemas"
<1> DEFINE n == NextReport(c, more)
           pc == IF Len(c.dbs) = 1 THEN "answered" ELSE "schemas"
<1>1. /\ Tail(c.dbs) \in Seq(Databases) /\ (pc = "schemas" => Tail(c.dbs) # <<>>)
      /\ c.found \union more \subseteq Databases
  BY FirstAndRest DEF LooksForAccess
<1>2. /\ DOMAIN n = DOMAIN c /\ n.act = c.act /\ n.role = c.role /\ n.dbs = Tail(c.dbs)
      /\ n.found = c.found \union more /\ n.pc = pc
  BY DEF NextReport, FoundToo, LooksForAccess
<1> HIDE DEF n
<1> QED
  BY <1>1, <1>2 DEF LooksForAccess, n

LEMMA ProbeTyped ==
  ASSUME TypeInv, NEW i \in Ids, ReadLevels(i) \/ ReadSchema(i) \/ ReadTables(i)
  PROVE  TypeInv'
<1> DEFINE c == cmds[i]
<1>0. /\ Probe(c) /\ LooksForAccess(c) /\ CommandFrame /\ SameServer
      /\ c.pc \in {"schemas", "tables"} => c.dbs # <<>> /\ Head(c.dbs) \in Databases
  <2>1. Probe(c) /\ CommandFrame /\ SameServer
    BY DEF ReadLevels, ReadSchema, ReadTables, Unreadable, Learn
  <2>2. LooksForAccess(c)
    BY <2>1, KindOf DEF TypeInv
  <2>3. c.dbs \in Seq(Databases) /\ (c.pc \in {"schemas", "tables"} => c.dbs # <<>>)
    BY <2>2 DEF LooksForAccess
  <2> QED
    BY <2>1, <2>2, <2>3, FirstAndRest
<1>1. ASSUME NEW more \in SUBSET Databases, c.pc \in {"schemas", "tables"},
             Becomes(i, NextReport(c, more))
      PROVE  TypeInv'
  <2>1. CommandOK(NextReport(c, more))
    BY <1>0, <1>1, NextReportTyped DEF CommandOK
  <2> QED
    BY <1>0, <1>1, <2>1, OnTyped
<1>2. CASE ReadLevels(i)
  <2> DEFINE found == {d \in Databases : DatabaseAccess(srv, d, c.role)}
             b == [c EXCEPT !.pc = "schemas", !.dbs = DatabaseOrder, !.found = found]
  <2>1. Becomes(i, b)
    BY <1>2 DEF ReadLevels, Learn
  <2>2. DatabaseOrder \in Seq(Databases) /\ DatabaseOrder # <<>>
    BY TabConstants, ServerConstants
  <2>3. found \subseteq Databases
    OBVIOUS
  <2> HIDE DEF found
  <2>4. LooksForAccess(b)
    BY <1>0, <2>2, <2>3 DEF LooksForAccess
  <2> QED
    BY <1>0, <2>1, <2>4, OnTyped DEF CommandOK
<1>3. CASE Unreadable(i) /\ c.pc \in {"schemas", "tables"}
  BY <1>0, <1>1, <1>3 DEF Unreadable
<1>4. CASE ReadSchema(i) /\ ~Unreadable(i)
  <2> DEFINE more == IF SchemaAccess(srv, Head(c.dbs), c.role) THEN {Head(c.dbs)} ELSE {}
             b == [c EXCEPT !.found = FoundToo(c, more), !.pc = "tables"]
  <2>1. Becomes(i, b) /\ c.pc = "schemas"
    BY <1>4 DEF ReadSchema, Learn
  <2>2. more \subseteq Databases
    BY <1>0, <2>1
  <2> HIDE DEF more
  <2>3. LooksForAccess(b)
    BY <1>0, <2>1, <2>2 DEF LooksForAccess, FoundToo
  <2> QED
    BY <1>0, <2>1, <2>3, OnTyped DEF CommandOK
<1>5. CASE ReadTables(i) /\ ~Unreadable(i)
  <2> DEFINE more == IF TableAccess(srv, Head(c.dbs), c.role) THEN {Head(c.dbs)} ELSE {}
  <2>1. Becomes(i, NextReport(c, more)) /\ c.pc = "tables"
    BY <1>5 DEF ReadTables, Learn
  <2>2. more \subseteq Databases
    BY <1>0, <2>1
  <2> QED
    BY <1>1, <2>1, <2>2
<1> QED
  BY <1>2, <1>3, <1>4, <1>5 DEF ReadSchema, ReadTables

LEMMA AnswersTyped ==
  ASSUME TypeInv, NEW i \in Ids, ExecMsg(i) \/ RoleAccessMsg(i)
  PROVE  TypeInv'
<1> USE DEF TypeInv
<1>1. Answer(i)
  BY DEF ExecMsg, RoleAccessMsg
<1>2. /\ cmds' = [cmds EXCEPT ![i] = Over] /\ srv' = srv
      /\ UNCHANGED <<roles, dbNames, cursor, modal, pendingPwdRole, lists>>
  BY <1>1 DEF Answer
<1>3. CommandsTyped' /\ Standing(srv)' /\ ListsTyped' /\ ModalTyped'
  <2>1. CommandOK(Over)
    BY DEF CommandOK
  <2>2. CommandsTyped'
    BY <1>2, <2>1 DEF CommandsTyped
  <2> QED
    BY <1>2, <2>2, ListsStay, ModalStays
<1>4. /\ Ended(cmds[i]) /\ CommandOK(cmds[i]) /\ cmds[i].role \in Roles
      /\ Probe(cmds[i]) => LooksForAccess(cmds[i])
  <2>1. Ended(cmds[i]) /\ CommandOK(cmds[i])
    BY DEF ExecMsg, RoleAccessMsg, CommandsTyped
  <2>2. cmds[i] \notin {Unused, Over}
    BY <2>1 DEF Ended, Unused, Over
  <2> QED
    BY <2>1, <2>2, KindOf DEF CommandOK, RunsStatements, DropsByForce, LooksForAccess
<1>5. ASSUME NEW kind, NEW r \in Roles, NEW p \in 0 .. MaxCmds, NEW dbs \in SUBSET Databases,
             alert' = Alert(kind, r, p, dbs), newPassword' \in {newPassword, 0}
      PROVE  AlertTyped'
  <2>1. alert'.role = r /\ alert'.pwd = p /\ alert'.dbs = dbs
    BY <1>5 DEF Alert
  <2>2. 0 \in 0 .. MaxCmds
    BY TabConstants
  <2> QED
    BY <1>2, <1>5, <2>1, <2>2 DEF AlertTyped
<1>6. 0 \in 0 .. MaxCmds /\ {} \in SUBSET Databases
  BY TabConstants
<1>7. CASE ExecMsg(i)
  <2>1. CASE cmds[i].pc = "failed"
    <3>1. alert' = Alert("error", cmds[i].role, 0, {}) /\ newPassword' = newPassword
      BY <1>7, <2>1 DEF ExecMsg
    <3>2. AlertTyped'
      BY <1>4, <1>5, <1>6, <3>1
    <3> QED BY <1>3, <3>2
  <2>2. CASE cmds[i].pc # "failed" /\ IsReset(cmds[i]) /\ newPassword # 0
    <3>1. alert' = Alert("password", pendingPwdRole, newPassword, {}) /\ newPassword' = 0
      BY <1>7, <2>2 DEF ExecMsg
    <3>2. pendingPwdRole \in Roles /\ newPassword \in 0 .. MaxCmds
      BY DEF AlertTyped
    <3>3. AlertTyped'
      BY <1>5, <1>6, <3>1, <3>2
    <3> QED BY <1>3, <3>3
  <2>3. CASE cmds[i].pc # "failed" /\ ~(IsReset(cmds[i]) /\ newPassword # 0)
    <3>1. UNCHANGED <<alert, newPassword>>
      BY <1>7, <2>3 DEF ExecMsg
    <3> QED BY <1>2, <1>3, <3>1, AlertStays
  <2> QED
    BY <2>1, <2>2, <2>3
<1>8. CASE RoleAccessMsg(i)
  <2>1. /\ newPassword' = newPassword /\ cmds[i].found \subseteq Databases
        /\ \/ alert' = Alert("error", cmds[i].role, 0, {})
           \/ alert' = Alert("access", cmds[i].role, 0, cmds[i].found)
    BY <1>4, <1>8 DEF RoleAccessMsg, LooksForAccess
  <2>2. AlertTyped'
    BY <1>4, <1>5, <1>6, <2>1
  <2> QED BY <1>3, <2>2
<1> QED
  BY <1>7, <1>8

LEMMA OthersTyped ==
  ASSUME TypeInv, OtherAlters \/ OtherCreates \/ OtherExecMsg
  PROVE  TypeInv'
<1> USE DEF TypeInv
<1>1. UNCHANGED <<roles, dbNames, cursor, modal, pendingPwdRole, newPassword, lists, cmds>>
  BY DEF OtherAlters, OtherCreates, OtherExecMsg, OtherFrame
<1>2. ListsTyped' /\ ModalTyped' /\ CommandsTyped'
  BY <1>1, ListsStay, ModalStays, CommandsStay, Zenon DEF ListsTyped
<1>3. CASE OtherAlters
  <2>1. PICK r \in srv.roles \ {Me}, on \in SUBSET Attributes : srv' = [srv EXCEPT !.attrs[r] = on]
    BY <1>3 DEF OtherAlters, ServerBecomes
  <2>2. srv \in Servers /\ Me \in srv.roles /\ \A p \in srv.acl : srv.at[p[1]] # Nowhere
    BY DEF Standing
  <2>3. Standing(srv)'
    BY <2>1, <2>2 DEF Standing, Servers
  <2>4. AlertTyped'
    BY <1>1, <1>3, AlertStays DEF OtherAlters
  <2> QED BY <1>2, <2>3, <2>4
<1>4. CASE OtherCreates
  <2>1. PICK o \in ObjectsIn(srv, Nowhere), d \in Databases, r \in srv.roles :
          srv' = Created(srv, o, d, r)
    BY <1>4 DEF OtherCreates, ServerBecomes
  <2>2. Standing(srv)'
    BY <2>1, CreatedStands
  <2>3. AlertTyped'
    BY <1>1, <1>4, AlertStays DEF OtherCreates
  <2> QED BY <1>2, <2>2, <2>3
<1>5. CASE OtherExecMsg
  <2>1. srv' = srv /\ (alert' = Alert("error", Me, 0, {}) \/ alert' = alert)
    BY <1>5 DEF OtherExecMsg, SameServer
  <2>2. Me \in Roles /\ 0 \in 0 .. MaxCmds
    BY ServerConstants, TabConstants
  <2>3. AlertTyped'
    BY <1>1, <2>1, <2>2 DEF AlertTyped, Alert
  <2> QED BY <1>2, <2>1, <2>3
<1> QED
  BY <1>3, <1>4, <1>5

LEMMA InitTyped == Init => TypeInv
<1> SUFFICES ASSUME Init PROVE TypeInv
  OBVIOUS
<1>1. Standing(srv)
  BY TabConstants DEF Init, Standing
<1>2. ListsTyped
  BY DEF Init, ListsTyped
<1>3. ModalTyped
  BY DEF Init, ModalTyped, Closed, AboutRole
<1>4. AlertTyped
  BY ServerConstants, TabConstants DEF Init, AlertTyped, NoAlert
<1>5. CommandsTyped
  BY DEF Init, CommandsTyped, CommandOK
<1> QED
  BY <1>1, <1>2, <1>3, <1>4, <1>5 DEF TypeInv

LEMMA NextTyped == TypeInv /\ [Next]_vars => TypeInv'
<1> SUFFICES ASSUME TypeInv, [Next]_vars PROVE TypeInv'
  OBVIOUS
<1>1. CASE ReadRoles \/ LoadFails \/ RolesMsg \/ DatabasesMsg
  BY <1>1, LoadsTyped
<1>2. CASE Cancel \/ CloseAlert \/ MoveCursor \/ Refresh \/ PickRole
  BY <1>2, KeysTyped
<1>3. CASE OpensSomething
  BY <1>3, OpensTyped
<1>4. CASE StartsSomething
  BY <1>4, StartsTyped
<1>5. ASSUME NEW i \in Ids, CommandStep(i) PROVE TypeInv'
  BY <1>5, ExecTyped, ForceDropTyped, ProbeTyped, AnswersTyped DEF CommandStep
<1>6. CASE OtherAlters \/ OtherCreates \/ OtherExecMsg
  BY <1>6, OthersTyped
<1>7. CASE UNCHANGED vars
  <2>1. UNCHANGED <<srv, roles, dbNames, cursor, modal, alert, pendingPwdRole, newPassword, lists,
                    cmds>>
    BY <1>7 DEF vars, ui, loads
  <2> QED
    BY <2>1, ListsStay, ModalStays, AlertStays, CommandsStay DEF TypeInv
<1> QED
  BY <1>1, <1>2, <1>3, <1>4, <1>5, <1>6, <1>7 DEF Next

LEMMA TypesAlways == Spec => []TypeInv
<1>1. Init => TypeInv
  BY InitTyped
<1>2. TypeInv /\ [Next]_vars => TypeInv'
  BY NextTyped
<1> QED
  BY <1>1, <1>2, PTL DEF Spec

\* The state of the Roles tab has its type: the server stays one through every list of
\* statements and every failure, the cursor is on a row whenever there is one, and a
\* modal names a role if it is about one.
THEOREM TypesOfTheRoles == Spec => []TypeOK
<1>1. TypeInv => TypeOK
  <2> SUFFICES ASSUME TypeInv PROVE TypeOK
    OBVIOUS
  <2>1. \A k \in DOMAIN roles : roles[k] \in Rows
    BY DEF TypeInv, ListsTyped
  <2>2. "role" \in DOMAIN modal => modal.role \in Roles
    BY DEF TypeInv, ModalTyped
  <2>3. ASSUME NEW i \in Ids PROVE cmds[i].role \in Roles /\ cmds[i].pc \in Stages
    <3>1. CommandOK(cmds[i])
      BY DEF TypeInv, CommandsTyped
    <3>2. CASE cmds[i] \in {Unused, Over}
      <4>1. /\ Unused.role = Me /\ Unused.pc = "unused"
            /\ Over.role = Me /\ Over.pc = "over"
        BY DEF Unused, Over
      <4> QED
        BY <3>2, <4>1, ServerConstants DEF Stages
    <3>3. CASE RunsStatements(cmds[i])
      BY <3>3 DEF RunsStatements, Stages
    <3>4. CASE DropsByForce(cmds[i])
      BY <3>4 DEF DropsByForce, Stages
    <3>5. CASE LooksForAccess(cmds[i])
      BY <3>5 DEF LooksForAccess, Stages
    <3> QED
      BY <3>1, <3>2, <3>3, <3>4, <3>5 DEF CommandOK
  <2> QED
    BY <2>1, <2>2, <2>3 DEF TypeOK, TypeInv, Standing, ListsTyped, AlertTyped
<1> QED
  BY <1>1, TypesAlways, PTL

----------------------------------------------------------------------------
(* What starts is what was confirmed.                                      *)

\* Only a key starts a command.
LEMMA StaysUnused ==
  ASSUME TypeInv, Next, ~StartsSomething, NEW i \in Ids, cmds[i] = Unused
  PROVE  cmds'[i] = Unused
<1>0. ~Active(cmds[i]) /\ DOMAIN cmds = Ids
  BY DEF Active, Unused, TypeInv, CommandsTyped
<1>1. ASSUME NEW j \in Ids, CommandStep(j) PROVE cmds'[i] = cmds[i]
  <2>1. CASE RunStatement(j)
    <3>1. j # i
      BY <1>0, <2>1 DEF RunStatement, HasStatements
    <3> QED
      BY <1>0, <2>1, <3>1, RunMakes DEF TypeInv, HasStatements
  <2>2. ASSUME NEW c, Becomes(j, c), Active(cmds[j]) PROVE cmds'[i] = cmds[i]
    BY <1>0, <2>2 DEF Becomes
  <2>3. CASE GetPool(j) \/ RefuseStatement(j) \/ CommandFails(j)
    BY <2>2, <2>3 DEF GetPool, RefuseStatement, CommandFails, HasStatements, Active
  <2>4. CASE ForceDropStep(j)
    BY <2>2, <2>4 DEF ForceDropStep, DatabasesOwnedBy, AlterOwner, ConnectableDatabases,
         VisitDatabase, ReassignOwned, DropWhatIsOwned, DropTheRole, Learn, Attempt, At, ForcedDrop
  <2>5. CASE ReadLevels(j) \/ ReadSchema(j) \/ ReadTables(j)
    BY <2>2, <2>5 DEF ReadLevels, ReadSchema, ReadTables, Unreadable, Learn, Probe
  <2>6. CASE ExecMsg(j) \/ RoleAccessMsg(j)
    <3>1. Answer(j) /\ Ended(cmds[j])
      BY <2>6 DEF ExecMsg, RoleAccessMsg
    <3>2. j # i
      BY <3>1 DEF Ended, Unused
    <3> QED
      BY <1>0, <3>1, <3>2 DEF Answer
  <2> QED
    BY <1>1, <2>1, <2>3, <2>4, <2>5, <2>6 DEF CommandStep, ExecStep
<1>2. CASE ReadRoles \/ LoadFails \/ RolesMsg \/ DatabasesMsg
  BY <1>2 DEF ReadRoles, LoadFails, RolesMsg, DatabasesMsg
<1>3. CASE Cancel \/ CloseAlert \/ MoveCursor \/ Refresh \/ PickRole
  BY <1>3 DEF Cancel, Show, CloseAlert, MoveCursor, Refresh, PickRole
<1>4. CASE OpensSomething
  BY <1>4 DEF OpensSomething, OpenFinder, OpenRoleMenu, OpenCreateForm, OpenConnLimitForm,
     OpenAttrsForm, AskDropRole, AskResetPassword, StartGrantFlow, PickDB, OpenGrantConfirm,
     OpenForceDropForm, Show
<1>5. CASE OtherAlters \/ OtherCreates \/ OtherExecMsg
  BY <1>5 DEF OtherAlters, OtherCreates, OtherExecMsg, OtherFrame
<1> QED
  BY <1>1, <1>2, <1>3, <1>4, <1>5 DEF Next

LEMMA StartIs ==
  ASSUME TypeInv, NEW c, Start(c), NEW i \in Ids, cmds'[i] # cmds[i]
  PROVE  cmds'[i] = c
BY DEF TypeInv, CommandsTyped, Start

\* Whether a list of statements gives somebody power over every row.
LEMMA PowerOfOne ==
  ASSUME NEW act, NEW r, NEW q,
         q.op \in {"alter role", "create role"} => q.on \intersect Powers = {}
  PROVE  ~Powerful(Statements(act, r, On(AdminDB, <<q>>)))
<1>1. Statements(act, r, On(AdminDB, <<q>>)).todo = <<q>>
  BY DEF Statements, On
<1>2. DOMAIN <<q>> = {1} /\ <<q>>[1] = q
  BY OneElement
<1> QED
  BY <1>1, <1>2 DEF Powerful

Confirmed(c) ==
  /\ "role" \in DOMAIN modal /\ modal.kind # "menu" => c.role = modal.role
  /\ "todo" \in DOMAIN c /\ Powerful(c) => modal.kind = "escalate"

LEMMA OneConfirmed ==
  ASSUME NEW act, NEW r, NEW q,
         q.op \in {"alter role", "create role"} => q.on \intersect Powers = {},
         "role" \in DOMAIN modal => r = modal.role
  PROVE  Confirmed(Statements(act, r, On(AdminDB, <<q>>)))
<1> DEFINE c == Statements(act, r, On(AdminDB, <<q>>))
<1>1. c.role = r
  BY DEF Statements
<1>2. ~Powerful(c)
  BY PowerOfOne
<1>3. Confirmed(c)
  <2> HIDE DEF c
  <2> QED BY <1>1, <1>2 DEF Confirmed
<1> QED
  BY <1>3

LEMMA StartsConfirmed ==
  ASSUME TypeInv, StartsSomething, NEW i \in Ids, cmds'[i] # cmds[i]
  PROVE  Confirmed(cmds'[i])
<1>0. ASSUME NEW c, Submit(c), Confirmed(c) PROVE Confirmed(cmds'[i])
  BY <1>0, StartIs DEF Submit
<1>a. \A act, r, on : Statements(act, r, on).role = r
  BY DEF Statements
<1>b. /\ modal.kind \in AboutRole <=> "role" \in DOMAIN modal
      /\ modal.kind = "reset" => modal.role = pendingPwdRole
      /\ modal.kind = "grant" => modal.on.list \in Seq(GrantQueries)
  BY DEF TypeInv, ModalTyped
<1>1. CASE CreateRoleYes
  <2>1. PICK name \in Roles, on \in SUBSET (Attributes \ Powers) :
          Submit(Statements("create role", name, On(AdminDB, <<CreateRole(name, on)>>)))
    BY <1>1 DEF CreateRoleYes
  <2>2. "role" \notin DOMAIN modal
    BY <1>1, <1>b DEF CreateRoleYes, HasKeys, AboutRole
  <2>3. CreateRole(name, on).on \intersect Powers = {}
    BY DEF CreateRole
  <2> QED
    BY <1>0, <2>1, <2>2, <2>3, OneConfirmed
<1>2. CASE DropRoleYes
  <2>1. Submit(Statements("drop role", modal.role, On(AdminDB, <<DropRole(modal.role)>>)))
    BY <1>2 DEF DropRoleYes, Named
  <2>2. DropRole(modal.role).op \notin {"alter role", "create role"}
    BY DEF DropRole
  <2> QED
    BY <1>0, <2>1, <2>2, OneConfirmed
<1>3. CASE ResetPasswordYes
  <2> DEFINE q == SetPassword(pendingPwdRole, NextId)
             c == Statements("reset password", pendingPwdRole, On(AdminDB, <<q>>))
  <2>1. Start(c)
    BY <1>3, Zenon DEF ResetPasswordYes
  <2>2. q.op = "password" /\ modal.role = pendingPwdRole
    BY <1>3, <1>b DEF SetPassword, ResetPasswordYes, HasKeys
  <2>3. c.role = pendingPwdRole /\ ~Powerful(c)
    <3>1. q.op \notin {"alter role", "create role"}
      BY <2>2
    <3> HIDE DEF q
    <3>2. ~Powerful(c)
      BY <3>1, PowerOfOne
    <3> QED BY <1>a, <3>2
  <2> HIDE DEF c
  <2>4. Confirmed(c)
    BY <2>2, <2>3 DEF Confirmed
  <2>5. cmds'[i] = c
    BY <2>1, StartIs
  <2> QED
    BY <2>4, <2>5
<1>4. CASE ConnLimitYes
  <2>1. Submit(Statements("set connection limit", modal.role,
                          On(AdminDB, <<SetLimit(modal.role)>>)))
    BY <1>4 DEF ConnLimitYes
  <2>2. SetLimit(modal.role).op \notin {"alter role", "create role"}
    BY DEF SetLimit
  <2> QED
    BY <1>0, <2>1, <2>2, OneConfirmed
<1>5. CASE AttrsYes
  <2>1. PICK want \in SUBSET Attributes :
          \/ \E m : Show(m)
          \/ LET list == BuildAlterRoleAttrs(modal.role, Selected.attrs, want)
             IN  /\ list # <<>> /\ ~Escalates(want, Selected.attrs)
                 /\ Submit(Statements("alter role", modal.role, On(AdminDB, list)))
    BY <1>5, Zenon DEF AttrsYes
  <2> DEFINE list == BuildAlterRoleAttrs(modal.role, Selected.attrs, want)
             q == AlterRole(modal.role, want \ Selected.attrs, Selected.attrs \ want)
  <2>2. CASE \E m : Show(m)
    BY <2>2 DEF Show
  <2>3. CASE /\ list # <<>> /\ ~Escalates(want, Selected.attrs)
             /\ Submit(Statements("alter role", modal.role, On(AdminDB, list)))
    <3>1. list = <<q>>
      BY <2>3 DEF BuildAlterRoleAttrs
    <3>2. q.on \intersect Powers = {}
      BY <2>3 DEF Escalates, AlterRole
    <3> HIDE DEF q, list
    <3> QED
      BY <1>0, <2>3, <3>1, <3>2, OneConfirmed
  <2> QED
    BY <2>1, <2>2, <2>3
<1>6. CASE EscalateYes
  <2> DEFINE c == Statements("alter role", modal.role, On(AdminDB, modal.list))
  <2>1. Submit(c) /\ modal.kind = "escalate"
    BY <1>6 DEF EscalateYes, HasKeys
  <2>2. c.role = modal.role
    BY <1>a
  <2> HIDE DEF c
  <2> QED
    BY <1>0, <2>1, <2>2 DEF Confirmed
<1>7. CASE GrantYes
  <2> DEFINE s == Statements("grant", modal.role, modal.on)
             clears == IF modal.verb = "revoke" /\ modal.schema
                       THEN {<<modal.db, modal.role>>} ELSE {}
             c == [s EXCEPT !.clears = clears]
  <2>1. Submit(c)
    BY <1>7 DEF GrantYes
  <2>2. modal.on.list \in Seq(GrantQueries)
    BY <1>7, <1>b DEF GrantYes, HasKeys
  <2>3. c.role = modal.role /\ c.todo = modal.on.list
    BY DEF Statements
  <2>4. \A q \in GrantQueries : q.op \notin {"alter role", "create role"}
    BY DEF GrantQueries
  <2>5. ~Powerful(c)
    <3> DEFINE list == modal.on.list
    <3>1. ASSUME NEW k \in DOMAIN list PROVE list[k] \in GrantQueries
      BY <2>2
    <3> HIDE DEF c, list
    <3>2. c.todo = list
      BY <2>3 DEF list
    <3> QED BY <2>4, <3>1, <3>2 DEF Powerful
  <2> HIDE DEF c
  <2> QED
    BY <1>0, <2>1, <2>3, <2>5 DEF Confirmed
<1>8. CASE ForceDropYes
  <2>1. PICK successor : Submit(ForceDrop(modal.role, successor))
    BY <1>8 DEF ForceDropYes
  <2>2. /\ ForceDrop(modal.role, successor).role = modal.role
        /\ "todo" \notin DOMAIN ForceDrop(modal.role, successor)
    BY DEF ForceDrop
  <2> QED
    BY <1>0, <2>1, <2>2 DEF Confirmed
<1>9. CASE OpenAccess
  <2>1. Submit(RoleAccess(Selected.name)) /\ modal.kind = "menu"
    BY <1>9 DEF OpenAccess, MenuKey, HasKeys
  <2>2. "todo" \notin DOMAIN RoleAccess(Selected.name)
    BY DEF RoleAccess
  <2> QED
    BY <1>0, <2>1, <2>2 DEF Confirmed
<1> QED
  BY <1>1, <1>2, <1>3, <1>4, <1>5, <1>6, <1>7, <1>8, <1>9 DEF StartsSomething

\* What starts on a yes is what the open modal names, whatever the table under it has
\* become since, and a statement that turns SUPERUSER or BYPASSRLS on comes from a modal
\* where the role's name was typed.
THEOREM StartsAsConfirmed == Spec => RunsAsConfirmed
<1>1. TypeInv /\ [Next]_vars
        => [\A i \in Ids : cmds[i] = Unused /\ cmds'[i] # Unused =>
              /\ "role" \in DOMAIN modal /\ modal.kind # "menu" => cmds'[i].role = modal.role
              /\ "todo" \in DOMAIN cmds'[i] /\ Powerful(cmds'[i]) => modal.kind = "escalate"]_vars
  <2> SUFFICES ASSUME TypeInv, Next, NEW i \in Ids, cmds[i] = Unused, cmds'[i] # Unused
               PROVE  Confirmed(cmds'[i])
    BY DEF Confirmed
  <2> QED
    BY StaysUnused, StartsConfirmed
<1> QED
  BY <1>1, TypesAlways, PTL DEF Spec, RunsAsConfirmed

----------------------------------------------------------------------------
(* A revoke on a schema.                                                   *)

SchemaRevoked(r) ==
  <<RevokeLater(r, "table"), RevokeLater(r, "sequence"), RevokeAll(r, "table"),
    RevokeAll(r, "sequence"), RevokeUsage(r)>>

\* What a role has lost on the schema of a database after the first n of these.
Undone(s, d, r, n) ==
  /\ n >= 1 => <<d, r, "table">> \notin s.held
  /\ n >= 2 => <<d, r, "sequence">> \notin s.held
  /\ n >= 3 => \A o \in OfKind(s, d, "table") : <<o, r>> \notin s.acl
  /\ n >= 4 => \A o \in OfKind(s, d, "sequence") : <<o, r>> \notin s.acl
  /\ n >= 5 => <<d, r, "usage">> \notin s.held

\* A command that clears a schema has the rest of the list to run, and what ran of it
\* still holds: whoever granted something there since has taken the pair out.
Cleared(s, c) ==
  \A p \in c.clears :
    /\ p[1] = c.target /\ p[2] \in Roles /\ p = <<p[1], p[2]>>
    /\ c.pc \in {"pool", "run"} =>
         /\ Len(c.todo) \in 1 .. 5
         /\ \A k \in 1 .. Len(c.todo) : c.todo[k] = SchemaRevoked(p[2])[5 - Len(c.todo) + k]
         /\ Undone(s, p[1], p[2], 5 - Len(c.todo))

ClearsOK == \A i \in Ids : RunsStatements(cmds[i]) => Cleared(srv, cmds[i])
RevokedOK ==
  \A p \in revoked : p \in Databases \X Roles /\ Undone(srv, p[1], p[2], 5)
RevokeInv == ClearsOK /\ RevokedOK

\* What a statement can add to what roles hold and to what they may do with objects.
GivesOn(s, q, e, p) == q.op = "grant all" /\ p[2] = q.role /\ s.at[p[1]] = e

LEMMA AfterAdds ==
  ASSUME NEW s, Shaped(s), NEW q, Sane(q), NEW e
  PROVE  /\ \A h \in After(s, q, e).held : \/ h \in s.held \/ h[3] \in OnDatabase
                                           \/ q.op = "grant here" /\ h = <<e, q.role, q.what>>
         /\ \A p \in After(s, q, e).acl :
              p \in s.acl \/ GivesOn(s, q, e, p)
<1>1. CASE q.op = "create role" BY <1>1 DEF Shaped, Fields, After
<1>2. CASE q.op = "drop role" BY <1>2 DEF Shaped, Fields, After
<1>3. CASE q.op = "alter role" BY <1>3 DEF Shaped, Fields, After
<1>4. CASE q.op = "password" BY <1>4 DEF Shaped, Fields, After
<1>5. CASE q.op = "grant"
  <2> DEFINE more == {q.db} \X {q.role} \X q.what
  <2>1. \A h \in more : h[3] \in OnDatabase
    BY <1>5 DEF Sane
  <2>2. After(s, q, e) = [s EXCEPT !.held = @ \union more]
    BY <1>5 DEF After
  <2> HIDE DEF more
  <2>3. After(s, q, e).held = s.held \union more /\ After(s, q, e).acl = s.acl
    BY <2>2 DEF Shaped, Fields
  <2> QED BY <2>1, <2>3
<1>6. CASE q.op = "revoke" BY <1>6 DEF Shaped, Fields, After
<1>7. CASE q.op = "grant here" BY <1>7 DEF Shaped, Fields, After
<1>8. CASE q.op = "revoke here" BY <1>8 DEF Shaped, Fields, After
<1>9. CASE q.op = "grant all"
  <2> DEFINE more == OfKind(s, e, q.kind) \X {q.role}
  <2>1. \A p \in more : p[2] = q.role /\ s.at[p[1]] = e
    BY DEF OfKind, ObjectsIn
  <2>2. After(s, q, e) = [s EXCEPT !.acl = @ \union more]
    BY <1>9 DEF After
  <2> HIDE DEF more
  <2>3. After(s, q, e).held = s.held /\ After(s, q, e).acl = s.acl \union more
    BY <2>2 DEF Shaped, Fields
  <2> QED BY <1>9, <2>1, <2>3 DEF GivesOn
<1>10. CASE q.op = "revoke all" BY <1>10 DEF Shaped, Fields, After
<1>11. CASE q.op = "own" BY <1>11 DEF Shaped, Fields, After
<1>12. CASE q.op = "reassign" BY <1>12 DEF Shaped, Fields, After, Reassigned
<1>13. CASE q.op = "drop owned" BY <1>13 DEF Shaped, Fields, After, WithoutOwned
<1>14. CASE q.op \notin {"create role", "drop role", "alter role", "password", "grant", "revoke",
                         "grant here", "revoke here", "grant all", "revoke all", "own",
                         "reassign", "drop owned"}
  BY <1>14 DEF Shaped, Fields, After
<1> QED
  BY <1>1, <1>2, <1>3, <1>4, <1>5, <1>6, <1>7, <1>8, <1>9, <1>10, <1>11, <1>12, <1>13, <1>14

LEMMA StandingShaped ==
  ASSUME NEW s, Standing(s) PROVE Shaped(s)
BY ServerParts DEF Standing, Shaped

\* What a role lost it gets back by a grant on the schema only.
LEMMA UndoneStays ==
  ASSUME NEW s, Standing(s), NEW q, Sane(q), NEW e \in Databases, NEW d \in Databases,
         NEW r \in Roles, NEW n \in 0 .. 5, Undone(s, d, r, n), <<d, r>> \notin Gives(q, e)
  PROVE  Undone(After(s, q, e), d, r, n)
<1> DEFINE t == After(s, q, e)
<1>1. Shaped(s) /\ d # Nowhere
  BY StandingShaped, ServerConstants
<1>2. \A o \in Objects : t.at[o] = d => s.at[o] = d
  <2>1. \A o \in Objects : t.at[o] \in {s.at[o], Nowhere}
    BY <1>1, AfterShaped
  <2> QED
    BY <1>1, <2>1
<1>3. ASSUME NEW w \in {"usage", "table", "sequence"}, <<d, r, w>> \in t.held
      PROVE  <<d, r, w>> \in s.held
  <2>1. ~(q.op = "grant here" /\ <<d, r, w>> = <<e, q.role, q.what>>)
    BY DEF Gives
  <2>2. <<d, r, w>>[3] \notin OnDatabase
    BY DEF OnDatabase
  <2> QED
    BY <1>1, <1>3, <2>1, <2>2, AfterAdds
<1>4. ASSUME NEW o \in Objects, t.at[o] = d, <<o, r>> \in t.acl
      PROVE  <<o, r>> \in s.acl
  <2>1. ~(q.op = "grant all" /\ r = q.role /\ s.at[o] = e)
    BY <1>2, <1>4 DEF Gives
  <2>2. ~GivesOn(s, q, e, <<o, r>>)
    BY <2>1 DEF GivesOn
  <2> QED
    BY <1>1, <1>4, <2>2, AfterAdds
<1> HIDE DEF t
<1>5. \A k : \A o \in OfKind(t, d, k) :
        o \in OfKind(s, d, k) /\ (<<o, r>> \in t.acl => <<o, r>> \in s.acl)
  BY <1>2, <1>4 DEF OfKind, ObjectsIn
<1>6. Undone(t, d, r, n)
  BY <1>3, <1>5 DEF Undone
<1> QED
  BY <1>6 DEF t

\* Each statement of the list takes its part.
LEMMA TakesHeld ==
  ASSUME NEW s, Shaped(s), NEW d, NEW r \in Roles, NEW w \in Schema
  PROVE  /\ Sane(RevokeLater(r, w)) /\ Gives(RevokeLater(r, w), d) = {}
         /\ <<d, r, w>> \notin After(s, RevokeLater(r, w), d).held
<1> DEFINE q == RevokeLater(r, w)
<1>1. q.op = "revoke here" /\ q.role = r /\ q.what = w
  BY DEF RevokeLater
<1> HIDE DEF q
<1>2. Sane(q)
  BY <1>1 DEF Sane
<1>3. Gives(q, d) = {}
  BY <1>1 DEF Gives
<1>4. After(s, q, d) = [s EXCEPT !.held = @ \ {<<d, q.role, q.what>>}]
  BY <1>1 DEF After
<1>5. <<d, r, w>> \notin After(s, q, d).held
  BY <1>1, <1>4 DEF Shaped, Fields
<1> QED
  BY <1>2, <1>3, <1>5 DEF q

LEMMA TakesAll ==
  ASSUME NEW s, Shaped(s), NEW d, NEW r \in Roles, NEW k \in Kinds
  PROVE  /\ Sane(RevokeAll(r, k)) /\ Gives(RevokeAll(r, k), d) = {}
         /\ \A o \in OfKind(After(s, RevokeAll(r, k), d), d, k) :
              <<o, r>> \notin After(s, RevokeAll(r, k), d).acl
<1> DEFINE q == RevokeAll(r, k)
           t == After(s, q, d)
           gone == OfKind(s, d, k) \X {r}
<1>1. q.op = "revoke all" /\ q.role = r /\ q.kind = k
  BY DEF RevokeAll
<1> HIDE DEF q
<1>2. Sane(q)
  BY <1>1 DEF Sane
<1>3. Gives(q, d) = {}
  BY <1>1 DEF Gives
<1>4. t = [s EXCEPT !.acl = @ \ gone]
  BY <1>1 DEF After
<1>5. \A o \in OfKind(s, d, k) : <<o, r>> \in gone
  OBVIOUS
<1> HIDE DEF t, gone
<1>6. t.acl = s.acl \ gone /\ t.at = s.at
  BY <1>4 DEF Shaped, Fields
<1>7. \A o \in OfKind(t, d, k) : <<o, r>> \notin t.acl
  BY <1>5, <1>6 DEF OfKind, ObjectsIn
<1> QED
  BY <1>2, <1>3, <1>7 DEF q, t

\* What the earlier ones took stays away.
LEMMA UndoneNext ==
  ASSUME NEW s, Standing(s), NEW d \in Databases, NEW r \in Roles, NEW n \in 0 .. 4,
         Undone(s, d, r, n)
  PROVE  /\ Undone(After(s, SchemaRevoked(r)[n + 1], d), d, r, n + 1)
         /\ Gives(SchemaRevoked(r)[n + 1], d) = {}
<1> DEFINE q == SchemaRevoked(r)[n + 1]
           t == After(s, q, d)
<1>1. /\ n = 0 => q = RevokeLater(r, "table")
      /\ n = 1 => q = RevokeLater(r, "sequence")
      /\ n = 2 => q = RevokeAll(r, "table")
      /\ n = 3 => q = RevokeAll(r, "sequence")
      /\ n = 4 => q = RevokeLater(r, "usage")
      /\ n \in 0 .. 5 /\ n \in {0, 1, 2, 3, 4}
  <2>1. RevokeUsage(r) = RevokeLater(r, "usage")
    BY DEF RevokeUsage, RevokeLater
  <2> QED
    BY <2>1 DEF SchemaRevoked
<1>2. "table" \in Schema /\ "sequence" \in Schema /\ "usage" \in Schema
      /\ "table" \in Kinds /\ "sequence" \in Kinds
  BY DEF Schema, Kinds
<1>3. Shaped(s)
  BY StandingShaped
<1> HIDE DEF q
<1>4. Sane(q) /\ Gives(q, d) = {}
  <2>1. CASE n = 0 BY <1>1, <1>2, <1>3, <2>1, TakesHeld
  <2>2. CASE n = 1 BY <1>1, <1>2, <1>3, <2>2, TakesHeld
  <2>3. CASE n = 2 BY <1>1, <1>2, <1>3, <2>3, TakesAll
  <2>4. CASE n = 3 BY <1>1, <1>2, <1>3, <2>4, TakesAll
  <2>5. CASE n = 4 BY <1>1, <1>2, <1>3, <2>5, TakesHeld
  <2> QED
    BY <1>1, <2>1, <2>2, <2>3, <2>4, <2>5
<1>5. Undone(t, d, r, n)
  BY <1>1, <1>4, UndoneStays
<1>6. CASE n = 0
  <2>1. <<d, r, "table">> \notin t.held
    BY <1>1, <1>2, <1>3, <1>6, TakesHeld
  <2>2. Undone(t, d, r, 0 + 1)
    BY <2>1 DEF Undone
  <2> QED BY <1>4, <1>6, <2>2 DEF q
<1>7. CASE n = 1
  <2>1. <<d, r, "sequence">> \notin t.held
    BY <1>1, <1>2, <1>3, <1>7, TakesHeld
  <2>2. Undone(t, d, r, 1 + 1)
    BY <1>5, <1>7, <2>1 DEF Undone
  <2> QED BY <1>4, <1>7, <2>2 DEF q
<1>8. CASE n = 2
  <2>1. \A o \in OfKind(t, d, "table") : <<o, r>> \notin t.acl
    BY <1>1, <1>2, <1>3, <1>8, TakesAll
  <2>2. Undone(t, d, r, 2 + 1)
    BY <1>5, <1>8, <2>1 DEF Undone
  <2> QED BY <1>4, <1>8, <2>2 DEF q
<1>9. CASE n = 3
  <2>1. \A o \in OfKind(t, d, "sequence") : <<o, r>> \notin t.acl
    BY <1>1, <1>2, <1>3, <1>9, TakesAll
  <2>2. Undone(t, d, r, 3 + 1)
    BY <1>5, <1>9, <2>1 DEF Undone
  <2> QED BY <1>4, <1>9, <2>2 DEF q
<1>10. CASE n = 4
  <2>1. <<d, r, "usage">> \notin t.held
    BY <1>1, <1>2, <1>3, <1>10, TakesHeld
  <2>2. Undone(t, d, r, 4 + 1)
    BY <1>5, <1>10, <2>1 DEF Undone
  <2> QED BY <1>4, <1>10, <2>2 DEF q
<1>11. n \in {0, 1, 2, 3, 4}
  OBVIOUS
<1> HIDE DEF t
<1> QED
  BY <1>11, <1>6, <1>7, <1>8, <1>9, <1>10

\* An object that somebody makes comes with the default privileges that are left.
LEMMA UndoneCreated ==
  ASSUME NEW s, Standing(s), NEW o \in ObjectsIn(s, Nowhere), NEW e \in Databases,
         NEW x \in s.roles, NEW d \in Databases, NEW r \in Roles, NEW n \in 0 .. 5,
         Undone(s, d, r, n)
  PROVE  Undone(Created(s, o, e, x), d, r, n)
<1> DEFINE t == Created(s, o, e, x)
<1>1. /\ Shaped(s) /\ o \in Objects /\ s.at[o] = Nowhere
      /\ \A p \in s.acl : s.at[p[1]] # Nowhere
  BY StandingShaped DEF ObjectsIn, Standing
<1>2. /\ t.held = s.held /\ t.at[o] = e
      /\ \A p \in Objects : p # o => t.at[p] = s.at[p]
  BY <1>1 DEF Created, Shaped, Fields
<1>3. ASSUME NEW p \in Objects, t.at[p] = d, <<p, r>> \in t.acl
      PROVE  \/ p # o /\ s.at[p] = d /\ <<p, r>> \in s.acl
             \/ p = o /\ <<d, r, Kind[p]>> \in s.held
  <2> DEFINE gifts == {<<o, g>> : g \in {g \in Roles : x = Me /\ <<e, g, Kind[o]>> \in s.held}}
  <2>1. t.acl = s.acl \union gifts
    BY <1>1 DEF Created, Shaped, Fields
  <2>2. CASE <<p, r>> \in s.acl
    <3>1. s.at[<<p, r>>[1]] # Nowhere
      BY <1>1, <2>2
    <3>2. p # o
      BY <1>1, <3>1
    <3> QED BY <1>2, <1>3, <2>2, <3>2
  <2>3. CASE <<p, r>> \in gifts
    <3>1. PICK g \in Roles : <<p, r>> = <<o, g>> /\ <<e, g, Kind[o]>> \in s.held
      BY <2>3
    <3>2. p = o /\ r = g
      BY <3>1
    <3> QED BY <1>2, <1>3, <3>1, <3>2
  <2> QED BY <1>3, <2>1, <2>2, <2>3
<1> HIDE DEF t
<1>4. ASSUME NEW k \in Kinds, <<d, r, k>> \notin s.held,
             \A p \in OfKind(s, d, k) : <<p, r>> \notin s.acl
      PROVE  \A p \in OfKind(t, d, k) : <<p, r>> \notin t.acl
  BY <1>3, <1>4 DEF OfKind, ObjectsIn
<1>5. Undone(t, d, r, n)
  BY <1>2, <1>4 DEF Undone, Kinds
<1> QED
  BY <1>5 DEF t

\* What it takes of a server for a schema to stay revoked.
Preserves(s, t) ==
  \A d \in Databases, r \in Roles, n \in 0 .. 5 : Undone(s, d, r, n) => Undone(t, d, r, n)

LEMMA LeftToRun ==
  ASSUME NEW m \in 1 .. 5
  PROVE  5 - m \in 0 .. 4 /\ 5 - m \in 0 .. 5 /\ 1 \in 1 .. m
OBVIOUS

LEMMA ClearedStays ==
  ASSUME NEW s, NEW t, NEW c, RunsStatements(c), Cleared(s, c), Preserves(s, t)
  PROVE  Cleared(t, c)
<1> SUFFICES ASSUME NEW p \in c.clears, c.pc \in {"pool", "run"}
             PROVE  Undone(t, p[1], p[2], 5 - Len(c.todo))
  BY DEF Cleared
<1>1. /\ p[1] = c.target /\ p[2] \in Roles /\ Len(c.todo) \in 1 .. 5
      /\ Undone(s, p[1], p[2], 5 - Len(c.todo))
  BY DEF Cleared
<1>2. p[1] \in Databases
  BY <1>1 DEF RunsStatements
<1>3. 5 - Len(c.todo) \in 0 .. 5
  BY <1>1, LeftToRun
<1> QED
  BY <1>1, <1>2, <1>3 DEF Preserves

\* A step that gives nothing back and takes nothing for revoked.
LEMMA RevokeStays ==
  ASSUME TypeInv, RevokeInv, Preserves(srv, srv'), revoked' \subseteq revoked,
         \A i \in Ids : RunsStatements(cmds'[i]) => cmds'[i] = cmds[i] \/ Cleared(srv', cmds'[i])
  PROVE  RevokeInv'
<1>1. ClearsOK'
  BY ClearedStays DEF RevokeInv, ClearsOK
<1>2. RevokedOK'
  <2> SUFFICES ASSUME NEW p \in revoked PROVE p \in Databases \X Roles /\ Undone(srv', p[1], p[2], 5)
    BY DEF RevokedOK
  <2>1. p \in Databases \X Roles /\ Undone(srv, p[1], p[2], 5)
    BY DEF RevokeInv, RevokedOK
  <2>2. p[1] \in Databases /\ p[2] \in Roles /\ 5 \in 0 .. 5
    BY <2>1
  <2> QED
    BY <2>1, <2>2 DEF Preserves
<1> QED
  BY <1>1, <1>2 DEF RevokeInv

LEMMA SamePreserves == ASSUME NEW s PROVE Preserves(s, s)
BY DEF Preserves

\* Statements that give nobody anything on a schema.
LEMMA StatementPreserves ==
  ASSUME NEW s, Standing(s), NEW q, Sane(q), NEW e \in Databases, Gives(q, e) = {}
  PROVE  Preserves(s, After(s, q, e))
BY UndoneStays DEF Preserves

\* What a step of a forced drop is: it changes this command only, and on the server
\* it may own, reassign or drop.
Takes(q) == Sane(q) /\ q.op \in {"own", "reassign", "drop owned", "drop role"}
ForceDropMade(i) ==
  /\ cmds[i].act = "force-drop" /\ cmds'[i].act = "force-drop"
  /\ \A j \in Ids : j # i => cmds'[j] = cmds[j]
  /\ CommandFrame /\ UNCHANGED <<revoked, unread>>
  /\ srv' = srv \/ \E q, d : Takes(q) /\ d \in Databases /\ srv' = After(srv, q, d)

LEMMA AttemptMakes ==
  ASSUME TypeInv, NEW i \in Ids, DropsByForce(cmds[i]), NEW q, Takes(q), NEW d \in Databases,
         NEW done, NEW failed, Attempt(i, q, d, done, failed),
         done.act = "force-drop", failed.act = "force-drop"
  PROVE  ForceDropMade(i)
<1>1. /\ DOMAIN cmds = Ids /\ cmds[i].act = "force-drop"
      /\ CommandFrame /\ UNCHANGED <<revoked, unread>>
      /\ Becomes(i, done) \/ Becomes(i, failed)
      /\ srv' = srv \/ srv' = After(srv, q, d)
  BY DEF TypeInv, CommandsTyped, DropsByForce, Attempt, ServerBecomes, SameServer
<1>2. cmds'[i].act = "force-drop" /\ \A j \in Ids : j # i => cmds'[j] = cmds[j]
  BY <1>1 DEF Becomes
<1> QED
  BY <1>1, <1>2 DEF ForceDropMade

LEMMA LearnMakes ==
  ASSUME TypeInv, NEW i \in Ids, DropsByForce(cmds[i]), NEW c, Becomes(i, c),
         CommandFrame, SameServer, UNCHANGED <<revoked, unread>>, c.act = "force-drop"
  PROVE  ForceDropMade(i)
BY DEF TypeInv, CommandsTyped, DropsByForce, SameServer, ForceDropMade, Becomes

LEMMA ForceDropMakes ==
  ASSUME TypeInv, NEW i \in Ids, ForceDropStep(i)
  PROVE  ForceDropMade(i)
<1> DEFINE c == cmds[i]
<1>0. DropsByForce(c) /\ AdminDB \in Databases
  <2>1. ForcedDrop(c)
    BY DEF ForceDropStep, DatabasesOwnedBy, AlterOwner, ConnectableDatabases, VisitDatabase,
           ReassignOwned, DropWhatIsOwned, DropTheRole, At
  <2> QED
    BY <2>1, KindOf, ServerConstants DEF TypeInv
<1>1. /\ \A list : NextOwned(c, list).act = "force-drop"
      /\ NextDatabase(c).act = "force-drop" /\ NotReassigned(c).act = "force-drop"
      /\ [c EXCEPT !.dbs = DatabaseOrder, !.pc = "visit"].act = "force-drop"
      /\ \A pc : [c EXCEPT !.pc = pc].act = "force-drop"
  BY <1>0 DEF DropsByForce, NextOwned, NextDatabase, NotReassigned
<1>2. c.role \in Roles /\ c.to \in Roles
  BY <1>0 DEF DropsByForce
<1>3. c.pc \in {"own", "reassign", "drop owned"} => Head(c.dbs) \in Databases
  BY <1>0, FirstAndRest DEF DropsByForce
<1>4. CASE DatabasesOwnedBy(i) \/ ConnectableDatabases(i) \/ VisitDatabase(i)
  <2>1. \E b : Becomes(i, b) /\ b.act = "force-drop"
    BY <1>1, <1>4, Zenon DEF DatabasesOwnedBy, ConnectableDatabases, VisitDatabase, Learn
  <2>2. CommandFrame /\ SameServer /\ UNCHANGED <<revoked, unread>>
    BY <1>4 DEF DatabasesOwnedBy, ConnectableDatabases, VisitDatabase, Learn
  <2> QED
    BY <1>0, <2>1, <2>2, LearnMakes
<1>5. CASE AlterOwner(i)
  <2>1. /\ Attempt(i, OwnDatabase(Head(c.dbs), c.to), AdminDB, NextOwned(c, Tail(c.dbs)),
                   NextOwned(c, Tail(c.dbs)))
        /\ Head(c.dbs) \in Databases
    BY <1>3, <1>5 DEF AlterOwner, At
  <2>2. Takes(OwnDatabase(Head(c.dbs), c.to))
    BY <1>2, <2>1 DEF OwnDatabase, Sane, Takes
  <2> QED
    BY <1>0, <1>1, <2>1, <2>2, AttemptMakes
<1>6. CASE ReassignOwned(i)
  <2>1. /\ Attempt(i, Reassign(c.role, c.to), Head(c.dbs), [c EXCEPT !.pc = "drop owned"],
                   NotReassigned(c))
        /\ Head(c.dbs) \in Databases
    BY <1>3, <1>6 DEF ReassignOwned, ReassignedIn, At
  <2>2. Takes(Reassign(c.role, c.to))
    BY <1>2 DEF Reassign, Sane, Takes
  <2> QED
    BY <1>0, <1>1, <2>1, <2>2, AttemptMakes
<1>7. CASE DropWhatIsOwned(i)
  <2>1. /\ Attempt(i, DropOwned(c.role), Head(c.dbs), NextDatabase(c), NextDatabase(c))
        /\ Head(c.dbs) \in Databases
    BY <1>3, <1>7 DEF DropWhatIsOwned, At
  <2>2. Takes(DropOwned(c.role))
    BY <1>2 DEF DropOwned, Sane, Takes
  <2> QED
    BY <1>0, <1>1, <2>1, <2>2, AttemptMakes
<1>8. CASE DropTheRole(i)
  <2>1. Attempt(i, DropRole(c.role), AdminDB, [c EXCEPT !.pc = "answered"],
                [c EXCEPT !.pc = "failed"])
    BY <1>8 DEF DropTheRole
  <2>2. Takes(DropRole(c.role))
    BY <1>2 DEF DropRole, Sane, Takes
  <2> QED
    BY <1>0, <1>1, <2>1, <2>2, AttemptMakes
<1> QED
  BY <1>4, <1>5, <1>6, <1>7, <1>8 DEF ForceDropStep

\* A step of a report changes the report only.
LEMMA ProbeMakes ==
  ASSUME TypeInv, NEW i \in Ids, ReadLevels(i) \/ ReadSchema(i) \/ ReadTables(i)
  PROVE  /\ cmds[i].act = "access" /\ cmds'[i].act = "access"
         /\ \A j \in Ids : j # i => cmds'[j] = cmds[j]
         /\ CommandFrame /\ SameServer /\ UNCHANGED <<revoked, unread>>
<1> DEFINE c == cmds[i]
<1>1. LooksForAccess(c) /\ DOMAIN cmds = Ids
  BY KindOf DEF ReadLevels, ReadSchema, ReadTables, TypeInv, CommandsTyped
<1>2. \E b : Becomes(i, b) /\ b.act = "access"
  <2>1. /\ \A more : NextReport(c, more).act = "access"
        /\ \A pc, found : [c EXCEPT !.found = found, !.pc = pc].act = "access"
        /\ \A pc, dbs, found : [c EXCEPT !.pc = pc, !.dbs = dbs, !.found = found].act = "access"
    BY <1>1 DEF LooksForAccess, NextReport
  <2>2. CASE ReadLevels(i)
    <3> DEFINE found == {d \in Databases : DatabaseAccess(srv, d, c.role)}
    <3>1. Becomes(i, [c EXCEPT !.pc = "schemas", !.dbs = DatabaseOrder, !.found = found])
      BY <2>2 DEF ReadLevels, Learn
    <3>2. [c EXCEPT !.pc = "schemas", !.dbs = DatabaseOrder, !.found = found].act = "access"
      BY <1>1 DEF LooksForAccess
    <3> QED BY <3>1, <3>2, Zenon
  <2>3. CASE Unreadable(i)
    <3>1. \E more : Becomes(i, NextReport(c, more))
      BY <2>3, Zenon DEF Unreadable
    <3> QED BY <2>1, <3>1
  <2>4. CASE ReadSchema(i) /\ ~Unreadable(i)
    <3>1. \E pc, found : Becomes(i, [c EXCEPT !.found = found, !.pc = pc])
      BY <2>4, Zenon DEF ReadSchema, Learn
    <3> QED BY <2>1, <3>1
  <2>5. CASE ReadTables(i) /\ ~Unreadable(i)
    <3>1. \E more : Becomes(i, NextReport(c, more))
      BY <2>5, Zenon DEF ReadTables, Learn
    <3> QED BY <2>1, <3>1
  <2> QED
    BY <2>2, <2>3, <2>4, <2>5
<1>3. CommandFrame /\ SameServer /\ UNCHANGED <<revoked, unread>>
  BY DEF ReadLevels, ReadSchema, ReadTables, Unreadable, Learn
<1> QED
  BY <1>1, <1>2, <1>3 DEF LooksForAccess, Becomes

\* A command that clears nothing.
LEMMA ClearsNothing ==
  ASSUME NEW s, NEW act, NEW r, NEW on
  PROVE  Cleared(s, Statements(act, r, on))
BY DEF Statements, Cleared

\* The list of a grant that is confirmed is the list that BuildRevoke made when the
\* modal opened.
LEMMA StartsCleared ==
  ASSUME TypeInv, StartsSomething, NEW i \in Ids, cmds'[i] # cmds[i],
         RunsStatements(cmds'[i])
  PROVE  Cleared(srv, cmds'[i])
<1>0. ASSUME NEW c, Submit(c), RunsStatements(c) => Cleared(srv, c) PROVE Cleared(srv, cmds'[i])
  BY <1>0, StartIs DEF Submit
<1>1. CASE CreateRoleYes
  BY <1>0, <1>1, ClearsNothing, Zenon DEF CreateRoleYes
<1>2. CASE DropRoleYes
  BY <1>0, <1>2, ClearsNothing, Zenon DEF DropRoleYes
<1>3. CASE ResetPasswordYes
  BY <1>3, StartIs, ClearsNothing, Zenon DEF ResetPasswordYes
<1>4. CASE ConnLimitYes
  BY <1>0, <1>4, ClearsNothing, Zenon DEF ConnLimitYes
<1>5. CASE AttrsYes
  <2>1. \/ \E m : Show(m)
        \/ \E list : Submit(Statements("alter role", modal.role, On(AdminDB, list)))
    BY <1>5, Zenon DEF AttrsYes
  <2> QED
    BY <1>0, <2>1, ClearsNothing, Zenon DEF Show
<1>6. CASE EscalateYes
  BY <1>0, <1>6, ClearsNothing, Zenon DEF EscalateYes
<1>7. CASE GrantYes
  <2> DEFINE s == Statements("grant", modal.role, modal.on)
             clears == IF modal.verb = "revoke" /\ modal.schema
                       THEN {<<modal.db, modal.role>>} ELSE {}
             c == [s EXCEPT !.clears = clears]
  <2>1. Submit(c)
    BY <1>7 DEF GrantYes
  <2>2. /\ modal.role \in Roles /\ modal.db \in Databases
        /\ modal.verb = "revoke" /\ modal.schema
             => modal.on = BuildRevoke("schema", modal.db, modal.role)
    BY <1>7 DEF GrantYes, HasKeys, TypeInv, ModalTyped, AboutRole
  <2>3. c.target = modal.on.target /\ c.todo = modal.on.list /\ c.clears = clears /\ c.pc = "pool"
    BY DEF Statements
  <2> HIDE DEF c
  <2>4. CASE modal.verb = "revoke" /\ modal.schema
    <3>1. modal.on = On(modal.db, SchemaRevoked(modal.role))
      BY <2>2, <2>4 DEF BuildRevoke, SchemaRevoked
    <3>2. c.target = modal.db /\ c.todo = SchemaRevoked(modal.role)
      BY <2>3, <3>1 DEF On
    <3>3. Len(SchemaRevoked(modal.role)) = 5
      BY DEF SchemaRevoked
    <3>4. c.clears = {<<modal.db, modal.role>>}
      BY <2>3, <2>4
    <3>5. Undone(srv, modal.db, modal.role, 0)
      BY DEF Undone
    <3>6. Cleared(srv, c)
      <4> DEFINE p == <<modal.db, modal.role>>
      <4>1. p[1] = modal.db /\ p[2] = modal.role
        OBVIOUS
      <4>2. /\ Len(c.todo) = 5 /\ Len(c.todo) \in 1 .. 5
            /\ \A k \in 1 .. Len(c.todo) : 5 - Len(c.todo) + k = k
        BY <3>2, <3>3
      <4>3. \A k \in 1 .. Len(c.todo) :
              c.todo[k] = SchemaRevoked(modal.role)[5 - Len(c.todo) + k]
        BY <3>2, <4>2
      <4>4. Undone(srv, modal.db, modal.role, 5 - Len(c.todo))
        BY <3>5, <4>2
      <4> QED
        BY <2>2, <3>2, <3>4, <4>1, <4>2, <4>3, <4>4 DEF Cleared
    <3> QED
      BY <1>0, <2>1, <3>6
  <2>5. CASE ~(modal.verb = "revoke" /\ modal.schema)
    <3>1. Cleared(srv, c)
      BY <2>3, <2>5 DEF Cleared
    <3> QED
      BY <1>0, <2>1, <3>1
  <2> QED
    BY <2>4, <2>5
<1>8. CASE ForceDropYes
  <2>1. PICK successor : Submit(ForceDrop(modal.role, successor))
    BY <1>8 DEF ForceDropYes
  <2>2. ~RunsStatements(ForceDrop(modal.role, successor))
    BY DEF ForceDrop, RunsStatements
  <2> QED
    BY <1>0, <2>1, <2>2
<1>9. CASE OpenAccess
  <2>1. ~RunsStatements(RoleAccess(Selected.name))
    BY DEF RoleAccess, RunsStatements
  <2> QED
    BY <1>0, <1>9, <2>1 DEF OpenAccess
<1> QED
  BY <1>1, <1>2, <1>3, <1>4, <1>5, <1>6, <1>7, <1>8, <1>9 DEF StartsSomething

\* A statement of a revoke, of a grant, or of something else: who gives something on a
\* schema takes the pair out, everywhere.
LEMMA RunRevokes ==
  ASSUME TypeInv, RevokeInv, NEW i \in Ids, RunStatement(i)
  PROVE  RevokeInv'
<1> DEFINE c == cmds[i]
           q == Head(c.todo)
           e == c.target
           given == Gives(q, e)
           ends == Len(c.todo) = 1
<1>1. /\ RunsStatements(c) /\ c.pc = "run" /\ q \in Queries
      /\ srv' = After(srv, q, e)
      /\ \A j \in Ids : j # i =>
           cmds'[j] = IF HasStatements(j) THEN StillOne(given, cmds[j]) ELSE cmds[j]
      /\ \/ /\ cmds'[i] = [StillOne(given, c) EXCEPT !.todo = Tail(c.todo),
                             !.pc = IF ends THEN "answered" ELSE "run"]
            /\ revoked' = (revoked \ given) \union (IF ends THEN c.clears ELSE {})
         \/ /\ cmds'[i] = [StillOne(given, c) EXCEPT !.pc = "failed"]
            /\ revoked' = revoked \ given
  BY RunMakes DEF TypeInv
<1>2. Sane(q) /\ Standing(srv) /\ e \in Databases
  BY <1>1, QueriesSane DEF TypeInv, RunsStatements
<1>3. \A d \in Databases, r \in Roles, n \in 0 .. 5 :
        Undone(srv, d, r, n) /\ <<d, r>> \notin given => Undone(srv', d, r, n)
  BY <1>1, <1>2, UndoneStays
<1> HIDE DEF given
<1>4. ASSUME NEW b, RunsStatements(b), Cleared(srv, b)
      PROVE  Cleared(srv', StillOne(given, b))
  <2> DEFINE t == StillOne(given, b)
  <2>1. /\ t.clears = b.clears \ given /\ t.pc = b.pc /\ t.todo = b.todo /\ t.target = b.target
    BY <1>4 DEF RunsStatements, StillOne
  <2> HIDE DEF t
  <2> SUFFICES ASSUME NEW p \in t.clears
               PROVE  /\ p[1] = t.target /\ p[2] \in Roles /\ p = <<p[1], p[2]>>
                      /\ t.pc \in {"pool", "run"} =>
                           /\ Len(t.todo) \in 1 .. 5
                           /\ \A k \in 1 .. Len(t.todo) :
                                t.todo[k] = SchemaRevoked(p[2])[5 - Len(t.todo) + k]
                           /\ Undone(srv', p[1], p[2], 5 - Len(t.todo))
    BY DEF Cleared, t
  <2>2. /\ p \in b.clears /\ p \notin given
        /\ p[1] = b.target /\ p[2] \in Roles /\ p = <<p[1], p[2]>>
        /\ b.pc \in {"pool", "run"} =>
             /\ Len(b.todo) \in 1 .. 5
             /\ \A k \in 1 .. Len(b.todo) :
                  b.todo[k] = SchemaRevoked(p[2])[5 - Len(b.todo) + k]
             /\ Undone(srv, p[1], p[2], 5 - Len(b.todo))
    BY <1>4, <2>1 DEF Cleared
  <2>3. p[1] \in Databases
    BY <1>4, <2>2 DEF RunsStatements
  <2>4. ASSUME b.pc \in {"pool", "run"} PROVE Undone(srv', p[1], p[2], 5 - Len(b.todo))
    <3>1. 5 - Len(b.todo) \in 0 .. 5
      BY <2>2, <2>4, LeftToRun
    <3> QED
      BY <1>3, <2>2, <2>3, <2>4, <3>1
  <2> QED
    BY <2>1, <2>2, <2>4
<1>5. ASSUME NEW j \in Ids, j # i, RunsStatements(cmds'[j]) PROVE Cleared(srv', cmds'[j])
  <2>1. CASE HasStatements(j)
    <3>1. RunsStatements(cmds[j]) /\ cmds'[j] = StillOne(given, cmds[j])
      BY <1>1, <1>5, <2>1, KindOf DEF TypeInv
    <3>2. Cleared(srv, cmds[j])
      BY <3>1 DEF RevokeInv, ClearsOK
    <3> QED BY <1>4, <3>1, <3>2
  <2>2. CASE ~HasStatements(j)
    <3>1. cmds'[j] = cmds[j]
      BY <1>1, <1>5, <2>2
    <3>2. FALSE
      BY <1>5, <2>2, <3>1 DEF HasStatements, Active, ForcedDrop, Probe, RunsStatements
    <3> QED BY <3>2
  <2> QED BY <2>1, <2>2
<1>6. Cleared(srv, c)
  BY <1>1 DEF RevokeInv, ClearsOK
<1>7. \A p \in revoked \ given : p \in Databases \X Roles /\ Undone(srv', p[1], p[2], 5)
  <2> SUFFICES ASSUME NEW p \in revoked, p \notin given
               PROVE  p \in Databases \X Roles /\ Undone(srv', p[1], p[2], 5)
    OBVIOUS
  <2>1. p \in Databases \X Roles /\ Undone(srv, p[1], p[2], 5)
    BY DEF RevokeInv, RevokedOK
  <2>2. p[1] \in Databases /\ p[2] \in Roles /\ p = <<p[1], p[2]>> /\ 5 \in 0 .. 5
    BY <2>1
  <2> QED
    BY <1>3, <2>1, <2>2
<1>8. /\ c.todo \in Seq(Queries) /\ c.todo # <<>>
      /\ Len(c.todo) \in Nat \ {0} /\ q = c.todo[1]
      /\ Len(Tail(c.todo)) = Len(c.todo) - 1
      /\ \A k \in 1 .. Len(c.todo) - 1 : Tail(c.todo)[k] = c.todo[k + 1]
  <2>1. c.todo \in Seq(Queries) /\ c.todo # <<>>
    BY <1>1 DEF RunsStatements
  <2> QED
    BY <2>1, FirstAndRest
<1>9. ASSUME NEW p \in c.clears
      PROVE  /\ p[1] = e /\ p[2] \in Roles /\ p = <<p[1], p[2]>> /\ given = {}
             /\ Len(c.todo) \in 1 .. 5
             /\ \A k \in 1 .. Len(c.todo) :
                  c.todo[k] = SchemaRevoked(p[2])[5 - Len(c.todo) + k]
             /\ Undone(srv', e, p[2], 5 - Len(c.todo) + 1)
  <2>1. /\ p[1] = e /\ p[2] \in Roles /\ p = <<p[1], p[2]>>
        /\ Len(c.todo) \in 1 .. 5
        /\ \A k \in 1 .. Len(c.todo) :
             c.todo[k] = SchemaRevoked(p[2])[5 - Len(c.todo) + k]
        /\ Undone(srv, e, p[2], 5 - Len(c.todo))
    BY <1>1, <1>6 DEF Cleared
  <2>2. 5 - Len(c.todo) \in 0 .. 4 /\ 1 \in 1 .. Len(c.todo)
    BY <2>1, LeftToRun
  <2>3. q = SchemaRevoked(p[2])[5 - Len(c.todo) + 1]
    <3>1. c.todo[1] = SchemaRevoked(p[2])[5 - Len(c.todo) + 1]
      BY <2>1, <2>2, Zenon
    <3> QED BY <1>8, <3>1
  <2>4. /\ Undone(After(srv, q, e), e, p[2], 5 - Len(c.todo) + 1)
        /\ Gives(q, e) = {}
    <3> DEFINE n == 5 - Len(c.todo)
               r == p[2]
    <3>1. n \in 0 .. 4 /\ r \in Roles /\ Undone(srv, e, r, n) /\ q = SchemaRevoked(r)[n + 1]
      BY <2>1, <2>2, <2>3
    <3> HIDE DEF n, r
    <3>2. Undone(After(srv, q, e), e, r, n + 1) /\ Gives(q, e) = {}
      BY <1>2, <3>1, UndoneNext
    <3> QED BY <3>2 DEF n, r
  <2> QED
    BY <1>1, <2>1, <2>4 DEF given
<1>10. CASE /\ cmds'[i] = [StillOne(given, c) EXCEPT !.pc = "failed"]
            /\ revoked' = revoked \ given
  <2>1. Cleared(srv', cmds'[i])
    <3>1. /\ cmds'[i].pc = "failed" /\ cmds'[i].clears = c.clears \ given
          /\ cmds'[i].target = c.target
      BY <1>1, <1>10 DEF StillOne, RunsStatements
    <3> QED
      BY <1>9, <3>1 DEF Cleared
  <2>2. ClearsOK'
    BY <1>5, <2>1 DEF ClearsOK
  <2>3. RevokedOK'
    BY <1>7, <1>10 DEF RevokedOK
  <2> QED
    BY <2>2, <2>3 DEF RevokeInv
<1>11. CASE /\ cmds'[i] = [StillOne(given, c) EXCEPT !.todo = Tail(c.todo),
                            !.pc = IF ends THEN "answered" ELSE "run"]
            /\ revoked' = (revoked \ given) \union (IF ends THEN c.clears ELSE {})
  <2> DEFINE b == cmds'[i]
  <2>1. /\ b.pc = IF ends THEN "answered" ELSE "run"
        /\ b.clears = c.clears \ given /\ b.target = c.target /\ b.todo = Tail(c.todo)
    BY <1>1, <1>11 DEF StillOne, RunsStatements
  <2> HIDE DEF b
  <2>2. ASSUME NEW p \in b.clears
        PROVE  /\ p[1] = b.target /\ p[2] \in Roles /\ p = <<p[1], p[2]>>
               /\ b.pc \in {"pool", "run"} =>
                    /\ Len(b.todo) \in 1 .. 5
                    /\ \A k \in 1 .. Len(b.todo) :
                         b.todo[k] = SchemaRevoked(p[2])[5 - Len(b.todo) + k]
                    /\ Undone(srv', p[1], p[2], 5 - Len(b.todo))
    <3>1. /\ p[1] = e /\ p[2] \in Roles /\ p = <<p[1], p[2]>>
          /\ Len(c.todo) \in 1 .. 5
          /\ \A k \in 1 .. Len(c.todo) :
               c.todo[k] = SchemaRevoked(p[2])[5 - Len(c.todo) + k]
          /\ Undone(srv', e, p[2], 5 - Len(c.todo) + 1)
      BY <1>9, <2>1, <2>2
    <3>2. ASSUME b.pc \in {"pool", "run"}
          PROVE  /\ Len(b.todo) \in 1 .. 5
                 /\ \A k \in 1 .. Len(b.todo) :
                      b.todo[k] = SchemaRevoked(p[2])[5 - Len(b.todo) + k]
                 /\ Undone(srv', p[1], p[2], 5 - Len(b.todo))
      <4>1. Len(c.todo) # 1
        BY <2>1, <3>2
      <4>2. Len(b.todo) = Len(c.todo) - 1 /\ 5 - Len(b.todo) = 5 - Len(c.todo) + 1
        BY <1>8, <2>1, <3>1
      <4>3. ASSUME NEW k \in 1 .. Len(b.todo)
            PROVE  b.todo[k] = SchemaRevoked(p[2])[5 - Len(b.todo) + k]
        <5>1. k + 1 \in 1 .. Len(c.todo) /\ 5 - Len(c.todo) + (k + 1) = 5 - Len(b.todo) + k
          BY <3>1, <4>2
        <5>2. b.todo[k] = c.todo[k + 1]
          BY <1>8, <2>1, <4>2
        <5> QED
          BY <3>1, <5>1, <5>2
      <4>4. Len(b.todo) \in 1 .. 5
        BY <3>1, <4>1, <4>2
      <4> QED
        BY <3>1, <4>2, <4>3, <4>4
    <3> QED
      BY <2>1, <3>1, <3>2
  <2>3. Cleared(srv', cmds'[i])
    BY <2>2 DEF Cleared, b
  <2>4. ClearsOK'
    BY <1>5, <2>3 DEF ClearsOK
  <2>5. ASSUME NEW p \in revoked' PROVE p \in Databases \X Roles /\ Undone(srv', p[1], p[2], 5)
    <3>1. CASE p \in revoked \ given
      BY <1>7, <3>1
    <3>2. CASE ends /\ p \in c.clears
      <4>1. 5 - Len(c.todo) + 1 = 5
        BY <3>2
      <4>2. Undone(srv', e, p[2], 5) /\ p[1] = e /\ p[2] \in Roles /\ p = <<p[1], p[2]>>
        BY <1>9, <3>2, <4>1
      <4> QED
        BY <1>2, <4>2
    <3> QED
      BY <1>11, <2>5, <3>1, <3>2
  <2> QED
    BY <2>4, <2>5 DEF RevokeInv, RevokedOK
<1> QED
  BY <1>1, <1>10, <1>11

LEMMA ExecRevokes ==
  ASSUME TypeInv, RevokeInv, NEW i \in Ids, ExecStep(i)
  PROVE  RevokeInv'
<1>1. CASE RunStatement(i)
  BY <1>1, RunRevokes
<1>2. CASE GetPool(i) \/ RefuseStatement(i) \/ CommandFails(i)
  <2>1. PICK pc \in {"run", "levels", "owned", "failed"} :
          /\ Becomes(i, [cmds[i] EXCEPT !.pc = pc])
          /\ pc # "failed" => cmds[i].pc = "pool"
    BY <1>2, Zenon DEF GetPool, RefuseStatement, CommandFails
  <2>2. /\ srv' = srv /\ revoked' = revoked /\ DOMAIN cmds = Ids /\ CommandOK(cmds[i])
        /\ Active(cmds[i])
    BY <1>2 DEF GetPool, RefuseStatement, CommandFails, SameServer, TypeInv, CommandsTyped,
                HasStatements, Active
  <2>3. \A j \in Ids : j # i => cmds'[j] = cmds[j]
    BY <2>1, <2>2 DEF Becomes
  <2>4. ASSUME RunsStatements(cmds'[i]) PROVE Cleared(srv', cmds'[i])
    <3> DEFINE c == cmds[i]
               b == [c EXCEPT !.pc = pc]
    <3>1. cmds'[i] = b
      BY <2>1, <2>2 DEF Becomes
    <3>a. DOMAIN cmds'[i] = DOMAIN c
      BY <3>1
    <3>2. RunsStatements(c)
      <4>0. "todo" \in DOMAIN cmds'[i]
        BY <2>4 DEF RunsStatements
      <4>1. "todo" \in DOMAIN c
        BY <3>a, <4>0
      <4>2. c \notin {Unused, Over}
        BY <2>2 DEF Active, Unused, Over
      <4>3. ~DropsByForce(c) /\ ~LooksForAccess(c)
        <5>1. "todo" \notin {"pc", "act", "role", "to", "dbs", "found"}
          OBVIOUS
        <5>2. DropsByForce(c) => DOMAIN c \subseteq {"pc", "act", "role", "to", "dbs", "found"}
          BY DEF DropsByForce
        <5>3. LooksForAccess(c) => DOMAIN c \subseteq {"pc", "act", "role", "to", "dbs", "found"}
          BY DEF LooksForAccess
        <5> QED
          BY <4>1, <5>1, <5>2, <5>3
      <4> QED
        BY <2>2, <4>2, <4>3 DEF CommandOK
    <3>3. /\ b.pc = pc /\ b.clears = c.clears /\ b.target = c.target /\ b.todo = c.todo
      BY <3>2 DEF RunsStatements
    <3>4. Cleared(srv, c)
      BY <3>2 DEF RevokeInv, ClearsOK
    <3>5. b.pc \in {"pool", "run"} => c.pc \in {"pool", "run"}
      BY <2>1, <3>3
    <3> HIDE DEF b
    <3>6. Cleared(srv, b)
      BY <3>3, <3>4, <3>5 DEF Cleared
    <3> QED
      BY <2>2, <3>1, <3>6
  <2> QED
    BY <2>2, <2>3, <2>4, SamePreserves, RevokeStays
<1> QED
  BY <1>1, <1>2 DEF ExecStep

LEMMA OthersRevoke ==
  ASSUME TypeInv, RevokeInv, OtherAlters \/ OtherCreates \/ OtherExecMsg
  PROVE  RevokeInv'
<1>1. cmds' = cmds /\ revoked' = revoked
  BY DEF OtherAlters, OtherCreates, OtherExecMsg, OtherFrame, history
<1>2. Preserves(srv, srv')
  <2>1. CASE OtherAlters
    <3>1. PICK r, on : srv' = [srv EXCEPT !.attrs[r] = on]
      BY <2>1 DEF OtherAlters, ServerBecomes
    <3>2. srv'.acl = srv.acl /\ srv'.held = srv.held /\ srv'.at = srv.at
      BY <3>1, StandingShaped DEF TypeInv, Shaped, Fields
    <3> QED
      BY <3>2 DEF Preserves, Undone, OfKind, ObjectsIn
  <2>2. CASE OtherCreates
    <3>1. PICK o \in ObjectsIn(srv, Nowhere), d \in Databases, r \in srv.roles :
            srv' = Created(srv, o, d, r)
      BY <2>2 DEF OtherCreates, ServerBecomes
    <3> QED
      BY <3>1, UndoneCreated DEF Preserves, TypeInv
  <2>3. CASE OtherExecMsg
    BY <2>3, SamePreserves DEF OtherExecMsg, SameServer
  <2> QED
    BY <2>1, <2>2, <2>3
<1> QED
  BY <1>1, <1>2, RevokeStays

LEMMA InitRevoke == Init => RevokeInv
BY DEF Init, RevokeInv, ClearsOK, RevokedOK, RunsStatements, Unused

LEMMA NextRevoke == TypeInv /\ RevokeInv /\ [Next]_vars => RevokeInv'
<1> SUFFICES ASSUME TypeInv, RevokeInv, [Next]_vars PROVE RevokeInv'
  OBVIOUS
<1>0. ASSUME cmds' = cmds, srv' = srv, revoked' = revoked PROVE RevokeInv'
  BY <1>0, SamePreserves, RevokeStays
<1>1. CASE ReadRoles \/ LoadFails \/ RolesMsg \/ DatabasesMsg
  BY <1>0, <1>1 DEF ReadRoles, LoadFails, RolesMsg, DatabasesMsg, SameServer, history
<1>2. CASE Cancel \/ CloseAlert \/ MoveCursor \/ Refresh \/ PickRole
  BY <1>0, <1>2 DEF Cancel, Show, CloseAlert, MoveCursor, Refresh, PickRole, SameServer, history
<1>3. CASE OpensSomething
  BY <1>0, <1>3 DEF OpensSomething, OpenFinder, OpenRoleMenu, OpenCreateForm, OpenConnLimitForm,
     OpenAttrsForm, AskDropRole, AskResetPassword, StartGrantFlow, PickDB, OpenGrantConfirm,
     OpenForceDropForm, Show, SameServer, history
<1>4. CASE StartsSomething
  <2>1. srv' = srv /\ revoked' = revoked
    BY <1>4 DEF StartsSomething, CreateRoleYes, DropRoleYes, ResetPasswordYes, ConnLimitYes,
       AttrsYes, EscalateYes, GrantYes, ForceDropYes, OpenAccess, Submit, Start, Show, SameServer,
       history
  <2> QED
    BY <1>4, <2>1, StartsCleared, SamePreserves, RevokeStays
<1>5. ASSUME NEW i \in Ids, CommandStep(i) PROVE RevokeInv'
  <2>1. CASE ExecStep(i)
    BY <2>1, ExecRevokes
  <2>2. CASE ForceDropStep(i)
    <3>1. ForceDropMade(i)
      BY <2>2, ForceDropMakes
    <3>2. Preserves(srv, srv')
      <4>1. CASE srv' = srv
        BY <4>1, SamePreserves
      <4>2. ASSUME NEW q, NEW d, Takes(q), d \in Databases, srv' = After(srv, q, d)
            PROVE  Preserves(srv, srv')
        BY <4>2, StatementPreserves DEF Takes, Gives, TypeInv
      <4> QED
        BY <3>1, <4>1, <4>2 DEF ForceDropMade
    <3>3. /\ ~RunsStatements(cmds'[i]) /\ \A j \in Ids : j # i => cmds'[j] = cmds[j]
          /\ revoked' = revoked
      BY <3>1 DEF ForceDropMade, RunsStatements
    <3> QED
      BY <3>2, <3>3, RevokeStays
  <2>3. CASE ReadLevels(i) \/ ReadSchema(i) \/ ReadTables(i)
    <3>1. /\ ~RunsStatements(cmds'[i]) /\ \A j \in Ids : j # i => cmds'[j] = cmds[j]
          /\ revoked' = revoked /\ srv' = srv
      BY <2>3, ProbeMakes DEF RunsStatements, SameServer
    <3> QED
      BY <3>1, SamePreserves, RevokeStays
  <2>4. CASE ExecMsg(i) \/ RoleAccessMsg(i)
    <3>1. /\ cmds' = [cmds EXCEPT ![i] = Over] /\ revoked' = revoked /\ srv' = srv
          /\ DOMAIN cmds = Ids
      BY <2>4 DEF ExecMsg, RoleAccessMsg, Answer, history, TypeInv, CommandsTyped
    <3>2. ~RunsStatements(Over)
      BY DEF Over, Unused, RunsStatements
    <3> QED
      BY <3>1, <3>2, SamePreserves, RevokeStays
  <2> QED
    BY <1>5, <2>1, <2>2, <2>3, <2>4 DEF CommandStep
<1>6. CASE OtherAlters \/ OtherCreates \/ OtherExecMsg
  BY <1>6, OthersRevoke
<1>7. CASE UNCHANGED vars
  BY <1>0, <1>7 DEF vars, history
<1> QED
  BY <1>1, <1>2, <1>3, <1>4, <1>5, <1>6, <1>7 DEF Next

LEMMA RevokesAlways == Spec => []RevokeInv
<1>1. Init => RevokeInv
  BY InitRevoke
<1>2. TypeInv /\ RevokeInv /\ [Next]_vars => RevokeInv'
  BY NextRevoke
<1> QED
  BY <1>1, <1>2, TypesAlways, PTL DEF Spec

\* Once a revoke on a schema was reported done the role has nothing there: not on a
\* table made while it ran, and by no default on one made later (BuildRevoke).
THEOREM RevokesEverything == Spec => []RevokedIsGone
<1>1. RevokeInv => RevokedIsGone
  <2> SUFFICES ASSUME RevokeInv, NEW p \in revoked
               PROVE  /\ \A o \in ObjectsIn(srv, p[1]) : <<o, p[2]>> \notin srv.acl
                      /\ \A w \in {"usage", "table", "sequence"} : <<p[1], p[2], w>> \notin srv.held
    BY DEF RevokedIsGone
  <2>1. Undone(srv, p[1], p[2], 5)
    BY DEF RevokeInv, RevokedOK
  <2>2. /\ \A w \in {"usage", "table", "sequence"} : <<p[1], p[2], w>> \notin srv.held
        /\ \A k \in Kinds : \A o \in OfKind(srv, p[1], k) : <<o, p[2]>> \notin srv.acl
    BY <2>1 DEF Undone, Kinds
  <2>3. \A o \in ObjectsIn(srv, p[1]) : Kind[o] \in Kinds /\ o \in OfKind(srv, p[1], Kind[o])
    BY ServerConstants DEF ObjectsIn, OfKind
  <2> QED
    BY <2>2, <2>3
<1> QED
  BY <1>1, RevokesAlways, PTL

----------------------------------------------------------------------------
(* The report of a role's access.                                          *)

Among(s) == {s[k] : k \in DOMAIN s}
\* The databases where a role has had this level of access all the time.
HeldOn(k, level) == {d \in Databases : <<d, level>> \in k}

\* What the role has had all the time it still has, and what was read of it is in the
\* report: the rest of the databases is yet to be read.
Told(c, k) ==
  /\ c.pc \in {"schemas", "tables", "answered"} => HeldOn(k, "database") \subseteq c.found
  /\ c.pc = "schemas" =>
       HeldOn(k, "schema") \union HeldOn(k, "tables") \subseteq c.found \union Among(c.dbs)
  /\ c.pc = "tables" =>
       /\ HeldOn(k, "schema") \subseteq c.found \union Among(Tail(c.dbs))
       /\ HeldOn(k, "tables") \subseteq c.found \union Among(c.dbs)
  /\ c.pc = "answered" => HeldOn(k, "schema") \union HeldOn(k, "tables") \subseteq c.found
ReportOK(s, c, k) == k \subseteq Granted(s, c.role) /\ Told(c, k)
ReportInv == \A i \in Ids : Probe(cmds[i]) => ReportOK(srv, cmds[i], kept[i])

\* The databases left to read are the first of them and the rest.
LEMMA AmongParts ==
  ASSUME NEW S, NEW s \in Seq(S), s # <<>>
  PROVE  /\ Among(s) = {Head(s)} \union Among(Tail(s))
         /\ Len(s) = 1 => Among(Tail(s)) = {}
<1>1. /\ Len(s) \in Nat \ {0} /\ DOMAIN s = 1 .. Len(s) /\ Head(s) = s[1]
      /\ DOMAIN Tail(s) = 1 .. Len(s) - 1
      /\ \A k \in 1 .. Len(s) - 1 : Tail(s)[k] = s[k + 1]
  BY FirstAndRest
<1> DEFINE t == Tail(s)
<1> HIDE DEF t
<1>2. ASSUME NEW x \in Among(s) PROVE x = Head(s) \/ x \in Among(t)
  <2>1. PICK k \in 1 .. Len(s) : x = s[k]
    BY <1>1 DEF Among
  <2>2. CASE k = 1
    BY <1>1, <2>1, <2>2
  <2>3. CASE k # 1
    <3>1. k - 1 \in 1 .. Len(s) - 1 /\ (k - 1) + 1 = k
      BY <1>1, <2>3
    <3>2. t[k - 1] = s[k] /\ k - 1 \in DOMAIN t
      BY <1>1, <3>1 DEF t
    <3> QED
      BY <2>1, <3>2 DEF Among
  <2> QED
    BY <2>2, <2>3
<1>3. ASSUME NEW x \in Among(t) PROVE x \in Among(s)
  <2>1. PICK k \in 1 .. Len(s) - 1 : x = t[k]
    BY <1>1 DEF Among, t
  <2>2. x = s[k + 1] /\ k + 1 \in DOMAIN s
    BY <1>1, <2>1 DEF t
  <2> QED
    BY <2>2 DEF Among
<1>4. Head(s) \in Among(s)
  <2>1. 1 \in DOMAIN s
    BY <1>1
  <2> QED
    BY <1>1, <2>1 DEF Among
<1>5. Len(s) = 1 => Among(t) = {}
  BY <1>1 DEF Among, t
<1> QED
  BY <1>2, <1>3, <1>4, <1>5 DEF t

\* What a role has on a level of a database.
LEMMA GrantedOn ==
  ASSUME NEW s, NEW r, NEW k, k \subseteq Granted(s, r)
  PROVE  /\ \A d \in HeldOn(k, "database") : d \in Databases /\ DatabaseAccess(s, d, r)
         /\ \A d \in HeldOn(k, "schema") : d \in Databases /\ SchemaAccess(s, d, r)
         /\ \A d \in HeldOn(k, "tables") : d \in Databases /\ TableAccess(s, d, r)
<1>1. ASSUME NEW d, NEW l, d \in HeldOn(k, l) PROVE d \in Databases /\ HasAccess(s, d, r, l)
  <2>1. <<d, l>> \in Granted(s, r) /\ <<d, l>>[1] = d /\ <<d, l>>[2] = l /\ d \in Databases
    BY <1>1 DEF HeldOn
  <2> QED
    BY <2>1 DEF Granted
<1>2. ASSUME NEW d
      PROVE  /\ HasAccess(s, d, r, "database") => DatabaseAccess(s, d, r)
             /\ HasAccess(s, d, r, "schema") => SchemaAccess(s, d, r)
             /\ HasAccess(s, d, r, "tables") => TableAccess(s, d, r)
  BY DEF HasAccess
<1> QED
  BY <1>1, <1>2

\* What a role has still had after a step.
LEMMA ReportStays ==
  ASSUME KeptInv, NEW i \in Ids, Probe(cmds[i]), ReportOK(srv, cmds[i], kept[i]),
         SameServer \/ ServerBecomes(srv')
  PROVE  ReportOK(srv', cmds[i], kept'[i])
<1>1. kept'[i] \subseteq kept[i] /\ kept'[i] \subseteq Granted(srv', cmds[i].role)
  <2>1. CASE SameServer
    BY <2>1 DEF SameServer, ReportOK
  <2>2. CASE ServerBecomes(srv')
    <3>1. kept'[i] = kept[i] \intersect Concern(srv', cmds[i])
      BY <2>2 DEF ServerBecomes
    <3>2. Concern(srv', cmds[i]) = Granted(srv', cmds[i].role)
      BY DEF Concern, Probe, ForcedDrop
    <3> QED BY <3>1, <3>2
  <2> QED BY <2>1, <2>2
<1>2. \A l : HeldOn(kept'[i], l) \subseteq HeldOn(kept[i], l)
  BY <1>1 DEF HeldOn
<1>3. Told(cmds[i], kept[i])
  BY DEF ReportOK
<1>4. Told(cmds[i], kept'[i])
  BY <1>2, <1>3 DEF Told
<1> QED
  BY <1>1, <1>4 DEF ReportOK

LEMMA ReportFrame ==
  ASSUME KeptInv, ReportInv, SameServer \/ ServerBecomes(srv'),
         \A i \in Ids : Probe(cmds'[i]) =>
           cmds'[i] = cmds[i] \/ ReportOK(srv', cmds'[i], kept'[i])
  PROVE  ReportInv'
BY ReportStays DEF ReportInv

\* The report goes on to the next database.
LEMMA ReportGoesOn ==
  ASSUME NEW c, LooksForAccess(c), c.dbs # <<>>, NEW more \in SUBSET Databases, NEW k,
         HeldOn(k, "database") \subseteq c.found,
         HeldOn(k, "schema") \union HeldOn(k, "tables")
           \subseteq c.found \union more \union Among(Tail(c.dbs))
  PROVE  Told(NextReport(c, more), k)
<1> DEFINE b == NextReport(c, more)
<1>1. /\ b.found = c.found \union more /\ b.dbs = Tail(c.dbs)
      /\ b.pc = IF Len(c.dbs) = 1 THEN "answered" ELSE "schemas"
  BY NextReportTyped
<1>2. Len(c.dbs) = 1 => Among(Tail(c.dbs)) = {}
  BY AmongParts DEF LooksForAccess
<1> HIDE DEF b
<1>3. Told(b, k)
  <2>1. CASE Len(c.dbs) = 1
    BY <1>1, <1>2, <2>1 DEF Told
  <2>2. CASE Len(c.dbs) # 1
    BY <1>1, <2>2 DEF Told
  <2> QED BY <2>1, <2>2
<1> QED
  BY <1>3 DEF b

LEMMA ProbeReports ==
  ASSUME TypeInv, KeptInv, ReportInv, NEW i \in Ids,
         ReadLevels(i) \/ ReadSchema(i) \/ ReadTables(i)
  PROVE  ReportInv'
<1> DEFINE c == cmds[i]
           k == kept[i]
           r == c.role
<1>1. /\ Probe(c) /\ LooksForAccess(c) /\ SameServer /\ DOMAIN cmds = Ids
      /\ \A j \in Ids : j # i => cmds'[j] = cmds[j]
      /\ k \subseteq Granted(srv, r) /\ Told(c, k)
  <2>1. Probe(c)
    BY DEF ReadLevels, ReadSchema, ReadTables
  <2> QED
    BY <2>1, KindOf, ProbeMakes DEF TypeInv, CommandsTyped, ReportInv, ReportOK
<1>2. /\ \A d \in HeldOn(k, "database") : d \in Databases /\ DatabaseAccess(srv, d, r)
      /\ \A d \in HeldOn(k, "schema") : d \in Databases /\ SchemaAccess(srv, d, r)
      /\ \A d \in HeldOn(k, "tables") : d \in Databases /\ TableAccess(srv, d, r)
  BY <1>1, GrantedOn
<1>3. ASSUME NEW b, Becomes(i, b), LooksForAccess(b), Told(b, k), b.role = r PROVE ReportInv'
  <2>1. cmds'[i] = b /\ srv' = srv /\ kept' = kept
    BY <1>1, <1>3 DEF Becomes, SameServer
  <2>2. ReportOK(srv', cmds'[i], kept'[i])
    BY <1>1, <1>3, <2>1 DEF ReportOK
  <2> QED
    BY <1>1, <2>2, ReportFrame
<1>4. ASSUME NEW more \in SUBSET Databases, Becomes(i, NextReport(c, more)), c.dbs # <<>>,
             HeldOn(k, "database") \subseteq c.found,
             HeldOn(k, "schema") \union HeldOn(k, "tables")
               \subseteq c.found \union more \union Among(Tail(c.dbs))
      PROVE  ReportInv'
  <2>1. Told(NextReport(c, more), k) /\ LooksForAccess(NextReport(c, more))
    BY <1>1, <1>4, ReportGoesOn, NextReportTyped
  <2>2. NextReport(c, more).role = r
    BY <1>1 DEF NextReport, LooksForAccess
  <2> QED
    BY <1>3, <1>4, <2>1, <2>2
<1> HIDE DEF k
<1>5. CASE ReadLevels(i)
  <2> DEFINE found == {d \in Databases : DatabaseAccess(srv, d, r)}
             b == [c EXCEPT !.pc = "schemas", !.dbs = DatabaseOrder, !.found = found]
  <2>1. Becomes(i, b)
    BY <1>5 DEF ReadLevels, Learn
  <2>2. \A d \in Databases : d \in Among(DatabaseOrder)
    BY TabConstants DEF Among
  <2>3. HeldOn(k, "database") \subseteq found /\ found \subseteq Databases
    BY <1>2
  <2>4. HeldOn(k, "schema") \union HeldOn(k, "tables") \subseteq Among(DatabaseOrder)
    BY <1>2, <2>2
  <2>5. DatabaseOrder \in Seq(Databases) /\ DatabaseOrder # <<>>
    BY TabConstants, ServerConstants
  <2> HIDE DEF found
  <2>6. /\ LooksForAccess(b) /\ b.role = r
        /\ b.pc = "schemas" /\ b.dbs = DatabaseOrder /\ b.found = found
    BY <1>1, <2>3, <2>5 DEF LooksForAccess
  <2> HIDE DEF b
  <2>7. Told(b, k)
    BY <2>3, <2>4, <2>6 DEF Told
  <2> QED
    BY <1>3, <2>1, <2>6, <2>7
<1>6. ASSUME c.pc \in {"schemas", "tables"}
      PROVE  /\ c.dbs # <<>> /\ Head(c.dbs) \in Databases
             /\ Among(c.dbs) = {Head(c.dbs)} \union Among(Tail(c.dbs))
             /\ HeldOn(k, "database") \subseteq c.found
             /\ c.pc = "schemas" =>
                  HeldOn(k, "schema") \union HeldOn(k, "tables") \subseteq c.found \union Among(c.dbs)
             /\ c.pc = "tables" =>
                  /\ HeldOn(k, "schema") \subseteq c.found \union Among(Tail(c.dbs))
                  /\ HeldOn(k, "tables") \subseteq c.found \union Among(c.dbs)
  <2>1. c.dbs # <<>> /\ c.dbs \in Seq(Databases)
    BY <1>1, <1>6 DEF LooksForAccess
  <2>2. Head(c.dbs) \in Databases /\ Among(c.dbs) = {Head(c.dbs)} \union Among(Tail(c.dbs))
    BY <2>1, FirstAndRest, AmongParts
  <2> QED
    BY <1>1, <1>6, <2>1, <2>2 DEF Told
<1>7. CASE Unreadable(i) /\ c.pc \in {"schemas", "tables"}
  <2>1. Becomes(i, NextReport(c, {Head(c.dbs)}))
    BY <1>7 DEF Unreadable
  <2> QED
    BY <1>4, <1>6, <1>7, <2>1
<1>8. CASE ReadSchema(i) /\ ~Unreadable(i)
  <2> DEFINE more == IF SchemaAccess(srv, Head(c.dbs), r) THEN {Head(c.dbs)} ELSE {}
             b == [c EXCEPT !.found = FoundToo(c, more), !.pc = "tables"]
  <2>1. Becomes(i, b) /\ c.pc = "schemas"
    BY <1>8 DEF ReadSchema, Learn
  <2>2. more \subseteq Databases /\ (Head(c.dbs) \in HeldOn(k, "schema") => Head(c.dbs) \in more)
    BY <1>2, <1>6, <2>1
  <2> HIDE DEF more
  <2>3. /\ LooksForAccess(b) /\ b.role = r
        /\ b.pc = "tables" /\ b.dbs = c.dbs /\ b.found = c.found \union more
    BY <1>1, <1>6, <2>1, <2>2 DEF LooksForAccess, FoundToo
  <2> HIDE DEF b
  <2>4. Told(b, k)
    BY <1>6, <2>1, <2>2, <2>3 DEF Told
  <2> QED
    BY <1>3, <2>1, <2>3, <2>4
<1>9. CASE ReadTables(i) /\ ~Unreadable(i)
  <2> DEFINE more == IF TableAccess(srv, Head(c.dbs), r) THEN {Head(c.dbs)} ELSE {}
  <2>1. Becomes(i, NextReport(c, more)) /\ c.pc = "tables"
    BY <1>9 DEF ReadTables, Learn
  <2>2. more \subseteq Databases /\ (Head(c.dbs) \in HeldOn(k, "tables") => Head(c.dbs) \in more)
    BY <1>2, <1>6, <2>1
  <2> HIDE DEF more
  <2>3. HeldOn(k, "schema") \union HeldOn(k, "tables")
          \subseteq c.found \union more \union Among(Tail(c.dbs))
    BY <1>6, <2>1, <2>2
  <2> QED
    BY <1>4, <1>6, <2>1, <2>2, <2>3
<1> QED
  BY <1>5, <1>7, <1>8, <1>9 DEF ReadSchema, ReadTables

LEMMA InitReport == Init => ReportInv
BY DEF Init, ReportInv, Probe, Active, Unused

LEMMA StartReports ==
  ASSUME TypeInv, KeptInv, ReportInv, StartsSomething
  PROVE  ReportInv'
<1>1. ASSUME NEW c, Start(c), Probe(c) => c.pc = "pool" PROVE ReportInv'
  <2> DEFINE n == NextId
  <2>1. /\ n \in Ids /\ srv' = srv /\ DOMAIN cmds = Ids /\ DOMAIN kept = Ids
        /\ cmds' = [cmds EXCEPT ![n] = c] /\ kept' = [kept EXCEPT ![n] = Concern(srv, c)]
    BY <1>1 DEF Start, KeptInv
  <2> HIDE DEF n
  <2>2. ASSUME NEW i \in Ids, Probe(cmds'[i]) PROVE ReportOK(srv', cmds'[i], kept'[i])
    <3>1. CASE i = n
      <4>1. cmds'[i] = c /\ kept'[i] = Concern(srv, c)
        BY <2>1, <3>1
      <4>2. Concern(srv, c) = Granted(srv, c.role)
        BY <2>2, <4>1 DEF Concern, Probe, ForcedDrop
      <4>3. Told(c, kept'[i])
        BY <1>1, <2>2, <4>1 DEF Told
      <4> QED
        BY <2>1, <4>1, <4>2, <4>3 DEF ReportOK
    <3>2. CASE i # n
      <4>1. cmds'[i] = cmds[i] /\ kept'[i] = kept[i]
        BY <2>1, <3>2
      <4> QED
        BY <2>1, <2>2, <4>1 DEF ReportInv
    <3> QED BY <3>1, <3>2
  <2> QED
    BY <2>2 DEF ReportInv
<1>2. CASE \E m : Show(m)
  BY <1>2, ReportFrame DEF Show
<1>3. \A act, r, on : Statements(act, r, on).pc = "pool"
  BY DEF Statements
<1>4. CASE CreateRoleYes \/ DropRoleYes \/ ConnLimitYes \/ EscalateYes \/ ResetPasswordYes
  <2>1. \E act, r, on : Start(Statements(act, r, on))
    BY <1>4, Zenon DEF CreateRoleYes, DropRoleYes, ConnLimitYes, EscalateYes, ResetPasswordYes,
                       Submit
  <2> QED
    BY <1>1, <1>3, <2>1
<1>5. CASE AttrsYes
  <2>1. (\E m : Show(m)) \/ \E act, r, on : Submit(Statements(act, r, on))
    BY <1>5, Zenon DEF AttrsYes
  <2> QED
    BY <1>1, <1>2, <1>3, <2>1 DEF Submit
<1>6. CASE GrantYes
  <2>1. PICK x : Submit([Statements("grant", modal.role, modal.on) EXCEPT !.clears = x])
    BY <1>6, Zenon DEF GrantYes
  <2>2. [Statements("grant", modal.role, modal.on) EXCEPT !.clears = x].pc = "pool"
    BY DEF Statements
  <2> QED
    BY <1>1, <2>1, <2>2 DEF Submit
<1>7. CASE ForceDropYes
  <2>1. \A r, to : ForceDrop(r, to).pc = "pool"
    BY DEF ForceDrop
  <2> QED
    BY <1>1, <1>7, <2>1 DEF ForceDropYes, Submit
<1>8. CASE OpenAccess
  <2>1. RoleAccess(Selected.name).pc = "pool"
    BY DEF RoleAccess
  <2> QED
    BY <1>1, <1>8, <2>1 DEF OpenAccess, Submit
<1> QED
  BY <1>4, <1>5, <1>6, <1>7, <1>8 DEF StartsSomething

LEMMA StepReported == TypeInv /\ KeptInv /\ ReportInv /\ [Next]_vars => ReportInv'
<1> SUFFICES ASSUME TypeInv, KeptInv, ReportInv, [Next]_vars PROVE ReportInv'
  OBVIOUS
<1>0. ASSUME cmds' = cmds, SameServer \/ ServerBecomes(srv') PROVE ReportInv'
  BY <1>0, ReportFrame
<1>1. CASE ReadRoles \/ LoadFails \/ RolesMsg \/ DatabasesMsg
  BY <1>0, <1>1 DEF ReadRoles, LoadFails, RolesMsg, DatabasesMsg
<1>2. CASE Cancel \/ CloseAlert \/ MoveCursor \/ Refresh \/ PickRole
  BY <1>0, <1>2 DEF Cancel, Show, CloseAlert, MoveCursor, Refresh, PickRole
<1>3. CASE OpensSomething
  BY <1>0, <1>3 DEF OpensSomething, OpenFinder, OpenRoleMenu, OpenCreateForm, OpenConnLimitForm,
     OpenAttrsForm, AskDropRole, AskResetPassword, StartGrantFlow, PickDB, OpenGrantConfirm,
     OpenForceDropForm, Show
<1>4. CASE StartsSomething
  BY <1>4, StartReports
<1>5. ASSUME NEW i \in Ids, CommandStep(i) PROVE ReportInv'
  <2>0. DOMAIN cmds = Ids
    BY DEF KeptInv
  <2>1. CASE RunStatement(i)
    <3>1. ServerBecomes(srv')
      BY <2>1 DEF RunStatement, ServerBecomes
    <3> DEFINE c == cmds[i]
               q == Head(c.todo)
               given == Gives(q, c.target)
               ends == Len(c.todo) = 1
    <3>2. /\ RunsStatements(c)
          /\ \A j \in Ids : j # i =>
               cmds'[j] = IF HasStatements(j) THEN StillOne(given, cmds[j]) ELSE cmds[j]
          /\ \/ cmds'[i] = [StillOne(given, c) EXCEPT !.todo = Tail(c.todo),
                               !.pc = IF ends THEN "answered" ELSE "run"]
             \/ cmds'[i] = [StillOne(given, c) EXCEPT !.pc = "failed"]
      BY <2>1, RunMakes DEF TypeInv
    <3> HIDE DEF given, q, ends
    <3>3. cmds'[i].act = cmds[i].act /\ cmds[i].act # "access"
      BY <3>2 DEF RunsStatements, StillOne
    <3>4. ASSUME NEW j \in Ids, j # i, Probe(cmds'[j]) PROVE cmds'[j] = cmds[j]
      <4>1. CASE HasStatements(j)
        <5>1. RunsStatements(cmds[j])
          BY <4>1, KindOf DEF TypeInv
        <5>2. cmds'[j].act = cmds[j].act /\ cmds[j].act # "access"
          BY <3>2, <3>4, <4>1, <5>1 DEF RunsStatements, StillOne
        <5> QED BY <3>4, <5>2 DEF Probe
      <4> QED
        BY <3>2, <3>4, <4>1
    <3> QED
      BY <3>1, <3>3, <3>4, ReportFrame DEF Probe
  <2>2. CASE GetPool(i) \/ RefuseStatement(i) \/ CommandFails(i)
    <3>1. PICK pc \in {"run", "levels", "owned", "failed"} :
            Becomes(i, [cmds[i] EXCEPT !.pc = pc])
      BY <2>2, Zenon DEF GetPool, RefuseStatement, CommandFails
    <3>2. SameServer /\ Active(cmds[i]) /\ HasCommon(cmds[i])
      BY <2>2 DEF GetPool, RefuseStatement, CommandFails, HasStatements, Active, KeptInv
    <3> DEFINE b == [cmds[i] EXCEPT !.pc = pc]
    <3>3. /\ cmds'[i] = b /\ b.pc = pc /\ b.act = cmds[i].act /\ b.role = cmds[i].role
          /\ \A j \in Ids : j # i => cmds'[j] = cmds[j]
      BY <2>0, <3>1, <3>2 DEF Becomes, HasCommon
    <3> HIDE DEF b
    <3>4. ASSUME Probe(b) PROVE ReportOK(srv, b, kept[i])
      <4>1. ReportOK(srv, cmds[i], kept[i])
        BY <3>2, <3>3, <3>4 DEF Probe, ReportInv
      <4> QED
        BY <3>3, <4>1 DEF ReportOK, Told
    <3> QED
      BY <3>2, <3>3, <3>4, ReportFrame DEF SameServer
  <2>3. CASE ForceDropStep(i)
    <3>1. ForceDropMade(i)
      BY <2>3, ForceDropMakes
    <3>2. ~Probe(cmds'[i]) /\ \A j \in Ids : j # i => cmds'[j] = cmds[j]
      BY <3>1 DEF ForceDropMade, Probe
    <3>3. SameServer \/ ServerBecomes(srv')
      <4>1. ASSUME NEW q, NEW d, NEW done, NEW failed, Attempt(i, q, d, done, failed)
            PROVE  SameServer \/ ServerBecomes(srv')
        BY <4>1 DEF Attempt, ServerBecomes
      <4>2. ASSUME NEW c, Learn(i, c) PROVE SameServer
        BY <4>2 DEF Learn
      <4> QED
        BY <2>3, <4>1, <4>2 DEF ForceDropStep, DatabasesOwnedBy, AlterOwner, ConnectableDatabases,
           VisitDatabase, ReassignOwned, DropWhatIsOwned, DropTheRole
    <3> QED
      BY <3>2, <3>3, ReportFrame
  <2>4. CASE ReadLevels(i) \/ ReadSchema(i) \/ ReadTables(i)
    BY <2>4, ProbeReports
  <2>5. CASE ExecMsg(i) \/ RoleAccessMsg(i)
    <3>1. /\ cmds' = [cmds EXCEPT ![i] = Over] /\ kept' = [kept EXCEPT ![i] = {}] /\ srv' = srv
          /\ DOMAIN kept = Ids
      BY <2>5 DEF ExecMsg, RoleAccessMsg, Answer, KeptInv
    <3>2. ~Probe(Over)
      BY DEF Over, Unused, Probe, Active
    <3>3. ASSUME NEW j \in Ids, Probe(cmds'[j]) PROVE ReportOK(srv', cmds'[j], kept'[j])
      <4>1. j # i
        BY <2>0, <3>1, <3>2, <3>3
      <4>2. cmds'[j] = cmds[j] /\ kept'[j] = kept[j]
        BY <2>0, <3>1, <4>1
      <4> QED
        BY <3>1, <3>3, <4>2 DEF ReportInv
    <3> QED
      BY <3>3 DEF ReportInv
  <2> QED
    BY <1>5, <2>1, <2>2, <2>3, <2>4, <2>5 DEF CommandStep, ExecStep
<1>6. CASE OtherAlters \/ OtherCreates \/ OtherExecMsg
  <2>1. SameServer \/ ServerBecomes(srv')
    BY <1>6 DEF OtherAlters, OtherCreates, OtherExecMsg, ServerBecomes
  <2> QED
    BY <1>0, <1>6, <2>1 DEF OtherAlters, OtherCreates, OtherExecMsg, OtherFrame
<1>7. CASE UNCHANGED vars
  BY <1>0, <1>7 DEF vars, SameServer
<1> QED
  BY <1>1, <1>2, <1>3, <1>4, <1>5, <1>6, <1>7 DEF Next

\* The report of a role's access leaves no database out where the role had access on one
\* level, the database, its schema or its tables, from the question to the answer: a
\* database that cannot be read counts as one (RoleAccess).
THEOREM ReportsAccess == Spec => []ReportIsWhole
<1>1. Init => ReportInv
  BY InitReport
<1>2. TypeInv /\ KeptInv /\ ReportInv /\ [Next]_vars => ReportInv'
  BY StepReported
<1>3. ReportInv => ReportIsWhole
  <2> SUFFICES ASSUME ReportInv, NEW i \in Ids, Probe(cmds[i]), cmds[i].pc = "answered",
                      NEW g \in kept[i], g[2] \in Levels
               PROVE  g[1] \in cmds[i].found
    BY DEF ReportIsWhole
  <2> DEFINE c == cmds[i]
             k == kept[i]
  <2>1. k \subseteq Granted(srv, c.role) /\ Told(c, k)
    BY DEF ReportInv, ReportOK
  <2>2. g = <<g[1], g[2]>> /\ g[1] \in Databases
    BY <2>1 DEF Granted
  <2>3. g[1] \in HeldOn(k, g[2])
    BY <2>2 DEF HeldOn
  <2>4. \A level \in Levels : HeldOn(k, level) \subseteq c.found
    BY <2>1 DEF Told, Levels
  <2> QED
    BY <2>3, <2>4
<1> QED
  BY <1>1, <1>2, <1>3, TypesAlways, KeptAlways, PTL DEF Spec

----------------------------------------------------------------------------
(* The new password.                                                       *)

Resets(i) == Active(cmds[i]) /\ cmds[i].act = "reset password"
ChangesRole(i) == Active(cmds[i]) /\ cmds[i].act \in Changes
\* The operations that set a password.
SetsPassword == {"create role", "password"}

\* A reset that nothing overlaps is the one whose password is to be shown, for the role
\* it is set for; once it is done the server has it.
ResetOK(i) ==
  /\ newPassword = i /\ pendingPwdRole = cmds[i].role
  /\ \A j \in Ids \ {i} : ~ChangesRole(j)
  /\ cmds[i].pc \in {"pool", "run"} => cmds[i].todo = <<SetPassword(cmds[i].role, i)>>
  /\ cmds[i].pc = "answered" => srv.pwd[cmds[i].role] = i

\* The commands that are no change of a role leave passwords alone.
LeavesPasswords(list) == \A k \in DOMAIN list : list[k].op \notin SetsPassword
ModalLeaves == modal.kind = "escalate" => LeavesPasswords(modal.list)
CommandsLeave ==
  \A i \in Ids : RunsStatements(cmds[i]) /\ cmds[i].act \notin Changes
                   => LeavesPasswords(cmds[i].todo)
ResetsOK == ~mixed => \A i \in Ids : Resets(i) => ResetOK(i)
PasswordInv == mixed \in BOOLEAN /\ ModalLeaves /\ CommandsLeave /\ ResetsOK

\* A command that goes on, and does not finish a reset.
Continues(c, b) ==
  /\ Active(c) /\ b.act = c.act
  /\ RunsStatements(b) =>
       /\ RunsStatements(c) /\ (LeavesPasswords(c.todo) => LeavesPasswords(b.todo))
       /\ c.act = "reset password" =>
            /\ b.role = c.role /\ b.todo = c.todo
            /\ b.pc \in {"pool", "run"} => c.pc \in {"pool", "run"}
            /\ b.pc = "answered" => c.pc = "answered"

LEMMA StatementsActive ==
  ASSUME NEW c
  PROVE  /\ RunsStatements(c) => Active(c)
         /\ CommandOK(c) /\ Active(c) /\ c.act = "reset password" => RunsStatements(c)
<1>1. RunsStatements(c) => Active(c)
  BY DEF RunsStatements, Active
<1>2. c \in {Unused, Over} => ~Active(c)
  BY DEF Unused, Over, Active
<1>3. DropsByForce(c) \/ LooksForAccess(c) => c.act # "reset password"
  BY DEF DropsByForce, LooksForAccess
<1> QED
  BY <1>1, <1>2, <1>3 DEF CommandOK

LEMMA PasswordFrame ==
  ASSUME TypeInv', PasswordInv, UNCHANGED <<mixed, newPassword, pendingPwdRole>>,
         srv'.pwd = srv.pwd, ModalLeaves',
         \A i \in Ids : cmds'[i] = cmds[i] \/ ~Active(cmds'[i]) \/ Continues(cmds[i], cmds'[i])
  PROVE  PasswordInv'
<1>1. ASSUME NEW i \in Ids, RunsStatements(cmds'[i]), cmds'[i].act \notin Changes
      PROVE  LeavesPasswords(cmds'[i].todo)
  <2>1. cmds'[i] = cmds[i] \/ Continues(cmds[i], cmds'[i])
    BY <1>1, StatementsActive
  <2> QED
    BY <1>1, <2>1 DEF PasswordInv, CommandsLeave, Continues
<1>2. ASSUME NEW i \in Ids, Active(cmds'[i])
      PROVE  Active(cmds[i]) /\ cmds'[i].act = cmds[i].act
  BY <1>2 DEF Continues
<1>3. ASSUME NEW i \in Ids, ~mixed, Active(cmds'[i]), cmds'[i].act = "reset password"
      PROVE  ResetOK(i)'
  <2>1. RunsStatements(cmds'[i])
    BY <1>3, StatementsActive DEF TypeInv, CommandsTyped
  <2>2. Active(cmds[i]) /\ cmds[i].act = "reset password"
    BY <1>2, <1>3
  <2>3. ResetOK(i)
    BY <1>3, <2>2 DEF PasswordInv, ResetsOK, Resets
  <2>4. /\ cmds'[i].role = cmds[i].role /\ cmds'[i].todo = cmds[i].todo
        /\ cmds'[i].pc \in {"pool", "run"} => cmds[i].pc \in {"pool", "run"}
        /\ cmds'[i].pc = "answered" => cmds[i].pc = "answered"
    BY <1>3, <2>1, <2>2 DEF Continues
  <2>5. ASSUME NEW j \in Ids \ {i} PROVE ~(Active(cmds'[j]) /\ cmds'[j].act \in Changes)
    BY <1>2, <2>3 DEF ResetOK, ChangesRole
  <2> QED
    BY <2>3, <2>4, <2>5 DEF ResetOK, ChangesRole
<1> QED
  BY <1>1, <1>3 DEF PasswordInv, CommandsLeave, ResetsOK, Resets

\* A command starts.
LEMMA StartPassword ==
  ASSUME TypeInv, PasswordInv, NEW c, Start(c),
         pendingPwdRole' = pendingPwdRole, ModalLeaves',
         c.act # "reset password" => newPassword' = newPassword,
         c.act = "reset password" =>
           /\ c.role = pendingPwdRole /\ newPassword' = NextId /\ c.pc = "pool"
           /\ c.todo = <<SetPassword(c.role, NextId)>>,
         RunsStatements(c) /\ c.act \notin Changes => LeavesPasswords(c.todo)
  PROVE  PasswordInv'
<1> DEFINE n == NextId
<1>1. /\ n \in Ids /\ srv' = srv /\ cmds' = [cmds EXCEPT ![n] = c] /\ DOMAIN cmds = Ids
      /\ mixed' = (mixed \/ Overlaps(c)) /\ mixed \in BOOLEAN
  BY DEF Start, TypeInv, CommandsTyped, PasswordInv
<1> HIDE DEF n
<1>2. cmds'[n] = c /\ \A i \in Ids : i # n => cmds'[i] = cmds[i]
  BY <1>1
<1>3. CommandsLeave'
  BY <1>2 DEF CommandsLeave, PasswordInv
<1>4. ASSUME ~mixed', NEW i \in Ids, Active(cmds'[i]), cmds'[i].act = "reset password"
      PROVE  ResetOK(i)'
  <2>1. ~mixed /\ ~Overlaps(c)
    BY <1>1, <1>4
  <2>2. \A j \in Ids :
          Active(cmds[j]) /\ cmds[j].act \in Changes /\ c.act \in Changes
            => c.act # "reset password" /\ cmds[j].act # "reset password"
    BY <2>1 DEF Overlaps
  <2>3. "reset password" \in Changes
    BY DEF Changes
  <2>4. CASE i = n
    <3>1. \A j \in Ids \ {n} : ~(Active(cmds'[j]) /\ cmds'[j].act \in Changes)
      BY <1>2, <1>4, <2>2, <2>3, <2>4
    <3>2. /\ cmds'[i] = c /\ c.role = pendingPwdRole /\ newPassword' = n /\ c.pc = "pool"
          /\ c.todo = <<SetPassword(c.role, n)>>
      BY <1>2, <1>4, <2>4 DEF n
    <3> QED
      BY <2>4, <3>1, <3>2 DEF ResetOK, ChangesRole
  <2>5. CASE i # n
    <3>1. cmds'[i] = cmds[i] /\ c.act \notin Changes
      BY <1>2, <1>4, <2>2, <2>3, <2>5
    <3>2. ResetOK(i)
      BY <1>4, <2>1, <3>1 DEF PasswordInv, ResetsOK, Resets
    <3>3. \A j \in Ids \ {i} : ~(Active(cmds'[j]) /\ cmds'[j].act \in Changes)
      BY <1>2, <3>1, <3>2 DEF ResetOK, ChangesRole
    <3>4. newPassword' = newPassword
      BY <2>3, <3>1
    <3> QED
      BY <1>1, <3>1, <3>2, <3>3, <3>4 DEF ResetOK, ChangesRole
  <2> QED
    BY <2>4, <2>5
<1>5. mixed' \in BOOLEAN
  BY <1>1
<1> QED
  BY <1>3, <1>4, <1>5 DEF PasswordInv, ResetsOK, Resets

\* What a statement does to the passwords.
LEMMA PasswordsAfter ==
  ASSUME NEW s, Standing(s), NEW q, NEW d, q.op \notin SetsPassword
  PROVE  After(s, q, d).pwd = s.pwd
<1>0. Shaped(s)
  BY StandingShaped
<1> USE <1>0 DEF Shaped, Fields, After, SetsPassword
<1>1. CASE q.op = "drop role" BY <1>1
<1>2. CASE q.op = "alter role" BY <1>2
<1>3. CASE q.op = "grant" BY <1>3
<1>4. CASE q.op = "revoke" BY <1>4
<1>5. CASE q.op = "grant here" BY <1>5
<1>6. CASE q.op = "revoke here" BY <1>6
<1>7. CASE q.op = "grant all" BY <1>7
<1>8. CASE q.op = "revoke all" BY <1>8
<1>9. CASE q.op = "own" BY <1>9
<1>10. CASE q.op = "reassign" BY <1>10 DEF Reassigned
<1>11. CASE q.op = "drop owned" BY <1>11 DEF WithoutOwned
<1>12. CASE q.op \notin {"create role", "drop role", "alter role", "password", "grant", "revoke",
                         "grant here", "revoke here", "grant all", "revoke all", "own",
                         "reassign", "drop owned"}
  BY <1>12
<1> QED
  BY <1>1, <1>2, <1>3, <1>4, <1>5, <1>6, <1>7, <1>8, <1>9, <1>10, <1>11, <1>12

LEMMA PasswordSet ==
  ASSUME NEW s, Standing(s), NEW r \in Roles, NEW p, NEW d
  PROVE  After(s, SetPassword(r, p), d).pwd[r] = p
<1> DEFINE q == SetPassword(r, p)
<1>1. q.op = "password" /\ q.role = r /\ q.pwd = p
  BY DEF SetPassword
<1> HIDE DEF q
<1>2. After(s, q, d) = [s EXCEPT !.pwd[q.role] = q.pwd]
  BY <1>1 DEF After
<1>3. DOMAIN s = Fields /\ s.pwd \in [Roles -> Nat]
  BY ServerParts DEF Standing
<1>4. After(s, q, d).pwd[r] = p
  BY <1>1, <1>2, <1>3 DEF Fields
<1> QED
  BY <1>4 DEF q

LEMMA LeavesOne ==
  ASSUME NEW act, NEW r, NEW q, q.op \notin SetsPassword
  PROVE  LeavesPasswords(Statements(act, r, On(AdminDB, <<q>>)).todo)
<1>1. Statements(act, r, On(AdminDB, <<q>>)).todo = <<q>>
  BY DEF Statements, On
<1>2. DOMAIN <<q>> = {1} /\ <<q>>[1] = q
  BY OneElement
<1> QED
  BY <1>1, <1>2 DEF LeavesPasswords

LEMMA AttrsLeave ==
  ASSUME NEW r, NEW have, NEW want
  PROVE  LeavesPasswords(BuildAlterRoleAttrs(r, have, want))
<1> DEFINE q == AlterRole(r, want \ have, have \ want)
           list == BuildAlterRoleAttrs(r, have, want)
<1>1. q.op \notin SetsPassword
  BY DEF AlterRole, SetsPassword
<1>2. list = <<>> \/ list = <<q>>
  BY DEF BuildAlterRoleAttrs
<1>3. DOMAIN <<q>> = {1} /\ <<q>>[1] = q
  BY OneElement
<1>4. DOMAIN <<>> = {}
  OBVIOUS
<1> HIDE DEF q, list
<1>5. LeavesPasswords(list)
  BY <1>1, <1>2, <1>3, <1>4 DEF LeavesPasswords
<1> QED
  BY <1>5 DEF list

LEMMA StartsPassword ==
  ASSUME TypeInv, TypeInv', PasswordInv, StartsSomething
  PROVE  PasswordInv'
<1>a. ASSUME NEW c, Submit(c), c.act # "reset password",
             RunsStatements(c) /\ c.act \notin Changes => LeavesPasswords(c.todo)
      PROVE  PasswordInv'
  <2>1. modal' = Closed /\ Start(c) /\ UNCHANGED <<pendingPwdRole, newPassword>>
    BY <1>a DEF Submit
  <2>2. ModalLeaves'
    BY <2>1 DEF ModalLeaves, Closed
  <2> QED
    BY <1>a, <2>1, <2>2, StartPassword
<1>b. \A r, on : /\ Statements("create role", r, on).act = "create role"
                  /\ Statements("drop role", r, on).act = "drop role"
                  /\ Statements("set connection limit", r, on).act = "set connection limit"
  BY DEF Statements
<1>1. CASE CreateRoleYes
  <2>1. \E r, on : Submit(Statements("create role", r, on))
    BY <1>1, Zenon DEF CreateRoleYes
  <2> QED
    BY <1>a, <1>b, <2>1 DEF Changes
<1>2. CASE DropRoleYes
  <2>1. \E r, on : Submit(Statements("drop role", r, on))
    BY <1>2, Zenon DEF DropRoleYes
  <2> QED
    BY <1>a, <1>b, <2>1 DEF Changes
<1>3. CASE ResetPasswordYes
  <2> DEFINE q == SetPassword(pendingPwdRole, NextId)
             c == Statements("reset password", pendingPwdRole, On(AdminDB, <<q>>))
  <2>1. /\ Start(c) /\ modal' = Closed /\ newPassword' = NextId
        /\ pendingPwdRole' = pendingPwdRole
    BY <1>3, Zenon DEF ResetPasswordYes
  <2>2. /\ c.act = "reset password" /\ c.role = pendingPwdRole /\ c.pc = "pool"
        /\ c.todo = <<SetPassword(c.role, NextId)>>
    BY DEF Statements, On
  <2>3. ModalLeaves' /\ c.act \in Changes
    BY <2>1, <2>2 DEF ModalLeaves, Closed, Changes
  <2> HIDE DEF c
  <2> QED
    BY <2>1, <2>2, <2>3, StartPassword
<1>4. CASE ConnLimitYes
  <2> DEFINE c == Statements("set connection limit", modal.role,
                             On(AdminDB, <<SetLimit(modal.role)>>))
  <2>1. Submit(c)
    BY <1>4 DEF ConnLimitYes
  <2>2. c.act # "reset password"
    BY <1>b
  <2>3. LeavesPasswords(c.todo)
    BY LeavesOne DEF SetLimit, SetsPassword
  <2> HIDE DEF c
  <2> QED
    BY <1>a, <2>1, <2>2, <2>3
<1>c. ASSUME NEW list, LeavesPasswords(list), NEW r,
             Submit(Statements("alter role", r, On(AdminDB, list)))
      PROVE  PasswordInv'
  <2> DEFINE c == Statements("alter role", r, On(AdminDB, list))
  <2>1. c.act = "alter role" /\ c.todo = list
    BY DEF Statements, On
  <2> HIDE DEF c
  <2>2. Submit(c)
    BY <1>c DEF c
  <2> QED
    BY <1>a, <1>c, <2>1, <2>2
<1>5. CASE AttrsYes
  <2>1. PICK want \in SUBSET Attributes :
          LET list == BuildAlterRoleAttrs(modal.role, Selected.attrs, want)
          IN  \/ Show(Closed)
              \/ Show([kind |-> "escalate", role |-> modal.role, list |-> list])
              \/ Submit(Statements("alter role", modal.role, On(AdminDB, list)))
    BY <1>5, Zenon DEF AttrsYes
  <2> DEFINE list == BuildAlterRoleAttrs(modal.role, Selected.attrs, want)
             m == [kind |-> "escalate", role |-> modal.role, list |-> list]
  <2>2. LeavesPasswords(list)
    BY AttrsLeave
  <2> HIDE DEF list
  <2>3. ASSUME NEW x, Show(x), x = Closed \/ x = m PROVE PasswordInv'
    <3>1. /\ modal' = x /\ UNCHANGED <<mixed, newPassword, pendingPwdRole, cmds>> /\ srv' = srv
      BY <2>3 DEF Show, history, SameServer
    <3>2. ModalLeaves'
      BY <2>2, <2>3, <3>1 DEF ModalLeaves, Closed
    <3> QED
      BY <3>1, <3>2, PasswordFrame
  <2> HIDE DEF m
  <2>4. Show(Closed) \/ Show(m) \/ Submit(Statements("alter role", modal.role, On(AdminDB, list)))
    BY <2>1, Zenon DEF list, m
  <2> QED
    BY <1>c, <2>2, <2>3, <2>4
<1>6. CASE EscalateYes
  <2>1. /\ Submit(Statements("alter role", modal.role, On(AdminDB, modal.list)))
        /\ LeavesPasswords(modal.list)
    BY <1>6 DEF EscalateYes, HasKeys, PasswordInv, ModalLeaves
  <2> QED
    BY <1>c, <2>1
<1>7. CASE GrantYes
  <2> DEFINE s == Statements("grant", modal.role, modal.on)
             clears == IF modal.verb = "revoke" /\ modal.schema
                       THEN {<<modal.db, modal.role>>} ELSE {}
             c == [s EXCEPT !.clears = clears]
             list == modal.on.list
  <2>1. Submit(c)
    BY <1>7 DEF GrantYes
  <2>2. list \in Seq(GrantQueries)
    BY <1>7 DEF GrantYes, HasKeys, TypeInv, ModalTyped
  <2>3. c.act = "grant" /\ c.todo = list
    BY DEF Statements
  <2>4. \A q \in GrantQueries : q.op \notin SetsPassword
    BY DEF GrantQueries, SetsPassword
  <2> HIDE DEF c, list
  <2>5. LeavesPasswords(list)
    BY <2>2, <2>4 DEF LeavesPasswords
  <2> QED
    BY <1>a, <2>1, <2>3, <2>5
<1>8. CASE ForceDropYes
  <2>1. PICK to : Submit(ForceDrop(modal.role, to))
    BY <1>8 DEF ForceDropYes
  <2>2. ForceDrop(modal.role, to).act = "force-drop"
    BY DEF ForceDrop
  <2> QED
    BY <1>a, <2>1, <2>2 DEF Changes
<1>9. CASE OpenAccess
  <2>1. Submit(RoleAccess(Selected.name))
    BY <1>9 DEF OpenAccess
  <2>2. /\ RoleAccess(Selected.name).act = "access"
        /\ ~RunsStatements(RoleAccess(Selected.name))
    BY DEF RoleAccess, RunsStatements
  <2> QED
    BY <1>a, <2>1, <2>2
<1> QED
  BY <1>1, <1>2, <1>3, <1>4, <1>5, <1>6, <1>7, <1>8, <1>9 DEF StartsSomething

LEMMA RunPassword ==
  ASSUME TypeInv, TypeInv', PasswordInv, NEW i \in Ids, RunStatement(i)
  PROVE  PasswordInv'
<1> DEFINE c == cmds[i]
           q == Head(c.todo)
           e == c.target
           given == Gives(q, e)
           ends == Len(c.todo) = 1
           b == cmds'[i]
<1>1. /\ RunsStatements(c) /\ c.pc = "run" /\ q \in Queries /\ CommandFrame
      /\ srv' = After(srv, q, e)
      /\ \A j \in Ids : j # i =>
           cmds'[j] = IF HasStatements(j) THEN StillOne(given, cmds[j]) ELSE cmds[j]
      /\ \/ b = [StillOne(given, c) EXCEPT !.todo = Tail(c.todo),
                   !.pc = IF ends THEN "answered" ELSE "run"]
         \/ b = [StillOne(given, c) EXCEPT !.pc = "failed"]
  BY RunMakes DEF TypeInv
<1>2. UNCHANGED <<mixed, newPassword, pendingPwdRole, modal>> /\ Standing(srv)
  BY <1>1 DEF CommandFrame, ui, TypeInv
<1>3. ModalLeaves' /\ mixed \in BOOLEAN
  BY <1>2 DEF PasswordInv, ModalLeaves
<1> HIDE DEF given
<1>4. ASSUME NEW j \in Ids, j # i
      PROVE  cmds'[j] = cmds[j] \/ Continues(cmds[j], cmds'[j])
  <2>1. CASE HasStatements(j)
    <3>1. RunsStatements(cmds[j]) /\ Active(cmds[j]) /\ cmds'[j] = StillOne(given, cmds[j])
      BY <1>1, <1>4, <2>1, KindOf DEF TypeInv, HasStatements
    <3>2. /\ cmds'[j].act = cmds[j].act /\ cmds'[j].role = cmds[j].role
          /\ cmds'[j].todo = cmds[j].todo /\ cmds'[j].pc = cmds[j].pc
      BY <3>1 DEF RunsStatements, StillOne
    <3> QED
      BY <3>1, <3>2 DEF Continues
  <2> QED
    BY <1>1, <1>4, <2>1
<1>5. /\ b.act = c.act /\ b.role = c.role
      /\ \/ b.todo = Tail(c.todo) /\ b.pc = IF ends THEN "answered" ELSE "run"
         \/ b.todo = c.todo /\ b.pc = "failed"
  BY <1>1 DEF RunsStatements, StillOne
<1>6. /\ Active(c) /\ c.role \in Roles /\ c.todo \in Seq(Queries) /\ c.todo # <<>>
  BY <1>1, StatementsActive DEF RunsStatements
<1>7. /\ 1 \in DOMAIN c.todo /\ q = c.todo[1]
      /\ \A k \in DOMAIN Tail(c.todo) : \E m \in DOMAIN c.todo : Tail(c.todo)[k] = c.todo[m]
  <2>1. /\ Len(c.todo) \in Nat \ {0} /\ DOMAIN c.todo = 1 .. Len(c.todo) /\ q = c.todo[1]
        /\ DOMAIN Tail(c.todo) = 1 .. Len(c.todo) - 1
        /\ \A k \in 1 .. Len(c.todo) - 1 : Tail(c.todo)[k] = c.todo[k + 1]
    BY <1>6, FirstAndRest
  <2>2. \A k \in 1 .. Len(c.todo) - 1 : k + 1 \in 1 .. Len(c.todo)
    BY <2>1
  <2> QED
    BY <2>1, <2>2
<1>8. LeavesPasswords(c.todo) => LeavesPasswords(b.todo)
  BY <1>5, <1>7 DEF LeavesPasswords
<1>9. CASE c.act \notin Changes
  <2>1. LeavesPasswords(c.todo)
    BY <1>1, <1>9 DEF PasswordInv, CommandsLeave
  <2>2. srv'.pwd = srv.pwd
    BY <1>1, <1>2, <1>7, <2>1, PasswordsAfter DEF LeavesPasswords
  <2>3. Continues(c, b)
    BY <1>1, <1>5, <1>6, <1>8, <1>9 DEF Continues, Changes
  <2> HIDE DEF b, c
  <2>4. \A j \in Ids : cmds'[j] = cmds[j] \/ Continues(cmds[j], cmds'[j])
    BY <1>4, <2>3 DEF b, c
  <2> QED
    BY <1>2, <1>3, <2>2, <2>4, PasswordFrame
<1>10. CASE c.act \in Changes
  <2>1. CommandsLeave'
    <3>1. ASSUME NEW j \in Ids, RunsStatements(cmds'[j]), cmds'[j].act \notin Changes
          PROVE  LeavesPasswords(cmds'[j].todo)
      <4>1. j # i
        BY <1>5, <1>10, <3>1
      <4> QED
        BY <1>4, <3>1, <4>1 DEF PasswordInv, CommandsLeave, Continues
    <3> QED
      BY <3>1 DEF CommandsLeave
  <2>2. ASSUME ~mixed, NEW j \in Ids, Active(cmds'[j]), cmds'[j].act = "reset password"
        PROVE  ResetOK(j)'
    <3>1. Resets(j) /\ ResetOK(j)
      <4>1. Resets(j)
        BY <1>4, <1>5, <1>6, <2>2 DEF Resets, Continues
      <4> QED
        BY <2>2, <4>1 DEF PasswordInv, ResetsOK
    <3>2. j = i
      BY <1>6, <1>10, <3>1 DEF ResetOK, ChangesRole
    <3>3. \A k \in Ids \ {i} : ~(Active(cmds'[k]) /\ cmds'[k].act \in Changes)
      BY <1>4, <3>1, <3>2 DEF ResetOK, ChangesRole, Continues
    <3>4. /\ newPassword = i /\ pendingPwdRole = c.role
          /\ c.todo = <<SetPassword(c.role, i)>>
      BY <1>1, <3>1, <3>2 DEF ResetOK
    <3>5. q = SetPassword(c.role, i) /\ ends
      BY <1>7, <3>4, OneElement
    <3>6. srv'.pwd[c.role] = i
      BY <1>1, <1>2, <1>6, <3>5, PasswordSet
    <3>7. b.pc \in {"answered", "failed"}
      BY <1>5, <3>5
    <3> QED
      BY <1>2, <1>5, <3>2, <3>3, <3>4, <3>6, <3>7 DEF ResetOK, ChangesRole
  <2> QED
    BY <1>2, <1>3, <2>1, <2>2 DEF PasswordInv, ResetsOK, Resets
<1> QED
  BY <1>9, <1>10

LEMMA CommandPassword ==
  ASSUME TypeInv, TypeInv', PasswordInv, NEW i \in Ids, CommandStep(i)
  PROVE  PasswordInv'
<1>0. DOMAIN cmds = Ids /\ CommandOK(cmds[i])
  BY DEF TypeInv, CommandsTyped
<1>a. ASSUME CommandFrame, srv'.pwd = srv.pwd, Continues(cmds[i], cmds'[i]),
             \A j \in Ids : j # i => cmds'[j] = cmds[j]
      PROVE  PasswordInv'
  <2>1. UNCHANGED <<mixed, newPassword, pendingPwdRole, modal>>
    BY <1>a DEF CommandFrame, ui
  <2>2. ModalLeaves'
    BY <2>1 DEF PasswordInv, ModalLeaves
  <2> QED
    BY <1>a, <2>1, <2>2, PasswordFrame
<1>1. CASE RunStatement(i)
  BY <1>1, RunPassword
<1>2. CASE GetPool(i) \/ RefuseStatement(i) \/ CommandFails(i)
  <2> DEFINE c == cmds[i]
             b == cmds'[i]
  <2>1. PICK pc \in {"run", "levels", "owned", "failed"} :
          /\ Becomes(i, [c EXCEPT !.pc = pc])
          /\ pc # "failed" => c.pc = "pool"
    BY <1>2, Zenon DEF GetPool, RefuseStatement, CommandFails
  <2>2. SameServer /\ CommandFrame /\ Active(c)
    BY <1>2 DEF GetPool, RefuseStatement, CommandFails, HasStatements, Active
  <2>3. c \notin {Unused, Over}
    BY <2>2 DEF Active, Unused, Over
  <2>4. RunsStatements(c) \/ DropsByForce(c) \/ LooksForAccess(c)
    BY <1>0, <2>3 DEF CommandOK
  <2>5. b = [c EXCEPT !.pc = pc] /\ \A j \in Ids : j # i => cmds'[j] = cmds[j]
    BY <1>0, <2>1 DEF Becomes
  <2>6. Continues(c, b)
    <3>1. CASE RunsStatements(c)
      <4>1. b.act = c.act /\ b.role = c.role /\ b.todo = c.todo /\ b.pc = pc
        BY <2>5, <3>1 DEF RunsStatements
      <4>2. b.pc \in {"pool", "run"} => c.pc \in {"pool", "run"}
        BY <2>1, <4>1
      <4>3. b.pc # "answered"
        BY <4>1
      <4> HIDE DEF b, c
      <4> QED
        BY <2>2, <3>1, <4>1, <4>2, <4>3 DEF Continues, c
    <3>2. CASE DropsByForce(c)
      <4>1. b.act = c.act /\ c.act = "force-drop"
        BY <2>5, <3>2 DEF DropsByForce
      <4> HIDE DEF b
      <4> QED
        BY <2>2, <4>1 DEF Continues, RunsStatements
    <3>3. CASE LooksForAccess(c)
      <4>1. b.act = c.act /\ c.act = "access"
        BY <2>5, <3>3 DEF LooksForAccess
      <4> HIDE DEF b
      <4> QED
        BY <2>2, <4>1 DEF Continues, RunsStatements
    <3> QED
      BY <2>4, <3>1, <3>2, <3>3
  <2> QED
    BY <1>a, <2>2, <2>5, <2>6 DEF SameServer
<1>3. CASE ForceDropStep(i)
  <2>1. ForceDropMade(i)
    BY <1>3, ForceDropMakes
  <2>2. srv'.pwd = srv.pwd
    <3>1. ASSUME NEW q, NEW d, Takes(q), srv' = After(srv, q, d) PROVE srv'.pwd = srv.pwd
      <4>1. q.op \notin SetsPassword
        BY <3>1 DEF Takes, SetsPassword
      <4> QED
        BY <3>1, <4>1, PasswordsAfter DEF TypeInv
    <3> QED
      BY <2>1, <3>1 DEF ForceDropMade
  <2>3. Active(cmds[i])
    BY <1>3 DEF ForceDropStep, DatabasesOwnedBy, AlterOwner, ConnectableDatabases, VisitDatabase,
       ReassignOwned, DropWhatIsOwned, DropTheRole, At, ForcedDrop
  <2>4. Continues(cmds[i], cmds'[i])
    BY <2>1, <2>3 DEF ForceDropMade, Continues, RunsStatements
  <2> QED
    BY <1>a, <2>1, <2>2, <2>4 DEF ForceDropMade
<1>4. CASE ReadLevels(i) \/ ReadSchema(i) \/ ReadTables(i)
  <2>1. Active(cmds[i])
    BY <1>4 DEF ReadLevels, ReadSchema, ReadTables, Probe
  <2>2. /\ cmds[i].act = "access" /\ cmds'[i].act = "access"
        /\ \A j \in Ids : j # i => cmds'[j] = cmds[j]
        /\ CommandFrame /\ srv' = srv
    BY <1>4, ProbeMakes DEF SameServer
  <2>3. Continues(cmds[i], cmds'[i])
    BY <2>1, <2>2 DEF Continues, RunsStatements
  <2> QED
    BY <1>a, <2>2, <2>3
<1>5. CASE ExecMsg(i) \/ RoleAccessMsg(i)
  <2>1. /\ cmds' = [cmds EXCEPT ![i] = Over] /\ srv' = srv
        /\ UNCHANGED <<mixed, pendingPwdRole, modal>>
    BY <1>5 DEF ExecMsg, RoleAccessMsg, Answer, history
  <2>2. cmds'[i] = Over /\ \A j \in Ids : j # i => cmds'[j] = cmds[j]
    BY <1>0, <2>1
  <2>3. ~Active(Over) /\ ~RunsStatements(Over)
    BY DEF Over, Unused, Active, RunsStatements
  <2>4. ModalLeaves'
    BY <2>1 DEF PasswordInv, ModalLeaves
  <2>5. CASE newPassword' = newPassword
    BY <2>1, <2>2, <2>3, <2>4, <2>5, PasswordFrame
  <2>6. CASE newPassword' # newPassword
    <3>1. Resets(i)
      BY <1>5, <2>6 DEF ExecMsg, RoleAccessMsg, IsReset, Resets, Ended, Active
    <3>2. ASSUME ~mixed, NEW j \in Ids, Active(cmds'[j]), cmds'[j].act = "reset password"
          PROVE  FALSE
      <4>1. j # i /\ cmds'[j] = cmds[j]
        BY <2>2, <2>3, <3>2
      <4>2. ResetOK(i)
        BY <3>1, <3>2 DEF PasswordInv, ResetsOK
      <4> QED
        BY <3>2, <4>1, <4>2 DEF ResetOK, ChangesRole, Changes
    <3>3. CommandsLeave'
      BY <2>2, <2>3 DEF PasswordInv, CommandsLeave
    <3> QED
      BY <2>1, <2>4, <3>2, <3>3 DEF PasswordInv, ResetsOK, Resets
  <2> QED
    BY <2>5, <2>6
<1> QED
  BY <1>1, <1>2, <1>3, <1>4, <1>5 DEF CommandStep, ExecStep

LEMMA OpensPassword ==
  ASSUME TypeInv', PasswordInv, OpensSomething
  PROVE  PasswordInv'
<1>1. ASSUME NEW m, Show(m), m.kind # "escalate" PROVE PasswordInv'
  <2>1. modal' = m /\ UNCHANGED <<mixed, newPassword, pendingPwdRole, cmds>> /\ srv' = srv
    BY <1>1 DEF Show, history, SameServer
  <2>2. ModalLeaves'
    BY <1>1, <2>1 DEF ModalLeaves
  <2> QED
    BY <2>1, <2>2, PasswordFrame
<1>2. CASE AskResetPassword
  <2>1. /\ modal'.kind = "reset" /\ cmds' = cmds /\ mixed \in BOOLEAN
        /\ mixed' = (mixed \/ \E i \in Ids : Active(cmds[i]) /\ cmds[i].act = "reset password")
    BY <1>2 DEF AskResetPassword, PasswordInv
  <2>2. ModalLeaves' /\ mixed' \in BOOLEAN
    BY <2>1 DEF ModalLeaves
  <2>3. CommandsLeave'
    BY <2>1 DEF PasswordInv, CommandsLeave
  <2> QED
    BY <2>1, <2>2, <2>3 DEF PasswordInv, ResetsOK, Resets
<1>3. CASE OpenFinder
  BY <1>1, <1>3 DEF OpenFinder
<1>4. CASE OpenRoleMenu \/ OpenCreateForm \/ OpenConnLimitForm \/ OpenAttrsForm \/ AskDropRole
  BY <1>1, <1>4 DEF OpenRoleMenu, OpenCreateForm, OpenConnLimitForm, OpenAttrsForm, AskDropRole
<1>5. CASE StartGrantFlow \/ PickDB \/ OpenForceDropForm
  BY <1>1, <1>5 DEF StartGrantFlow, PickDB, OpenForceDropForm
<1>6. CASE OpenGrantConfirm
  <2>1. PICK db, schema, on :
          Show([kind |-> "grant", role |-> modal.role, verb |-> modal.verb, db |-> db,
                schema |-> schema, on |-> on])
    BY <1>6, Zenon DEF OpenGrantConfirm
  <2> QED
    BY <1>1, <2>1
<1> QED
  BY <1>2, <1>3, <1>4, <1>5, <1>6 DEF OpensSomething

LEMMA InitPassword == Init => PasswordInv
<1> SUFFICES ASSUME Init PROVE PasswordInv
  OBVIOUS
<1>1. modal = Closed /\ mixed = FALSE /\ \A i \in Ids : cmds[i] = Unused
  BY DEF Init
<1>2. Unused.pc = "unused" /\ Closed.kind = "none"
  BY DEF Unused, Closed
<1>3. ~Active(Unused) /\ ~RunsStatements(Unused)
  BY <1>2 DEF Active, RunsStatements
<1>4. ModalLeaves
  BY <1>1, <1>2 DEF ModalLeaves
<1>5. CommandsLeave /\ ResetsOK
  BY <1>1, <1>3 DEF CommandsLeave, ResetsOK, Resets
<1> QED
  BY <1>1, <1>4, <1>5 DEF PasswordInv

LEMMA NextPassword == TypeInv /\ TypeInv' /\ PasswordInv /\ [Next]_vars => PasswordInv'
<1> SUFFICES ASSUME TypeInv, TypeInv', PasswordInv, [Next]_vars PROVE PasswordInv'
  OBVIOUS
<1>0. ASSUME UNCHANGED <<mixed, newPassword, pendingPwdRole, cmds>>, srv'.pwd = srv.pwd,
             modal' = modal \/ modal' = Closed
      PROVE  PasswordInv'
  <2>1. ModalLeaves'
    BY <1>0 DEF PasswordInv, ModalLeaves, Closed
  <2> QED
    BY <1>0, <2>1, PasswordFrame
<1>1. CASE ReadRoles \/ LoadFails \/ RolesMsg \/ DatabasesMsg
  BY <1>0, <1>1 DEF ReadRoles, LoadFails, RolesMsg, DatabasesMsg, SameServer, history, ui
<1>2. CASE Cancel \/ CloseAlert \/ MoveCursor \/ Refresh \/ PickRole
  BY <1>0, <1>2 DEF Cancel, Show, CloseAlert, MoveCursor, Refresh, PickRole, SameServer, history,
     ui
<1>3. CASE OpensSomething
  BY <1>3, OpensPassword
<1>4. CASE StartsSomething
  BY <1>4, StartsPassword
<1>5. ASSUME NEW i \in Ids, CommandStep(i) PROVE PasswordInv'
  BY <1>5, CommandPassword
<1>6. CASE OtherAlters \/ OtherCreates \/ OtherExecMsg
  <2>1. UNCHANGED <<mixed, newPassword, pendingPwdRole, cmds, modal>>
    BY <1>6 DEF OtherAlters, OtherCreates, OtherExecMsg, OtherFrame, history
  <2>2. srv'.pwd = srv.pwd
    <3>0. DOMAIN srv = Fields
      BY StandingShaped DEF TypeInv, Shaped
    <3>1. CASE OtherAlters
      <4>1. PICK r, on : srv' = [srv EXCEPT !.attrs[r] = on]
        BY <3>1 DEF OtherAlters, ServerBecomes
      <4> QED BY <3>0, <4>1 DEF Fields
    <3>2. CASE OtherCreates
      <4>1. PICK o, d, r : srv' = Created(srv, o, d, r)
        BY <3>2 DEF OtherCreates, ServerBecomes
      <4> QED BY <3>0, <4>1 DEF Fields, Created
    <3>3. CASE OtherExecMsg
      BY <3>3 DEF OtherExecMsg, SameServer
    <3> QED
      BY <1>6, <3>1, <3>2, <3>3
  <2> QED
    BY <1>0, <2>1, <2>2
<1>7. CASE UNCHANGED vars
  BY <1>0, <1>7 DEF vars, history, ui
<1> QED
  BY <1>1, <1>2, <1>3, <1>4, <1>5, <1>6, <1>7 DEF Next

LEMMA PasswordsAlways == Spec => []PasswordInv
<1>1. Init => PasswordInv
  BY InitPassword
<1>2. TypeInv /\ TypeInv' /\ PasswordInv /\ [Next]_vars => PasswordInv'
  BY NextPassword
<1> QED
  BY <1>1, <1>2, TypesAlways, PTL DEF Spec

\* Where the alert changes to a password.
LEMMA OnlyAResetShows ==
  ASSUME TypeInv, PasswordInv, Next, alert'.kind = "password", alert' # alert, ~mixed
  PROVE  srv.pwd[alert'.role] = alert'.pwd
<1>1. ASSUME NEW i \in Ids, ExecMsg(i) PROVE srv.pwd[alert'.role] = alert'.pwd
  <2>1. ASSUME NEW kind, NEW r, NEW p, NEW dbs
        PROVE  /\ Alert(kind, r, p, dbs).kind = kind /\ Alert(kind, r, p, dbs).role = r
               /\ Alert(kind, r, p, dbs).pwd = p
    BY DEF Alert
  <2>2. Alert("error", cmds[i].role, 0, {}).kind = "error"
    BY DEF Alert
  <2>3. /\ Ended(cmds[i]) /\ cmds[i].pc # "failed" /\ IsReset(cmds[i])
        /\ alert' = Alert("password", pendingPwdRole, newPassword, {})
    BY <1>1, <2>2 DEF ExecMsg
  <2>4. Resets(i) /\ cmds[i].pc = "answered"
    BY <2>3 DEF Ended, IsReset, Resets, Active
  <2>5. ResetOK(i)
    BY <2>4 DEF PasswordInv, ResetsOK
  <2>6. alert'.role = cmds[i].role /\ alert'.pwd = i
    BY <2>1, <2>3, <2>5 DEF ResetOK
  <2> QED
    BY <2>4, <2>5, <2>6 DEF ResetOK
<1>2. ASSUME NEW i \in Ids, RoleAccessMsg(i) PROVE alert'.kind # "password"
  BY <1>2 DEF RoleAccessMsg, Alert
<1>3. ASSUME NEW i \in Ids, CommandStep(i), ~ExecMsg(i), ~RoleAccessMsg(i) PROVE FALSE
  <2>1. CommandFrame
    <3>1. CASE ForceDropStep(i)
      BY <3>1, ForceDropMakes DEF ForceDropMade
    <3>2. CASE ReadLevels(i) \/ ReadSchema(i) \/ ReadTables(i)
      BY <3>2, ProbeMakes
    <3>3. CASE ExecStep(i)
      BY <3>3 DEF ExecStep, GetPool, RunStatement, RefuseStatement, CommandFails
    <3> QED
      BY <1>3, <3>1, <3>2, <3>3 DEF CommandStep
  <2> QED
    BY <2>1 DEF CommandFrame, ui
<1>4. CASE ReadRoles \/ LoadFails \/ RolesMsg \/ DatabasesMsg
  BY <1>4 DEF ReadRoles, LoadFails, RolesMsg, DatabasesMsg, ui
<1>5. CASE Cancel \/ CloseAlert \/ MoveCursor \/ Refresh \/ PickRole
  BY <1>5 DEF Cancel, Show, CloseAlert, MoveCursor, Refresh, PickRole, ui, NoAlert
<1>6. CASE OpensSomething
  BY <1>6 DEF OpensSomething, OpenFinder, OpenRoleMenu, OpenCreateForm, OpenConnLimitForm,
     OpenAttrsForm, AskDropRole, AskResetPassword, StartGrantFlow, PickDB, OpenGrantConfirm,
     OpenForceDropForm, Show
<1>7. CASE StartsSomething
  BY <1>7 DEF StartsSomething, CreateRoleYes, DropRoleYes, ResetPasswordYes, ConnLimitYes,
     AttrsYes, EscalateYes, GrantYes, ForceDropYes, OpenAccess, Submit, Show
<1>8. CASE OtherAlters \/ OtherCreates \/ OtherExecMsg
  BY <1>8 DEF OtherAlters, OtherCreates, OtherExecMsg, Alert
<1> QED
  BY <1>1, <1>2, <1>3, <1>4, <1>5, <1>6, <1>7, <1>8 DEF Next

\* The password on screen is the one the server has for the role it is shown for, if no
\* other change of a role's password or existence overlapped the reset (execMsg,
\* showNewPassword).
THEOREM ShowsTheRightPassword == Spec => PasswordWorks
<1>1. TypeInv /\ PasswordInv /\ [Next]_vars
        => [alert'.kind = "password" /\ alert' # alert /\ ~mixed
              => srv.pwd[alert'.role] = alert'.pwd]_vars
  BY OnlyAResetShows
<1> QED
  BY <1>1, TypesAlways, PasswordsAlways, PTL DEF Spec, PasswordWorks
=============================================================================
