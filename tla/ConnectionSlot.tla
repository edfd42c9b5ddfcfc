--------------------------- MODULE ConnectionSlot ---------------------------
(***************************************************************************)
(* What the connection handling promises, without dials, messages, screens *)
(* or keys.  Each request to open a server has a number.  One manager at   *)
(* most drives the tabs (live); one request at most is awaited (want);     *)
(* held are the managers whose pools are open.  A manager is released only *)
(* when it is neither live nor awaited, and the live one is replaced only  *)
(* by the manager of the request that was awaited.                         *)
(***************************************************************************)
EXTENDS Naturals

CONSTANT Requests   \* the numbers of requests, from 1 on

None == 0

VARIABLES live, want, held, left

slotVars == <<live, want, held, left>>

SlotInit ==
  /\ live = None /\ want \in Requests \union {None}
  /\ held = {} /\ left = FALSE

\* The user asks for a server, perhaps while another answer is awaited.
Request(r) ==
  /\ ~left /\ r \notin held /\ want' = r
  /\ UNCHANGED <<live, held, left>>

\* The awaited request fails or the user gives it up.
GiveUp == ~left /\ want # None /\ want' = None /\ UNCHANGED <<live, held, left>>

\* A dial succeeds, awaited or not.
OpenManager(r) ==
  /\ r \notin held /\ r # live
  /\ held' = held \union {r}
  /\ UNCHANGED <<live, want, left>>

\* The awaited manager takes over; the previous one is now surplus.
TakeOver ==
  /\ ~left /\ want \in held
  /\ live' = want /\ want' = None
  /\ UNCHANGED <<held, left>>

Release(r) ==
  /\ r \in held \ {live, want}
  /\ held' = held \ {r}
  /\ UNCHANGED <<live, want, left>>

Leave ==
  /\ ~left /\ left' = TRUE
  /\ live' = None /\ want' = None /\ UNCHANGED held

SlotNext ==
  \/ \E r \in Requests : Request(r) \/ OpenManager(r) \/ Release(r)
  \/ GiveUp \/ TakeOver \/ Leave

SlotSpec == SlotInit /\ [][SlotNext]_slotVars
=============================================================================
