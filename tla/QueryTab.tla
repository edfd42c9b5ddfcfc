------------------------------ MODULE QueryTab ------------------------------
(***************************************************************************)
(* The Query tab (ui/query.go): an editor, a result, the confirmation of a *)
(* statement that writes and the selector of the database to run on.  A    *)
(* result takes the focus whatever the tab was doing, and several runs may *)
(* be under way: nothing tells their answers apart.                        *)
(***************************************************************************)
EXTENDS TabCommands

VARIABLES
  query,      \* the view
  readied     \* history: the statement that yes was typed for

queryVars == <<query, readied>>

Modes == {"results", "edit", "confirm", "target"}
QueryViews ==
  [mode : Modes, text : Sql, pending : Sql, danger : Danger, typed : BOOLEAN,
   target : Databases, names : Seq(Databases), filter : SUBSET Databases, cursor : Nat \ {0},
   running : BOOLEAN, err : BOOLEAN, hasRes : BOOLEAN]

QueryCapturing == query.mode # "results"
\* Keys that leave the query alone but for some fields.
QueryBecomes(q) == query' = q /\ UNCHANGED readied
QueryKey(op) == op \in job /\ UNCHANGED world

----------------------------------------------------------------------------
(* Editor.                                                                 *)

Browsing == query.mode \in {"results", "edit"}
FocusEditor ==
  /\ QueryKey("query") /\ query.mode = "results"
  /\ QueryBecomes([query EXCEPT !.mode = "edit"]) /\ Send({})
LeaveEditor ==
  /\ QueryKey("query") /\ query.mode = "edit"
  /\ QueryBecomes([query EXCEPT !.mode = "results"]) /\ Send({})
TypeText ==
  /\ QueryKey("query") /\ query.mode = "edit"
  /\ \E q \in Typable \ {query.text} : QueryBecomes([query EXCEPT !.text = q])
  /\ Send({})

Running(q) == [q EXCEPT !.running = TRUE]

\* As if what was typed into the confirmation before stayed there.
KeepsTyped(q, danger) == [q EXCEPT !.pending = q.text, !.danger = danger, !.mode = "confirm"]
\* The confirmation of the editor's text; its field starts empty.
Asking(q, danger) ==
  [q EXCEPT !.pending = q.text, !.danger = danger, !.mode = "confirm",
            !.typed = IF danger = "Critical" THEN FALSE ELSE @]

Submit ==
  /\ QueryKey("query") /\ Browsing /\ query.text # Empty
  /\ LET danger == Classify(query.text)
         q == [query EXCEPT !.err = FALSE]
     IN IF danger = "Safe"
        THEN QueryBecomes(Running(q)) /\ Send({RunQuery(query.target, query.text)})
        ELSE QueryBecomes(Asking(q, danger)) /\ Send({})

\* No confirmation, whatever follows EXPLAIN.
Explain ==
  /\ QueryKey("explain") /\ query.mode = "results" /\ query.text # Empty
  /\ QueryBecomes(Running([query EXCEPT !.err = FALSE]))
  /\ Send({RunQuery(query.target, Explained(query.text))})

----------------------------------------------------------------------------
(* Confirmation.                                                           *)

TypeAnswer ==
  /\ QueryKey("query") /\ query.mode = "confirm" /\ query.danger = "Critical"
  /\ query' = [query EXCEPT !.typed = ~@]
  /\ readied' = IF query.typed THEN Empty ELSE query.pending
  /\ Send({})
ConfirmYes ==
  /\ QueryKey("query") /\ query.mode = "confirm"
  /\ query.danger = "Critical" => query.typed
  /\ QueryBecomes(Running([query EXCEPT !.typed = FALSE, !.mode = "edit"]))
  /\ Send({RunQuery(query.target, query.pending)})
CancelPending ==
  /\ QueryKey("query") /\ query.mode = "confirm"
  /\ QueryBecomes([query EXCEPT !.pending = Empty, !.typed = FALSE, !.mode = "edit"])
  /\ Send({})

----------------------------------------------------------------------------
(* Selector of the database.                                               *)

Matching(names, filter) == Only(names, filter)
\* The list for a filter, with the cursor kept within it.
Filtered(q, names, filter) ==
  LET n == Len(Matching(names, filter))
  IN [q EXCEPT !.names = names, !.filter = filter,
               !.cursor = IF @ > n THEN IF n = 0 THEN 1 ELSE n ELSE @]

OpenTarget ==
  /\ QueryKey("target") /\ Browsing
  /\ QueryBecomes(Filtered([query EXCEPT !.mode = "target", !.cursor = 1], query.names, Databases))
  /\ Send({LoadDatabases})
TypeFilter ==
  /\ QueryKey("target") /\ query.mode = "target"
  /\ \E filter \in SUBSET Databases : QueryBecomes(Filtered(query, query.names, filter))
  /\ Send({})
MoveTarget ==
  /\ QueryKey("target") /\ query.mode = "target"
  /\ \E c \in {query.cursor - 1, query.cursor + 1}
                \intersect DOMAIN Matching(query.names, query.filter) :
       QueryBecomes([query EXCEPT !.cursor = c])
  /\ Send({})
\* The highlighted database, or the text of a filter that matches none.
PickTarget ==
  /\ QueryKey("target") /\ query.mode = "target"
  /\ LET shown == Matching(query.names, query.filter)
     IN /\ shown # <<>> \/ query.filter # Databases
        /\ \E d \in IF query.cursor \in DOMAIN shown THEN {shown[query.cursor]}
                    ELSE Databases : QueryBecomes([query EXCEPT !.target = d, !.mode = "edit"])
  /\ Send({})
\* Enter with nothing typed and nothing listed is a cancel.
CancelTarget ==
  /\ QueryKey("target") /\ query.mode = "target"
  /\ QueryBecomes([query EXCEPT !.mode = "results"]) /\ Send({})

----------------------------------------------------------------------------
(* Answers.                                                                *)

QueryMsg(a) ==
  LET rows == a.ok /\ a.rows # <<>>
  IN QueryBecomes([query EXCEPT !.running = FALSE, !.err = ~a.ok, !.hasRes = rows,
                           !.mode = IF rows THEN "results" ELSE @])

DatabaseNames(a) ==
  IF ~a.ok THEN UNCHANGED queryVars
  ELSE QueryBecomes(IF query.mode = "target" THEN Filtered(query, a.rows, query.filter)
               ELSE [query EXCEPT !.names = a.rows])

QueryInit ==
  /\ readied = Empty
  /\ query = [mode |-> "results", text |-> Empty, pending |-> Empty, danger |-> "Safe",
              typed |-> FALSE, target |-> AdminDB, names |-> <<>>, filter |-> Databases,
              cursor |-> 1, running |-> FALSE, err |-> FALSE, hasRes |-> FALSE]

QueryKeys ==
  \/ FocusEditor \/ LeaveEditor \/ TypeText \/ Submit \/ Explain
  \/ TypeAnswer \/ ConfirmYes \/ CancelPending
  \/ OpenTarget \/ TypeFilter \/ MoveTarget \/ PickTarget \/ CancelTarget
=============================================================================
