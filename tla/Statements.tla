----------------------------- MODULE Statements -----------------------------
(***************************************************************************)
(* What the query runner decides from the text of a statement              *)
(* (db/safety.go), and what the server does with it.  A text is reduced to *)
(* what the lexical rules look at: the word it starts with, whether the    *)
(* word WHERE occurs in it, whether a word that changes rows stands in it  *)
(* between spaces; and to what running it, or EXPLAIN before it, does.     *)
(***************************************************************************)

\* The classes of first words: DROP TABLE, TRUNCATE and the like are critical;
\* SELECT, EXPLAIN, SHOW and the like are read.
FirstWords == {"none", "critical", "delete", "update", "with", "read", "write", "other"}
Effects == {"nothing", "reads", "writes", "wipes"}
Danger == {"Safe", "Write", "Critical"}

\* A comment has no first word.  about tells apart texts of the same shape.
Texts(About) ==
  [first : FirstWords, where : BOOLEAN, dml : BOOLEAN, does : Effects, planned : Effects, about : About]
Empty == [first |-> "none", where |-> FALSE, dml |-> FALSE, does |-> "nothing",
          planned |-> "nothing", about |-> "empty"]

Writes(q) == q.does \in {"writes", "wipes"}
Wipes(q) == q.does = "wipes"

\* The text with EXPLAIN in front of it.
Explained(q) == [q EXCEPT !.first = "read", !.does = q.planned, !.planned = "reads"]

\* As if only UPDATE were looked at for a WHERE.
UpdateOnly(q) == q.first = "update" /\ ~q.where
\* A DELETE or UPDATE of every row.
Everything(q) == q.first \in {"delete", "update"} /\ ~q.where
\* A WITH may lead a statement that changes rows.
ReadOnly(q) == \/ q.first \in {"none", "read"}
               \/ q.first = "with" /\ ~q.dml

Classify(q) ==
  CASE q.first = "critical" \/ Everything(q) -> "Critical"
    [] ReadOnly(q) -> "Safe"
    [] OTHER -> "Write"
=============================================================================
