------------------------------- MODULE MCTabs -------------------------------
(* Two databases with two tables in one of them, two backends, a text of    *)
(* every class.                                                             *)
EXTENDS Tabs

MCTablesIn == [d \in Databases |-> IF d = "app" THEN {"orders", "users"} ELSE {}]

MCGucOrder == <<"max_connections", "server_version", "work_mem">>
MCTyped == [n \in Gucs |-> IF n = "work_mem" THEN {"high", "wrong unit"} ELSE {"high"}]
MCTaken == [n \in Gucs |-> {"default", "high"}]

Text(name, first, where, dml, does, planned) ==
  [first |-> first, where |-> where, dml |-> dml, does |-> does, planned |-> planned, about |-> name]
Select == Text("select", "read", FALSE, FALSE, "reads", "reads")
Comment == Text("comment", "none", FALSE, FALSE, "nothing", "nothing")
Update == Text("update", "update", TRUE, FALSE, "writes", "reads")
DeleteAll == Text("delete all", "delete", FALSE, FALSE, "wipes", "reads")
DropTable == Text("drop table", "critical", FALSE, FALSE, "wipes", "nothing")
WithInsert == Text("with insert", "with", FALSE, TRUE, "writes", "reads")
WithSelect == Text("with select", "with", TRUE, FALSE, "reads", "reads")
Execute == Text("execute", "other", FALSE, FALSE, "writes", "reads")
MCSql == {Empty, Select, Comment, Update, DeleteAll, DropTable, WithInsert, WithSelect, Execute}
\* WITH x AS (DELETE FROM t RETURNING *) SELECT: no space before DELETE.
WithDelete == Text("with (delete", "with", FALSE, FALSE, "wipes", "reads")
\* ANALYZE DELETE FROM t: not a statement, but EXPLAIN ANALYZE DELETE is.
AnalyzeDelete == Text("analyze delete", "write", FALSE, TRUE, "nothing", "wipes")

MCJobs ==
  {{"query", "select", "delete all", "drop table"},
   {"query", "explain", "faults", "update", "with insert", "execute"}, {"query", "target", "others", "select"},
   {"query", "databases", "select", "target"},
   {"databases", "drop", "create"}, {"databases", "drop", "find", "faults"},
   {"databases", "drop", "others", "refresh"}, {"databases", "data", "find"},
   {"databases", "data", "search", "reset", "faults"}, {"databases", "data", "bar", "comment", "with select", "update"},
   {"databases", "describe", "faults", "refresh"},
   {"tuning", "set", "faults"}, {"tuning", "filter", "refresh", "faults"}, {"tuning", "query"},
   {"dashboard", "locks", "faults"}, {"sessions", "find session", "others", "faults"}}
\* Texts of which the rules do not see what they do.
MCHiddenJobs == {{"query", "explain", "select", "with (delete", "analyze delete"}}
MCHiddenSql == {Empty, Select, WithDelete, AnalyzeDelete}
=============================================================================
