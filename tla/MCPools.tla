------------------------------ MODULE MCPools ------------------------------
(* Small instances of PoolManager: the administrative database and another. *)
EXTENDS PoolManager

CONSTANTS admin, app, c1, c2

Ask(d) == [reuse |-> FALSE, db |-> d]
Again(d) == [reuse |-> TRUE, db |-> d]

\* A load of the tables of app, and ForceDropRole: the administrative database,
\* each connectable database, and DROP ROLE with the first pool.
LoadAndForce == {<<Ask(app)>>, <<Ask(admin), Ask(app), Again(admin)>>}
=============================================================================
