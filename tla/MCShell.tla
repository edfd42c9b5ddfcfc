------------------------------ MODULE MCShell ------------------------------
(* Small instances of Shell: two servers and the environment's connection. *)
EXTENDS Shell, TLC

CONSTANTS a, b, e, s1, s2, bad

Conn(n, c) == [name |-> n, cfg |-> c]
Store(conns, d, env) == [conns |-> conns, default |-> d, env |-> env]

MCNames == {a, b, e}

\* Startups with two servers, one of them broken by hand, and no servers.
ConnectStores ==
  {Store(<<Conn(a, s1), Conn(b, bad)>>, NoName, FALSE),
   Store(<<Conn(a, s1)>>, NoName, TRUE)}
OneServer == {Store(<<Conn(a, s1), Conn(b, s1)>>, NoName, FALSE)}
EditStores ==
  {Store(<<>>, NoName, FALSE),
   Store(<<Conn(a, s1), Conn(b, bad)>>, a, FALSE),
   Store(<<Conn(a, s1)>>, a, TRUE)}
=============================================================================
