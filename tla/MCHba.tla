------------------------------- MODULE MCHba -------------------------------
(* Small instances of HbaEditor: a comment, the administrator's rule, one of *)
(* another user, one that turns the administrator away, one with an error.   *)
EXTENDS HbaEditor

CONSTANTS note, me, other, refuse, broken

MCFiles == {<<note, me, other>>}
ShortFiles == {<<note, me>>}
=============================================================================
