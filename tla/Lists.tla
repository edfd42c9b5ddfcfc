------------------------------- MODULE Lists -------------------------------
(***************************************************************************)
(* Loops over a slice that copy some of its elements to a new one.  The    *)
(* loop is written out, not taken as SelectSeq: the operator SelectSeq     *)
(* takes is out of the provers' reach, a set is not.                       *)
(***************************************************************************)
EXTENDS Naturals, Sequences

\* The elements of s that are in K, in their order.
Only(s, K) ==
  LET out[i \in 0 .. Len(s)] ==
        IF i = 0 THEN <<>>
        ELSE IF s[i] \in K THEN Append(out[i - 1], s[i]) ELSE out[i - 1]
  IN  out[Len(s)]
=============================================================================
