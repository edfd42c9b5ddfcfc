----------------------------- MODULE ListProofs -----------------------------
(***************************************************************************)
(* What the loops of Lists compute, for every list.  Induction over the    *)
(* length is by the least number: the induction theorems of the library    *)
(* take the formula as an operator, this one takes the set of the numbers  *)
(* for which it fails.                                                     *)
(***************************************************************************)
EXTENDS Lists, FiniteSetTheorems, WellFoundedInduction, TLAPS

\* A set of numbers that is not empty has a least one.
LEMMA LeastNumber ==
  ASSUME NEW S, S \subseteq Nat, S # {}
  PROVE  \E m \in S : \A k \in S : m <= k
<1> DEFINE T == {0 .. k : k \in S}
<1>1. IsWellFoundedOn(StrictSubsetOrdering(Nat), FiniteSubsetsOf(Nat))
  BY FS_StrictSubsetOrderingWellFounded
<1>2. T \subseteq FiniteSubsetsOf(Nat)
  <2>1. \A k \in S : IsFiniteSet(0 .. k)
    BY FS_Interval
  <2> QED BY <2>1 DEF FiniteSubsetsOf
<1>3. \E x \in T : \A y \in T : <<y, x>> \notin StrictSubsetOrdering(Nat)
  <2>1. T # {}
    OBVIOUS
  <2> HIDE DEF T
  <2> QED BY <1>1, <1>2, <2>1, WFMin
<1>4. PICK m \in S : \A k \in S : <<0 .. k, 0 .. m>> \notin StrictSubsetOrdering(Nat)
  BY <1>3
<1>5. ASSUME NEW k \in S, k < m PROVE FALSE
  <2> DEFINE p == <<0 .. k, 0 .. m>>
  <2>1. k \in Nat /\ m \in Nat /\ m \in 0 .. m /\ m \notin 0 .. k
    BY <1>5
  <2>2. 0 .. k \subseteq 0 .. m /\ 0 .. k # 0 .. m
    BY <2>1, <1>5
  <2>3. p \in (SUBSET Nat) \X (SUBSET Nat) /\ p[1] = 0 .. k /\ p[2] = 0 .. m
    OBVIOUS
  <2>4. p \notin StrictSubsetOrdering(Nat)
    BY <1>4
  <2> HIDE DEF p
  <2> QED BY <2>2, <2>3, <2>4 DEF StrictSubsetOrdering
<1> QED BY <1>5

\* Induction up to n: what holds of 0 and of i whenever it holds of i - 1.
LEMMA UpTo ==
  ASSUME NEW n \in Nat, NEW S, 0 \in S, \A i \in 1 .. n : i - 1 \in S => i \in S
  PROVE  0 .. n \subseteq S
<1> SUFFICES ASSUME 0 .. n \ S # {} PROVE FALSE
  OBVIOUS
<1>1. PICK m \in 0 .. n \ S : \A k \in 0 .. n \ S : m <= k
  <2>1. 0 .. n \ S \subseteq Nat
    OBVIOUS
  <2> QED BY <2>1, LeastNumber
<1>2. m \in 1 .. n /\ m - 1 \in 0 .. n
  BY <1>1
<1>3. m - 1 \in S
  BY <1>1, <1>2
<1> QED BY <1>1, <1>2, <1>3

----------------------------------------------------------------------------
(* Only.                                                                   *)

\* The loop as a function of the elements it has passed.
Passes(out, s, K) ==
  out = [i \in 0 .. Len(s) |->
          IF i = 0 THEN <<>>
          ELSE IF s[i] \in K THEN Append(out[i - 1], s[i]) ELSE out[i - 1]]

LEMMA OnlyPasses ==
  ASSUME NEW s, Len(s) \in Nat, NEW K
  PROVE  \E out : Passes(out, s, K) /\ Only(s, K) = out[Len(s)]
<1> DEFINE n == Len(s)
           Upto(out, m) == out = [i \in 0 .. m |->
             IF i = 0 THEN <<>>
             ELSE IF s[i] \in K THEN Append(out[i - 1], s[i]) ELSE out[i - 1]]
           S == {m \in 0 .. n : \E out : Upto(out, m)}
<1>1. 0 \in S
  <2>1. Upto([i \in 0 .. 0 |-> <<>>], 0)
    OBVIOUS
  <2> HIDE DEF Upto
  <2> QED BY <2>1
<1>2. ASSUME NEW m \in 1 .. n, m - 1 \in S PROVE m \in S
  <2>1. PICK out : Upto(out, m - 1)
    BY <1>2
  <2> DEFINE more == [i \in 0 .. m |->
        IF i = m THEN IF s[m] \in K THEN Append(out[m - 1], s[m]) ELSE out[m - 1] ELSE out[i]]
  <2>2. \A i \in 0 .. m - 1 : more[i] = out[i]
    OBVIOUS
  <2>3. \A i \in 0 .. m :
          more[i] = IF i = 0 THEN <<>>
                    ELSE IF s[i] \in K THEN Append(more[i - 1], s[i]) ELSE more[i - 1]
    <3> SUFFICES ASSUME NEW i \in 0 .. m
                 PROVE  more[i] = IF i = 0 THEN <<>>
                          ELSE IF s[i] \in K THEN Append(more[i - 1], s[i]) ELSE more[i - 1]
      OBVIOUS
    <3>1. CASE i = m
      <4>1. more[m - 1] = out[m - 1] /\ m # 0
        BY <2>2
      <4> QED BY <3>1, <4>1
    <3>2. CASE i # m
      <4>1. i \in 0 .. m - 1 /\ more[i] = out[i]
        BY <3>2, <2>2
      <4>2. i # 0 => more[i - 1] = out[i - 1]
        BY <4>1, <2>2
      <4>3. out[i] = IF i = 0 THEN <<>>
                     ELSE IF s[i] \in K THEN Append(out[i - 1], s[i]) ELSE out[i - 1]
        BY <2>1, <4>1
      <4> HIDE DEF more
      <4> QED BY <4>1, <4>2, <4>3
    <3> QED BY <3>1, <3>2
  <2>4. Upto(more, m)
    <3>1. DOMAIN more = 0 .. m /\ more = [i \in 0 .. m |-> more[i]]
      OBVIOUS
    <3> HIDE DEF more
    <3> QED BY <2>3, <3>1
  <2> HIDE DEF Upto
  <2> QED BY <2>4
<1>3. n \in S
  <2>1. n \in Nat /\ \A i \in 1 .. n : i - 1 \in S => i \in S
    BY <1>2
  <2> HIDE DEF S, n
  <2>2. 0 .. n \subseteq S
    BY <1>1, <2>1, UpTo
  <2> QED BY <2>1, <2>2
<1>4. \E out : Passes(out, s, K)
  BY <1>3 DEF Passes
<1>5. Passes(CHOOSE out : Passes(out, s, K), s, K)
  BY <1>4
<1>6. Only(s, K) = (CHOOSE out : Passes(out, s, K))[Len(s)]
  BY DEF Only, Passes
<1> QED BY <1>5, <1>6

\* t holds the elements of the first i of s that are in K: h says where each was.
CopiedFrom(h, t, s, K, i) ==
  /\ DOMAIN h = 1 .. Len(t)
  /\ \A k \in 1 .. Len(t) : h[k] \in 1 .. i /\ t[k] = s[h[k]] /\ t[k] \in K
  /\ \A j, k \in 1 .. Len(t) : j < k => h[j] < h[k]
  /\ \A p \in 1 .. i : s[p] \in K => \E k \in 1 .. Len(t) : h[k] = p

LEMMA CopiedMore ==
  ASSUME NEW S, NEW s \in Seq(S), NEW K, NEW t \in Seq(S), NEW i \in 1 .. Len(s),
         NEW h, CopiedFrom(h, t, s, K, i - 1)
  PROVE  /\ s[i] \in K => \E g : CopiedFrom(g, Append(t, s[i]), s, K, i)
         /\ s[i] \notin K => CopiedFrom(h, t, s, K, i)
<1>1. ASSUME s[i] \in K PROVE \E g : CopiedFrom(g, Append(t, s[i]), s, K, i)
  <2> DEFINE n == Len(t)
             u == Append(t, s[i])
             g == [k \in 1 .. n + 1 |-> IF k = n + 1 THEN i ELSE h[k]]
  <2>1. n \in Nat /\ Len(u) = n + 1 /\ u[n + 1] = s[i] /\ \A k \in 1 .. n : u[k] = t[k]
    OBVIOUS
  <2>2. DOMAIN g = 1 .. n + 1 /\ g[n + 1] = i /\ \A k \in 1 .. n : g[k] = h[k]
    OBVIOUS
  <2>3. \A k \in 1 .. n + 1 : k = n + 1 \/ k \in 1 .. n
    BY <2>1
  <2>4. \A k \in 1 .. n + 1 : g[k] \in 1 .. i /\ u[k] = s[g[k]] /\ u[k] \in K
    <3> HIDE DEF n, u, g
    <3> SUFFICES ASSUME NEW k \in 1 .. n + 1
                 PROVE  g[k] \in 1 .. i /\ u[k] = s[g[k]] /\ u[k] \in K
      OBVIOUS
    <3>1. CASE k = n + 1
      BY <1>1, <2>1, <2>2, <3>1
    <3>2. CASE k \in 1 .. n
      <4>1. h[k] \in 1 .. i - 1 /\ t[k] = s[h[k]] /\ t[k] \in K
        BY <3>2 DEF CopiedFrom, n
      <4> QED BY <2>1, <2>2, <3>2, <4>1
    <3> QED BY <2>3, <3>1, <3>2
  <2>5. \A j, k \in 1 .. n + 1 : j < k => g[j] < g[k]
    <3> HIDE DEF u, g
    <3>1. \A j \in 1 .. n : h[j] \in 1 .. i - 1
      BY DEF CopiedFrom
    <3> SUFFICES ASSUME NEW j \in 1 .. n + 1, NEW k \in 1 .. n + 1, j < k PROVE g[j] < g[k]
      OBVIOUS
    <3>2. j \in 1 .. n /\ g[j] = h[j] /\ h[j] \in 1 .. i - 1
      BY <2>1, <2>2, <3>1
    <3>3. CASE k = n + 1
      BY <3>2, <3>3, <2>2
    <3>4. CASE k \in 1 .. n
      BY <3>2, <3>4, <2>2 DEF CopiedFrom
    <3> QED BY <2>3, <3>3, <3>4
  <2>6. \A p \in 1 .. i : s[p] \in K => \E k \in 1 .. n + 1 : g[k] = p
    <3> SUFFICES ASSUME NEW p \in 1 .. i, s[p] \in K PROVE \E k \in 1 .. n + 1 : g[k] = p
      OBVIOUS
    <3>1. CASE p = i
      BY <3>1, <2>1, <2>2
    <3>2. CASE p # i
      <4>1. PICK k \in 1 .. n : h[k] = p
        BY <3>2 DEF CopiedFrom
      <4>2. k \in 1 .. n + 1 /\ g[k] = p
        BY <4>1, <2>1, <2>2
      <4> QED BY <4>2
    <3> QED BY <3>1, <3>2
  <2>7. CopiedFrom(g, u, s, K, i)
    <3> HIDE DEF n, u, g
    <3> QED BY <2>1, <2>2, <2>4, <2>5, <2>6 DEF CopiedFrom
  <2> QED BY <2>7
<1>2. ASSUME s[i] \notin K PROVE CopiedFrom(h, t, s, K, i)
  BY <1>2 DEF CopiedFrom
<1> QED BY <1>1, <1>2

\* Only keeps the elements of s that are in K, each once and in their order.
LEMMA OnlyPicks ==
  ASSUME NEW S, NEW s \in Seq(S), NEW K
  PROVE  /\ Only(s, K) \in Seq(S)
         /\ \E h : CopiedFrom(h, Only(s, K), s, K, Len(s))
<1>1. PICK out : Passes(out, s, K) /\ Only(s, K) = out[Len(s)]
  BY OnlyPasses
<1> DEFINE Good == {i \in 0 .. Len(s) : out[i] \in Seq(S) /\ \E h : CopiedFrom(h, out[i], s, K, i)}
<1>2. 0 \in Good
  <2>1. out[0] = <<>>
    BY <1>1 DEF Passes
  <2>2. CopiedFrom(<<>>, <<>>, s, K, 0)
    BY DEF CopiedFrom
  <2>3. 0 \in 0 .. Len(s) /\ out[0] \in Seq(S) /\ \E h : CopiedFrom(h, out[0], s, K, 0)
    BY <2>1, <2>2
  <2> QED BY <2>3
<1>3. ASSUME NEW i \in 1 .. Len(s), i - 1 \in Good PROVE i \in Good
  <2>1. PICK h : CopiedFrom(h, out[i - 1], s, K, i - 1)
    BY <1>3
  <2>2. out[i - 1] \in Seq(S) /\ s[i] \in S
    BY <1>3
  <2>3. out[i] = IF s[i] \in K THEN Append(out[i - 1], s[i]) ELSE out[i - 1]
    <3>1. i \in 0 .. Len(s) /\ i # 0
      OBVIOUS
    <3> QED BY <1>1, <3>1 DEF Passes
  <2>4. \E g : CopiedFrom(g, out[i], s, K, i)
    <3>1. CASE s[i] \in K
      BY <2>1, <2>2, <2>3, <3>1, CopiedMore
    <3>2. CASE s[i] \notin K
      BY <2>1, <2>2, <2>3, <3>2, CopiedMore
    <3> QED BY <3>1, <3>2
  <2>5. out[i] \in Seq(S)
    BY <2>2, <2>3
  <2> QED BY <2>4, <2>5
<1>4. Len(s) \in Good
  <2>1. \A i \in 1 .. Len(s) : i - 1 \in Good => i \in Good
    BY <1>3
  <2>2. Len(s) \in Nat
    OBVIOUS
  <2> HIDE DEF Good
  <2>3. 0 .. Len(s) \subseteq Good
    BY <1>2, <2>1, <2>2, UpTo
  <2> QED BY <2>2, <2>3
<1> QED BY <1>1, <1>4

\* What it finds it found in the list, and no more than that.
LEMMA OnlyKeeps ==
  ASSUME NEW S, NEW s \in Seq(S), NEW K
  PROVE  /\ Only(s, K) \in Seq(S \cap K)
         /\ Len(Only(s, K)) <= Len(s)
<1> DEFINE t == Only(s, K)
<1>1. PICK h : CopiedFrom(h, t, s, K, Len(s))
  BY OnlyPicks
<1>2. t \in Seq(S)
  BY OnlyPicks
<1> HIDE DEF t
<1>3. t \in Seq(S \cap K)
  <2>1. \A k \in 1 .. Len(t) : t[k] \in S \cap K
    BY <1>1, <1>2 DEF CopiedFrom
  <2> QED BY <1>2, <2>1
<1>4. Len(t) <= Len(s)
  <2> DEFINE Good == {k \in 0 .. Len(t) : k = 0 \/ h[k] >= k}
  <2>1. ASSUME NEW k \in 1 .. Len(t), k - 1 \in Good PROVE k \in Good
    <3>1. h[k] \in 1 .. Len(s)
      BY <1>1 DEF CopiedFrom
    <3>2. k # 1 => k - 1 \in 1 .. Len(t)
      BY <1>2
    <3>3. k # 1 => h[k - 1] \in 1 .. Len(s) /\ h[k - 1] < h[k]
      BY <3>2, <1>1 DEF CopiedFrom
    <3> QED BY <2>1, <3>1, <3>3
  <2>2. 0 \in Good /\ Len(t) \in Nat
    BY <1>2
  <2>3. 0 .. Len(t) \subseteq Good
    <3> HIDE DEF Good
    <3> QED BY <2>1, <2>2, UpTo
  <2>4. Len(t) \in Good
    BY <2>2, <2>3
  <2>5. Len(t) # 0 => h[Len(t)] >= Len(t)
    BY <2>4
  <2>6. Len(t) # 0 => h[Len(t)] \in 1 .. Len(s)
    BY <2>2, <1>1 DEF CopiedFrom
  <2> QED BY <2>2, <2>5, <2>6
<1> QED BY <1>3, <1>4 DEF t

\* It leaves nothing out.
LEMMA OnlyFinds ==
  ASSUME NEW S, NEW s \in Seq(S), NEW K, NEW p \in DOMAIN s, s[p] \in K
  PROVE  \E k \in DOMAIN Only(s, K) : Only(s, K)[k] = s[p]
<1> DEFINE t == Only(s, K)
<1>1. t \in Seq(S) /\ \E h : CopiedFrom(h, t, s, K, Len(s))
  BY OnlyPicks
<1>2. PICK h : CopiedFrom(h, t, s, K, Len(s))
  BY <1>1
<1> HIDE DEF t
<1>3. DOMAIN s = 1 .. Len(s) /\ DOMAIN t = 1 .. Len(t)
  BY <1>1
<1>4. PICK k \in 1 .. Len(t) : h[k] = p
  BY <1>2, <1>3 DEF CopiedFrom
<1>5. t[k] = s[p]
  BY <1>2, <1>3, <1>4 DEF CopiedFrom
<1> QED BY <1>3, <1>4, <1>5 DEF t

\* The first element of a list and the others.
LEMMA FirstAndRest ==
  ASSUME NEW S, NEW s \in Seq(S), s # <<>>
  PROVE  /\ Len(s) \in Nat \ {0} /\ DOMAIN s = 1 .. Len(s) /\ Head(s) \in S /\ Head(s) = s[1]
         /\ Tail(s) \in Seq(S) /\ Len(Tail(s)) = Len(s) - 1
         /\ DOMAIN Tail(s) = 1 .. Len(s) - 1
         /\ \A k \in 1 .. Len(s) - 1 : Tail(s)[k] = s[k + 1]
         /\ Len(s) = 1 <=> Tail(s) = <<>>
<1>1. Len(s) \in Nat \ {0} /\ DOMAIN s = 1 .. Len(s) /\ Head(s) = s[1]
  OBVIOUS
<1>2. Head(s) \in S
  BY <1>1
<1>3. /\ Tail(s) \in Seq(S) /\ Len(Tail(s)) = Len(s) - 1
      /\ \A k \in 1 .. Len(s) - 1 : Tail(s)[k] = s[k + 1]
  <2>1. Tail(s) \in Seq(S)
    OBVIOUS
  <2>2. Len(Tail(s)) = Len(s) - 1
    OBVIOUS
  <2>3. \A k \in 1 .. Len(s) - 1 : Tail(s)[k] = s[k + 1]
    OBVIOUS
  <2> QED BY <2>1, <2>2, <2>3
<1>4. DOMAIN Tail(s) = 1 .. Len(s) - 1
  BY <1>3
<1>5. Len(s) = 1 <=> Tail(s) = <<>>
  <2> DEFINE t == Tail(s)
  <2>1. t \in Seq(S) /\ Len(t) = Len(s) - 1
    BY <1>3
  <2> HIDE DEF t
  <2>2. t = <<>> <=> Len(t) = 0
    <3>1. ASSUME t = <<>> PROVE Len(t) = 0
      BY <3>1
    <3>2. ASSUME Len(t) = 0 PROVE t = <<>>
      BY <2>1, <3>2
    <3> QED BY <3>1, <3>2
  <2>3. Len(t) = 0 <=> Len(s) = 1
    BY <1>1, <2>1
  <2> QED BY <2>2, <2>3 DEF t
<1> QED BY <1>1, <1>2, <1>3, <1>4, <1>5

LEMMA OneElement ==
  ASSUME NEW x
  PROVE  DOMAIN <<x>> = {1} /\ <<x>>[1] = x /\ Len(<<x>>) = 1 /\ <<x>> # <<>>
<1>1. DOMAIN <<x>> = {1}
  OBVIOUS
<1>2. <<x>>[1] = x
  OBVIOUS
<1>3. Len(<<x>>) = 1 /\ <<x>> # <<>>
  OBVIOUS
<1> QED BY <1>1, <1>2, <1>3
=============================================================================
