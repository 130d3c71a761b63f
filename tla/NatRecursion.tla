---------------------------- MODULE NatRecursion ----------------------------
(***************************************************************************)
(* Functions defined by recursion on the natural numbers, and folds of     *)
(* sequences, for any base and step.  A module's recursive function f is   *)
(* Recursive of an instance with the step of f, and Unfolds is then its    *)
(* defining equation; a fold of it with FoldLeft is Folded of an instance  *)
(* with the operator of the fold, and FoldTakesTheLast says what it does.  *)
(***************************************************************************)
EXTENDS Integers, SequencesExt, WellFoundedInduction, TLAPS

CONSTANTS Base, Step(_, _)

Recursive == CHOOSE f : f = [n \in Nat |-> IF n = 0 THEN Base ELSE Step(n, f[n - 1])]

\* f is what Recursive should be, as far as m.
IsTo(m, f) == f = [n \in 0..m |-> IF n = 0 THEN Base ELSE Step(n, f[n - 1])]

\* Induction, stated with a set: the provers cannot instantiate a predicate.
LEMMA NatSetInduction ==
    ASSUME NEW S, 0 \in S, \A n \in Nat : n \in S => n + 1 \in S
    PROVE  Nat \subseteq S
<1> DEFINE R == OpToRel(<, Nat)
           Out == {n \in Nat : n \notin S}
<1>1. IsWellFoundedOn(R, Nat)
  BY NatLessThanWellFounded
<1>2. \A x, y \in Nat : y < x => <<y, x>> \in R
  BY DEF OpToRel
<1> HIDE DEF R
<1>3. ASSUME Out # {} PROVE FALSE
  <2>1. PICK n \in Out : \A m \in Out : ~ (<<m, n>> \in R)
    BY <1>1, <1>3, WFMin
  <2>2. n # 0 /\ n - 1 \in Nat /\ n - 1 < n
    BY <2>1
  <2>3. n - 1 \in S
    BY <1>2, <2>1, <2>2
  <2> QED
    BY <2>1, <2>2, <2>3
<1> QED
  BY <1>3

LEMMA Apply ==
    ASSUME NEW m \in Nat, NEW f, IsTo(m, f), NEW n \in 0..m
    PROVE  f[n] = IF n = 0 THEN Base ELSE Step(n, f[n - 1])
BY Zenon DEF IsTo

LEMMA Unique ==
    ASSUME NEW m \in Nat, NEW k \in Nat, NEW f, NEW g, IsTo(m, f), IsTo(k, g)
    PROVE  \A n \in Nat : n <= m /\ n <= k => f[n] = g[n]
<1> DEFINE S == {n \in Nat : n <= m /\ n <= k => f[n] = g[n]}
<1>1. 0 \in S
  BY Apply, 0 \in 0..m, 0 \in 0..k
<1>2. ASSUME NEW n \in Nat, n \in S PROVE n + 1 \in S
  <2> SUFFICES ASSUME n + 1 <= m, n + 1 <= k PROVE f[n + 1] = g[n + 1]
    OBVIOUS
  <2>1. n + 1 \in 0..m /\ n + 1 \in 0..k /\ n + 1 # 0 /\ (n + 1) - 1 = n
    OBVIOUS
  <2>2. f[n] = g[n]
    BY <1>2, <2>1
  <2>3. f[n + 1] = Step(n + 1, f[n]) /\ g[n + 1] = Step(n + 1, g[n])
    BY <2>1, Apply, Zenon
  <2> QED
    BY <2>2, <2>3
<1> HIDE DEF S
<1>3. Nat \subseteq S
  BY <1>1, <1>2, NatSetInduction
<1> QED
  BY <1>3 DEF S

LEMMA Exists == \A m \in Nat : \E f : IsTo(m, f)
<1> DEFINE S == {m \in Nat : \E f : IsTo(m, f)}
<1>1. 0 \in S
  <2> DEFINE f == [n \in 0..0 |-> Base]
  <2>1. f = [n \in 0..0 |-> IF n = 0 THEN Base ELSE Step(n, f[n - 1])]
    OBVIOUS
  <2> QED
    BY <2>1 DEF IsTo
<1>2. ASSUME NEW m \in Nat, m \in S PROVE m + 1 \in S
  <2>1. PICK f : IsTo(m, f)
    BY <1>2
  <2> DEFINE g == [n \in 0..(m + 1) |-> IF n = m + 1 THEN Step(n, f[m]) ELSE f[n]]
             h == [n \in 0..(m + 1) |-> IF n = 0 THEN Base ELSE Step(n, g[n - 1])]
  <2>2. ASSUME NEW n \in 0..(m + 1) PROVE g[n] = h[n]
    <3>1. CASE n = m + 1
      <4>1. n # 0 /\ n - 1 = m /\ m \in 0..(m + 1) /\ m # m + 1
        BY <3>1
      <4>2. g[n - 1] = f[m]
        BY <4>1
      <4> QED
        BY <3>1, <4>1, <4>2
    <3>2. CASE n = 0
      <4>1. n \in 0..m /\ n # m + 1
        BY <3>2
      <4>2. f[n] = Base
        BY <2>1, <3>2, <4>1, Apply
      <4> QED
        BY <3>2, <4>1, <4>2
    <3>3. CASE n # 0 /\ n # m + 1
      <4>1. n \in 0..m /\ n - 1 \in 0..(m + 1) /\ n - 1 # m + 1
        BY <3>3
      <4>2. f[n] = Step(n, f[n - 1])
        BY <2>1, <3>3, <4>1, Apply, Zenon
      <4>3. g[n - 1] = f[n - 1]
        BY <4>1
      <4> QED
        BY <3>3, <4>2, <4>3
    <3> QED
      BY <3>1, <3>2, <3>3
  <2>3. g = h
    BY <2>2
  <2>4. IsTo(m + 1, g)
    BY <2>3 DEF IsTo
  <2> QED
    BY <2>4
<1> HIDE DEF S
<1>3. Nat \subseteq S
  BY <1>1, <1>2, NatSetInduction
<1> QED
  BY <1>3 DEF S

\* A recursive definition on the natural numbers is a function, whatever its
\* base and step.
LEMMA Unfolds ==
    /\ Recursive[0] = Base
    /\ \A n \in Nat : n # 0 => Recursive[n] = Step(n, Recursive[n - 1])
<1> DEFINE At(n) == CHOOSE f : IsTo(n, f)
           g == [n \in Nat |-> At(n)[n]]
           h == [n \in Nat |-> IF n = 0 THEN Base ELSE Step(n, g[n - 1])]
<1>1. \A n \in Nat : IsTo(n, At(n))
  BY Exists
<1> HIDE DEF At
<1>2. ASSUME NEW n \in Nat PROVE g[n] = h[n]
  <2>1. n \in 0..n
    OBVIOUS
  <2>2. At(n)[n] = IF n = 0 THEN Base ELSE Step(n, At(n)[n - 1])
    BY <1>1, <2>1, Apply
  <2>3. CASE n = 0
    BY <2>2, <2>3
  <2>4. CASE n # 0
    <3>1. n - 1 \in Nat /\ n - 1 <= n /\ n - 1 <= n - 1
      BY <2>4
    <3>2. At(n)[n - 1] = At(n - 1)[n - 1]
      BY <1>1, <3>1, Unique
    <3> QED
      BY <2>2, <2>4, <3>1, <3>2
  <2> QED
    BY <2>3, <2>4
<1>3. g = h
  BY <1>2
<1> HIDE DEF g
<1>4. \E f : f = [n \in Nat |-> IF n = 0 THEN Base ELSE Step(n, f[n - 1])]
  BY <1>3
<1>5. Recursive = [n \in Nat |-> IF n = 0 THEN Base ELSE Step(n, Recursive[n - 1])]
  BY <1>4, Zenon DEF Recursive
<1> QED
  BY <1>5, Zenon
-----------------------------------------------------------------------------
(* Folds: the largest index is taken last *)

Folded(s) == FoldLeft(Step, Base, s)

LEMMA MaxOfInterval ==
    ASSUME NEW n \in Nat, NEW S, S \subseteq 1..(n + 1), n + 1 \in S
    PROVE  Max(S) = n + 1
<1>1. n + 1 \in S /\ \A y \in S : n + 1 >= y
  OBVIOUS
<1>2. \E x \in S : \A y \in S : x >= y
  BY <1>1
<1>3. Max(S) \in S /\ \A y \in S : Max(S) >= y
  BY <1>2 DEF Max
<1>4. Max(S) \in 1..(n + 1)
  BY <1>3
<1> QED
  BY <1>1, <1>3, <1>4

\* The fold of s over a set of indices.
OneFold(s, g, S) ==
    IF S = {} THEN Base ELSE Step(g[S \ {Max(S)}], s[Max(S)])

\* g folds s over the sets of indices up to n.
Folds(s, n, g) == g = [S \in SUBSET (1..n) |-> OneFold(s, g, S)]

LEMMA FoldsExist == \A s : \A n \in Nat : \E g : Folds(s, n, g)
<1> TAKE s
<1> DEFINE T == {n \in Nat : \E g : Folds(s, n, g)}
<1>1. 0 \in T
  <2> DEFINE g == [S \in SUBSET (1..0) |-> Base]
             h == [S \in SUBSET (1..0) |-> OneFold(s, g, S)]
  <2>1. ASSUME NEW S \in SUBSET (1..0) PROVE g[S] = h[S]
    <3>1. S = {}
      OBVIOUS
    <3> QED
      BY <3>1 DEF OneFold
  <2>2. g = h
    BY <2>1
  <2> QED
    BY <2>2 DEF Folds
<1>2. ASSUME NEW n \in Nat, n \in T PROVE n + 1 \in T
  <2>1. PICK f : Folds(s, n, f)
    BY <1>2
  <2>2. f = [S \in SUBSET (1..n) |-> OneFold(s, f, S)]
    BY <2>1 DEF Folds
  <2>3. \A S \in SUBSET (1..n) : f[S] = OneFold(s, f, S)
    BY <2>2, Zenon
  <2> DEFINE m == n + 1
             g == [S \in SUBSET (1..m) |->
                      IF m \in S THEN Step(f[S \ {m}], s[m]) ELSE f[S]]
             h == [S \in SUBSET (1..m) |-> OneFold(s, g, S)]
  <2>4. ASSUME NEW S \in SUBSET (1..m) PROVE g[S] = h[S]
    <3>1. CASE m \in S
      <4>1. Max(S) = m /\ S # {}
        BY <3>1, MaxOfInterval
      <4>2. S \ {m} \in SUBSET (1..m) /\ m \notin S \ {m}
        OBVIOUS
      <4>3. g[S \ {m}] = f[S \ {m}] /\ g[S] = Step(f[S \ {m}], s[m])
        BY <3>1, <4>2
      <4>4. h[S] = OneFold(s, g, S)
        OBVIOUS
      <4> HIDE DEF g, h, m
      <4>5. OneFold(s, g, S) = Step(g[S \ {m}], s[m])
        BY <4>1 DEF OneFold
      <4> QED
        BY <4>3, <4>4, <4>5
    <3>2. CASE m \notin S
      <4>1. S \in SUBSET (1..n)
        BY <3>2
      <4>2. S \ {Max(S)} \in SUBSET (1..m) /\ m \notin S \ {Max(S)}
        BY <3>2
      <4>3. g[S] = f[S] /\ g[S \ {Max(S)}] = f[S \ {Max(S)}]
        BY <3>2, <4>2
      <4>4. h[S] = OneFold(s, g, S)
        OBVIOUS
      <4> HIDE DEF g, h, m
      <4>5. OneFold(s, g, S) = OneFold(s, f, S)
        BY <4>3 DEF OneFold
      <4> QED
        BY <2>3, <4>1, <4>3, <4>4, <4>5
    <3> QED
      BY <3>1, <3>2
  <2>5. g = h
    BY <2>4
  <2>6. Folds(s, m, g)
    BY <2>5 DEF Folds
  <2> HIDE DEF g, h
  <2>7. \E u : Folds(s, n + 1, u)
    BY <2>6
  <2> QED
    BY <2>7
<1> HIDE DEF T
<1>3. Nat \subseteq T
  BY <1>1, <1>2, NatSetInduction
<1> QED
  BY <1>3 DEF T

LEMMA FoldsStep ==
    ASSUME NEW s, NEW n \in Nat, NEW g, Folds(s, n, g)
    PROVE  /\ g[1..0] = Base
           /\ \A k \in Nat : k + 1 <= n => g[1..(k + 1)] = Step(g[1..k], s[k + 1])
<1>1. g = [S \in SUBSET (1..n) |-> OneFold(s, g, S)]
  BY DEF Folds
<1>2. \A S \in SUBSET (1..n) : g[S] = OneFold(s, g, S)
  BY <1>1, Zenon
<1>3. g[1..0] = Base
  <2>1. 1..0 = {} /\ 1..0 \in SUBSET (1..n)
    OBVIOUS
  <2> QED
    BY <1>2, <2>1 DEF OneFold
<1>4. ASSUME NEW k \in Nat, k + 1 <= n PROVE g[1..(k + 1)] = Step(g[1..k], s[k + 1])
  <2> DEFINE S == 1..(k + 1)
  <2>1. S \in SUBSET (1..n) /\ S # {} /\ Max(S) = k + 1 /\ S \ {k + 1} = 1..k
    BY <1>4, MaxOfInterval
  <2> HIDE DEF S
  <2>2. g[S] = Step(g[1..k], s[k + 1])
    BY <1>2, <2>1 DEF OneFold
  <2> QED
    BY <2>2 DEF S
<1> QED
  BY <1>3, <1>4

LEMMA FoldsAgree ==
    ASSUME NEW s, NEW t, NEW m \in Nat, NEW n \in Nat, NEW f, NEW g,
           Folds(s, m, f), Folds(t, n, g), n <= m, \A i \in 1..n : s[i] = t[i]
    PROVE  f[1..n] = g[1..n]
<1> DEFINE T == {k \in Nat : k <= n => f[1..k] = g[1..k]}
<1>1. 0 \in T
  BY FoldsStep
<1>2. ASSUME NEW k \in Nat, k \in T PROVE k + 1 \in T
  <2> SUFFICES ASSUME k + 1 <= n PROVE f[1..(k + 1)] = g[1..(k + 1)]
    OBVIOUS
  <2>1. f[1..k] = g[1..k] /\ s[k + 1] = t[k + 1]
    BY <1>2
  <2>2. f[1..(k + 1)] = Step(f[1..k], s[k + 1]) /\ g[1..(k + 1)] = Step(g[1..k], t[k + 1])
    BY FoldsStep
  <2> QED
    BY <2>1, <2>2
<1> HIDE DEF T
<1>3. n \in T
  BY <1>1, <1>2, NatSetInduction
<1> QED
  BY <1>3 DEF T

LEMMA FoldedFolds ==
    ASSUME NEW s, NEW n \in Nat, DOMAIN s = 1..n
    PROVE  \E g : Folds(s, n, g) /\ Folded(s) = g[1..n]
<1> DEFINE G(g) == g = [S \in SUBSET DOMAIN s |->
                          IF S = {} THEN Base ELSE Step(g[S \ {Max(S)}], s[Max(S)])]
<1>1. Folded(s) = (CHOOSE g : G(g))[DOMAIN s]
  BY DEF Folded, FoldLeft, MapThenFoldSet
<1>2. \A g : G(g) <=> Folds(s, n, g)
  BY Zenon DEF Folds, OneFold
<1> HIDE DEF G
<1>3. G(CHOOSE g : G(g))
  BY <1>2, FoldsExist
<1> QED
  BY <1>1, <1>2, <1>3

\* Folding a sequence is folding all of it but the last element, which is
\* taken then, whatever the fold's operator.
LEMMA FoldTakesTheLast ==
    /\ \A s : DOMAIN s = 1..0 => Folded(s) = Base
    /\ \A s, t : \A n \in Nat :
          DOMAIN s = 1..(n + 1) /\ DOMAIN t = 1..n /\ (\A i \in 1..n : s[i] = t[i]) =>
             Folded(s) = Step(Folded(t), s[n + 1])
<1>1. ASSUME NEW s, DOMAIN s = 1..0 PROVE Folded(s) = Base
  <2>1. PICK g : Folds(s, 0, g) /\ Folded(s) = g[1..0]
    BY <1>1, FoldedFolds
  <2> QED
    BY <2>1, FoldsStep
<1>2. ASSUME NEW s, NEW t, NEW n \in Nat,
             DOMAIN s = 1..(n + 1), DOMAIN t = 1..n, \A i \in 1..n : s[i] = t[i]
      PROVE  Folded(s) = Step(Folded(t), s[n + 1])
  <2>1. PICK f : Folds(s, n + 1, f) /\ Folded(s) = f[1..(n + 1)]
    BY <1>2, FoldedFolds
  <2>2. PICK g : Folds(t, n, g) /\ Folded(t) = g[1..n]
    BY <1>2, FoldedFolds
  <2>3. f[1..n] = g[1..n]
    BY <1>2, <2>1, <2>2, FoldsAgree
  <2>4. f[1..(n + 1)] = Step(f[1..n], s[n + 1])
    BY <2>1, FoldsStep
  <2> QED
    BY <2>1, <2>2, <2>3, <2>4
<1> QED
  BY <1>1, <1>2
=============================================================================
