----------------------------- MODULE Induction -----------------------------
(***************************************************************************)
(* Induction on the natural numbers and on bounded sequences of steps,     *)
(* with sets and functions in the place of operators, so that a proof can  *)
(* cite it with a set of its own.                                          *)
(***************************************************************************)
EXTENDS Integers, FiniteSets, FiniteSetTheorems, WellFoundedInduction, TLAPS

\* A non-empty set of natural numbers has a least element.
LEMMA LeastElement ==
  ASSUME NEW S \in SUBSET Nat, S # {}
  PROVE  \E m \in S : \A n \in S : m <= n
  <1>1. \E m \in S : \A n \in S : ~ (<<n, m>> \in OpToRel(<, Nat))
    BY NatLessThanWellFounded, WFMin
  <1>2. ASSUME NEW m \in S, NEW n \in S, ~ (<<n, m>> \in OpToRel(<, Nat))
        PROVE  m <= n
    BY <1>2 DEF OpToRel
  <1>3. QED
    BY <1>1, <1>2

\* A set with 0 that contains the successor of each of its numbers has all.
LEMMA SetInduction ==
  ASSUME NEW S, 0 \in S, \A n \in Nat : n \in S => n + 1 \in S
  PROVE  Nat \subseteq S
  <1>1. SUFFICES ASSUME Nat \ S # {} PROVE FALSE
    OBVIOUS
  <1>2. PICK m \in Nat \ S : \A n \in Nat \ S : m <= n
    BY <1>1, LeastElement
  <1>3. m # 0 /\ m - 1 \in Nat /\ m - 1 \in S
    BY <1>2
  <1>4. QED
    BY <1>2, <1>3

\* The same up to a bound.
LEMMA BoundedInduction ==
  ASSUME NEW N \in Nat, NEW S, 0 \in S,
         \A n \in 0 .. N - 1 : n \in S => n + 1 \in S
  PROVE  0 .. N \subseteq S
  <1>1. SUFFICES ASSUME (0 .. N) \ S # {} PROVE FALSE
    OBVIOUS
  <1> DEFINE T == (0 .. N) \ S
  <1>1a. T \in SUBSET Nat /\ T # {}
    BY <1>1
  <1>2. PICK m \in T : \A n \in T : m <= n
    <2> HIDE DEF T
    <2>1. QED
      BY <1>1a, LeastElement
  <1>3. m # 0 /\ m - 1 \in 0 .. N - 1 /\ m - 1 \in S
    BY <1>2
  <1>4. QED
    BY <1>2, <1>3

\* g gives what repeating F from a gives, up to N times.
Repeats(g, F, D, a, N) ==
    g \in [0 .. N -> D] /\ g[0] = a /\ \A k \in 0 .. N - 1 : g[k + 1] = F[g[k]]

\* Repeating a step exists as a function of the number of repetitions.
LEMMA Iteration ==
  ASSUME NEW N \in Nat, NEW D, NEW F \in [D -> D], NEW a \in D
  PROVE  \E g : Repeats(g, F, D, a, N)
  <1> DEFINE S == {n \in Nat : \E g : Repeats(g, F, D, a, n)}
  <1>1. 0 \in S
    <2>1. Repeats([k \in 0 .. 0 |-> a], F, D, a, 0)
      BY DEF Repeats
    <2>2. QED
      BY <2>1
  <1>2. ASSUME NEW n \in Nat, n \in S
        PROVE  n + 1 \in S
    <2>1. PICK g : Repeats(g, F, D, a, n)
      BY <1>2
    <2>1a. g \in [0 .. n -> D] /\ g[0] = a /\ \A k \in 0 .. n - 1 : g[k + 1] = F[g[k]]
      BY <2>1 DEF Repeats
    <2> DEFINE h == [k \in 0 .. n + 1 |-> IF k = n + 1 THEN F[g[n]] ELSE g[k]]
    <2>2. ASSUME NEW k \in 0 .. n
          PROVE  h[k + 1] = F[h[k]]
      <3>1. h[k] = g[k]
        OBVIOUS
      <3>2. CASE k = n
        BY <3>1, <3>2
      <3>3. CASE k # n
        <4>1. k \in 0 .. n - 1 /\ h[k + 1] = g[k + 1]
          BY <3>3
        <4>2. QED
          BY <2>1a, <3>1, <4>1
      <3>4. QED
        BY <3>2, <3>3
    <2>3. h[0] = a /\ h \in [0 .. n + 1 -> D]
      BY <2>1a
    <2> HIDE DEF h
    <2>4. Repeats(h, F, D, a, n + 1)
      BY <2>2, <2>3 DEF Repeats
    <2>5. QED
      BY <2>4
  <1>3. Nat \subseteq S
    <2> HIDE DEF S
    <2>1. QED
      BY <1>1, <1>2, SetInduction
  <1>4. QED
    BY <1>3

\* A scan from i that must end by n + 1 has a first place where it ends.
LEMMA FirstOutside ==
  ASSUME NEW n \in Nat, NEW i \in 1 .. n + 1, NEW D, n + 1 \notin D
  PROVE  \E j \in i .. n + 1 : j \notin D /\ \A k \in i .. j - 1 : k \in D
  <1> DEFINE J == {j \in i .. n + 1 : j \notin D}
  <1>1. J \in SUBSET Nat /\ J # {}
    <2>1. n + 1 \in J
      OBVIOUS
    <2>2. QED
      BY <2>1
  <1>2. PICK m \in J : \A k \in J : m <= k
    <2> HIDE DEF J
    <2>1. QED
      BY <1>1, LeastElement
  <1>3. ASSUME NEW k \in i .. m - 1, k \notin D PROVE FALSE
    <2>1. k \in J /\ ~ (m <= k)
      BY <1>3
    <2>2. QED
      BY <1>2, <2>1
  <1>4. QED
    BY <1>2, <1>3
=============================================================================
