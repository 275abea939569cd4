---------------------------- MODULE MemoryProofs ----------------------------
(***************************************************************************)
(* Proofs about GCLists, for any finite set of objects: the lists stay     *)
(* exact, and they implement the three sets of TriColour.  Proofs about    *)
(* Pool, from which the objects are taken, for any number of objects and   *)
(* buckets and any bucket size: memory in use is never handed out again,   *)
(* the lists of buckets stay apart, at most one retired bucket is idle.    *)
(* Proofs about HashMap, in which scopes and tables keep what they hold,   *)
(* for any hashes and any capacities: every probe ends at the right slot,  *)
(* growing loses nothing, and the map implements the partial function of   *)
(* AbstractMap.                                                            *)
(*                                                                         *)
(* A list is a set of objects, an order of them and the links along it.    *)
(* The lemmas about pushing and unlinking say what happens to the order;   *)
(* the colours and the other lists then follow from which objects a write  *)
(* touches.  Where a probe stops is the least distance from the hash's     *)
(* home, and which values a map holds is a relation between hashes and     *)
(* values; the lemmas say what an insertion does to the two.               *)
(***************************************************************************)
EXTENDS GCLists, Pool, HashMap, Induction


\* s lists the n objects of T, each once.
Order(n, s, T) ==
  /\ n \in Nat /\ s \in [1..n -> T]
  /\ \A o \in T : \E i \in 1..n : s[i] = o
  /\ \A i, j \in 1..n : s[i] = s[j] => i = j

\* The links along s: h is the head, nx and pv are `next` and `prev`; back links
\* may be missing where lax holds.
Links(n, s, h, nx, pv, lax) ==
  /\ h = IF n = 0 THEN Null ELSE s[1]
  /\ \A i \in 1..n : nx[s[i]] = IF i = n THEN Null ELSE s[i + 1]
  /\ \A i \in 1..n : \/ pv[s[i]] = IF i = 1 THEN Null ELSE s[i - 1]
                     \/ lax /\ pv[s[i]] = Null

\* The list of the objects of T with the given head.
IsList(T, h, nx, pv, lax) ==
  \E n, s : Order(n, s, T) /\ Links(n, s, h, nx, pv, lax)

-----------------------------------------------------------------------------
\* Listed, which counts the objects, and IsList say the same.
LEMMA ListedIsList ==
  ASSUME NEW m, NEW l, NEW T, IsFiniteSet(T)
  PROVE  Listed(m, l, T) <=> IsList(T, m.head[l], m.next, m.prev, l = "grey")
  <1> DEFINE c == Cardinality(T)
             L(n, s) == Links(n, s, m.head[l], m.next, m.prev, l = "grey")
  <1>1. c \in Nat /\ IsFiniteSet(1..c) /\ Cardinality(1..c) = c
    BY FS_CardinalityType, FS_Interval
  <1>2. Listed(m, l, T) <=>
          \E s \in [1..c -> T] : (\A o \in T : \E i \in 1..c : s[i] = o) /\ L(c, s)
    BY <1>1 DEF Listed, Links
  <1>3. ASSUME NEW s \in [1..c -> T], \A o \in T : \E i \in 1..c : s[i] = o
        PROVE  Order(c, s, T)
    <2>1. s \in Surjection(1..c, T)
      BY <1>3 DEF Surjection
    <2>2. s \in Injection(1..c, T)
      BY <2>1, <1>1, FS_SurjSameCardinalityImpliesInj
    <2>3. QED
      BY <1>1, <1>3, <2>2 DEF Order, Injection, IsInjective
  <1>4. ASSUME NEW n, NEW s, Order(n, s, T)
        PROVE  n = c
    <2>1. s \in Bijection(1..n, T)
      BY <1>4 DEF Order, Bijection, Injection, Surjection, IsInjective
    <2>2. ExistsBijection(1..n, T) /\ n \in Nat
      BY <1>4, <2>1 DEF ExistsBijection, Order
    <2>3. QED
      BY <2>2, FS_CountingElements
  <1> HIDE DEF c, L
  <1>5. ASSUME IsList(T, m.head[l], m.next, m.prev, l = "grey")
        PROVE  Listed(m, l, T)
    <2>1. PICK n, s : Order(n, s, T) /\ L(n, s)
      BY <1>5 DEF IsList, L
    <2>2. n = c
      BY <1>4, <2>1
    <2>3. QED
      BY <1>2, <2>1, <2>2 DEF Order
  <1>6. ASSUME Listed(m, l, T)
        PROVE  IsList(T, m.head[l], m.next, m.prev, l = "grey")
    <2>1. PICK s \in [1..c -> T] : (\A o \in T : \E i \in 1..c : s[i] = o) /\ L(c, s)
      BY <1>2, <1>6
    <2>2. Order(c, s, T)
      BY <1>3, <2>1
    <2>3. QED
      BY <1>1, <2>1, <2>2 DEF IsList, L
  <1>7. QED
    BY <1>5, <1>6

\* A list has a head unless it is empty, and nothing points back from it.
LEMMA HeadOfList ==
  ASSUME NEW T, NEW h, NEW nx, NEW pv, NEW lax, IsList(T, h, nx, pv, lax), Null \notin T
  PROVE  /\ h = Null <=> T = {}
         /\ h # Null => h \in T /\ pv[h] = Null /\ nx[h] \in (T \ {h}) \cup {Null}
  <1>1. PICK n, s : Order(n, s, T) /\ Links(n, s, h, nx, pv, lax)
    BY DEF IsList
  <1>1a. n \in Nat
    BY <1>1 DEF Order
  <1>2. CASE n = 0
    BY <1>1, <1>2 DEF Order, Links
  <1>3. CASE n # 0
    <2>1. 1 \in 1..n /\ h = s[1] /\ s[1] \in T
      BY <1>1a, <1>1, <1>3 DEF Links, Order
    <2>2. pv[s[1]] = Null
      BY <1>1, <2>1 DEF Links
    <2>3. nx[s[1]] = Null \/ (n # 1 /\ nx[s[1]] = s[2] /\ s[2] \in T /\ s[2] # s[1])
      BY <1>1, <2>1 DEF Links, Order
    <2>4. QED
      BY <2>1, <2>2, <2>3
  <1>4. QED
    BY <1>2, <1>3

\* Writes to links of other objects do not touch a list.
LEMMA ListUntouched ==
  ASSUME NEW T, NEW h, NEW nx, NEW pv, NEW lax, IsList(T, h, nx, pv, lax),
         NEW nx2, NEW pv2, \A o \in T : nx2[o] = nx[o] /\ pv2[o] = pv[o]
  PROVE  IsList(T, h, nx2, pv2, lax)
  <1>1. PICK n, s : Order(n, s, T) /\ Links(n, s, h, nx, pv, lax)
    BY DEF IsList
  <1>2. \A i \in 1..n : s[i] \in T
    BY <1>1 DEF Order
  <1>3. Links(n, s, h, nx2, pv2, lax)
    BY <1>1, <1>2 DEF Links
  <1>4. QED
    BY <1>1, <1>3 DEF IsList

\* o is linked before the head h of the objects of T, and h back to it.
Prefixed(T, o, h, nx, pv, nx2, pv2, lax) ==
  /\ nx2[o] = h /\ pv2[o] = Null
  /\ \A x \in T : nx2[x] = nx[x]
  /\ \A x \in T : pv2[x] = pv[x] \/ (x = h /\ pv2[x] = o)
  /\ h # Null => pv2[h] = o \/ lax

\* A new head before the old one.
LEMMA ListWithHead ==
  ASSUME NEW T, NEW h, NEW nx, NEW pv, NEW lax, IsList(T, h, nx, pv, lax),
         NEW o, o \notin T, o # Null, Null \notin T,
         NEW nx2, NEW pv2, Prefixed(T, o, h, nx, pv, nx2, pv2, lax)
  PROVE  IsList(T \cup {o}, o, nx2, pv2, lax)
  <1>1. PICK n, s : Order(n, s, T) /\ Links(n, s, h, nx, pv, lax)
    BY DEF IsList
  <1>1a. n \in Nat
    BY <1>1 DEF Order
  <1>1b. /\ nx2[o] = h /\ pv2[o] = Null
         /\ \A x \in T : nx2[x] = nx[x]
         /\ \A x \in T : pv2[x] = pv[x] \/ (x = h /\ pv2[x] = o)
         /\ h # Null => pv2[h] = o \/ lax
    BY DEF Prefixed
  <1> DEFINE t == [i \in 1..(n + 1) |-> IF i = 1 THEN o ELSE s[i - 1]]
             U == T \cup {o}
  <1>2. t \in [1..(n + 1) -> U] /\ n + 1 \in Nat
    BY <1>1 DEF Order
  <1>3. t[1] = o /\ \A i \in 1..n : t[i + 1] = s[i] /\ s[i] \in T
    BY <1>1 DEF Order
  <1>4. \A i \in 2..(n + 1) : i - 1 \in 1..n /\ t[i] = s[i - 1] /\ s[i - 1] \in T
    BY <1>1 DEF Order
  <1> HIDE DEF t
  <1>5. Order(n + 1, t, U)
    <2>1. ASSUME NEW x \in U PROVE \E i \in 1..(n + 1) : t[i] = x
      <3>1. CASE x = o
        BY <1>1a, <1>3, <3>1
      <3>2. CASE x \in T
        BY <1>1a, <1>1, <1>3, <3>2 DEF Order
      <3>3. QED
        BY <3>1, <3>2
    <2>2. ASSUME NEW i \in 1..(n + 1), NEW j \in 1..(n + 1), t[i] = t[j]
          PROVE  i = j
      <3>1. CASE i = 1 \/ j = 1
        BY <1>3, <1>4, <2>2, <3>1
      <3>2. CASE i # 1 /\ j # 1
        <4>1. i \in 2..(n + 1) /\ j \in 2..(n + 1)
          BY <3>2
        <4>2. s[i - 1] = s[j - 1] /\ i - 1 \in 1..n /\ j - 1 \in 1..n
          BY <1>4, <2>2, <4>1
        <4>3. i - 1 = j - 1
          BY <1>1, <4>2 DEF Order
        <4>4. QED
          BY <4>3
      <3>3. QED
        BY <3>1, <3>2
    <2>3. QED
      BY <1>2, <2>1, <2>2 DEF Order
  <1>6. Links(n + 1, t, o, nx2, pv2, lax)
    <2>1. h = IF n = 0 THEN Null ELSE s[1]
      BY <1>1 DEF Links
    <2>2. ASSUME NEW i \in 1..(n + 1)
          PROVE  nx2[t[i]] = IF i = n + 1 THEN Null ELSE t[i + 1]
      <3>1. CASE i = 1
        BY <1>1a, <1>1b, <1>3, <2>1, <3>1
      <3>2. CASE i # 1
        <4>1. i - 1 \in 1..n /\ t[i] = s[i - 1] /\ s[i - 1] \in T
          BY <1>4, <3>2
        <4>2. nx[s[i - 1]] = IF i - 1 = n THEN Null ELSE s[i]
          BY <1>1, <4>1 DEF Links
        <4>3. i # n + 1 => t[i + 1] = s[i]
          BY <1>1a, <1>3, <4>1
        <4>4. QED
          BY <1>1a, <1>1b, <4>1, <4>2, <4>3
      <3>3. QED
        BY <3>1, <3>2
    <2>3. ASSUME NEW i \in 1..(n + 1)
          PROVE  \/ pv2[t[i]] = IF i = 1 THEN Null ELSE t[i - 1]
                 \/ lax /\ pv2[t[i]] = Null
      <3>1. CASE i = 1
        BY <1>1b, <1>3, <3>1
      <3>2. CASE i = 2
        <4>1. n # 0 /\ 1 \in 1..n /\ t[i] = s[1] /\ h = s[1] /\ t[i - 1] = o /\ h \in T
          BY <1>3, <1>4, <2>1, <3>2
        <4>2. pv[h] = Null
          BY <1>1, <4>1 DEF Links
        <4>3. pv2[h] = o \/ (lax /\ pv2[h] = pv[h])
          BY <1>1b, <4>1
        <4>4. QED
          BY <3>2, <4>1, <4>2, <4>3
      <3>3. CASE i > 2
        <4>1. i - 1 \in 2..n /\ t[i] = s[i - 1] /\ s[i - 1] \in T
          BY <1>4, <3>3
        <4>2. i - 1 \in 2..(n + 1) /\ t[i - 1] = s[i - 2]
          BY <1>1a, <1>4, <4>1
        <4>3. s[i - 1] # h
          BY <1>1, <2>1, <4>1 DEF Order
        <4>4. pv2[t[i]] = pv[s[i - 1]]
          BY <1>1b, <4>1, <4>3
        <4>5. pv[s[i - 1]] = s[i - 2] \/ (lax /\ pv[s[i - 1]] = Null)
          BY <1>1, <4>1 DEF Links
        <4>6. QED
          BY <3>3, <4>2, <4>4, <4>5
      <3>4. QED
        BY <3>1, <3>2, <3>3
    <2>4. QED
      BY <1>1a, <1>3, <2>2, <2>3 DEF Links
  <1>7. QED
    BY <1>2, <1>5, <1>6 DEF IsList

\* What pointed to o points past it, among the objects of U, which o is not in.
\* Behind a head, the object after the next may be linked back to the next once more.
Bypassed(U, o, h, nx, pv, h2, nx2, pv2) ==
  /\ h2 = IF pv[o] = Null THEN nx[o] ELSE h
  /\ \A x \in U : nx2[x] = IF x = pv[o] THEN nx[o] ELSE nx[x]
  /\ \A x \in U :
        \/ pv2[x] = IF x = nx[o] THEN pv[o] ELSE pv[x]
        \/ o = h /\ nx[o] # Null /\ x = nx[nx[o]] /\ pv2[x] = nx[o]

\* A list without one of its objects.
LEMMA ListWithout ==
  ASSUME NEW T, NEW h, NEW nx, NEW pv, NEW lax, IsList(T, h, nx, pv, lax),
         Null \notin T, NEW o \in T, lax => o = h,
         NEW h2, NEW nx2, NEW pv2, Bypassed(T \ {o}, o, h, nx, pv, h2, nx2, pv2)
  PROVE  IsList(T \ {o}, h2, nx2, pv2, lax)
  <1>1. PICK n, s : Order(n, s, T) /\ Links(n, s, h, nx, pv, lax)
    BY DEF IsList
  <1>2. n \in Nat /\ \A i \in 1..n : s[i] \in T
    BY <1>1 DEF Order
  <1>3. PICK c \in 1..n : s[c] = o
    BY <1>1 DEF Order
  <1> DEFINE t == [i \in 1..(n - 1) |-> IF i < c THEN s[i] ELSE s[i + 1]]
             U == T \ {o}
  <1>4. n - 1 \in Nat
    BY <1>2, <1>3
  <1>5. \A i \in 1..n : i # c <=> s[i] # o
    BY <1>1, <1>3 DEF Order
  <1>6. \A i \in 1..(n - 1) : t[i] = IF i < c THEN s[i] ELSE s[i + 1]
    OBVIOUS
  <1>7. t \in [1..(n - 1) -> U]
    <2>1. ASSUME NEW i \in 1..(n - 1) PROVE (IF i < c THEN s[i] ELSE s[i + 1]) \in U
      <3>1. CASE i < c
        BY <1>2, <1>3, <1>5, <3>1
      <3>2. CASE ~(i < c)
        <4>1. i + 1 \in 1..n /\ i + 1 # c
          BY <1>2, <1>3, <3>2
        <4>2. QED
          BY <1>2, <1>5, <3>2, <4>1
      <3>3. QED
        BY <3>1, <3>2
    <2>2. QED
      BY <2>1
  <1> HIDE DEF t
  <1>8. Order(n - 1, t, U)
    <2>1. ASSUME NEW x \in U PROVE \E i \in 1..(n - 1) : t[i] = x
      <3>1. PICK i \in 1..n : s[i] = x
        BY <1>1 DEF Order
      <3>2. i # c
        BY <1>3, <3>1
      <3>3. CASE i < c
        <4>1. i \in 1..(n - 1) /\ t[i] = x
          BY <1>2, <1>3, <1>6, <3>1, <3>3
        <4>2. QED
          BY <4>1
      <3>4. CASE i > c
        <4>1. i - 1 \in 1..(n - 1) /\ t[i - 1] = s[(i - 1) + 1] /\ (i - 1) + 1 = i
          BY <1>2, <1>3, <1>6, <3>4
        <4>2. QED
          BY <3>1, <4>1
      <3>5. QED
        BY <1>2, <3>2, <3>3, <3>4
    <2>2. ASSUME NEW i \in 1..(n - 1), NEW j \in 1..(n - 1), t[i] = t[j]
          PROVE  i = j
      <3>1. \A a, b \in 1..n : s[a] = s[b] => a = b
        BY <1>1 DEF Order
      <3>2. i \in 1..n /\ j \in 1..n /\ i + 1 \in 1..n /\ j + 1 \in 1..n
        BY <1>2
      <3>3. QED
        BY <1>2, <1>6, <2>2, <3>1, <3>2
    <2>3. QED
      BY <1>4, <1>7, <2>1, <2>2 DEF Order
  \* The links along the old order.
  <1>9. /\ h = s[1]
        /\ \A i \in 1..n : nx[s[i]] = IF i = n THEN Null ELSE s[i + 1]
        /\ \A i \in 1..n : \/ pv[s[i]] = IF i = 1 THEN Null ELSE s[i - 1]
                           \/ lax /\ pv[s[i]] = Null
    BY <1>1, <1>2, <1>3 DEF Links
  <1>10. lax => c = 1
    BY <1>1, <1>2, <1>3, <1>9 DEF Order
  <1>11. /\ nx[o] = IF c = n THEN Null ELSE s[c + 1]
         /\ pv[o] = IF c = 1 THEN Null ELSE s[c - 1]
    BY <1>3, <1>9, <1>10
  <1>12. \A i \in 1..n : s[i] # Null
    BY <1>2
  <1>13. h2 = IF n - 1 = 0 THEN Null ELSE t[1]
    <2>0. h2 = IF pv[o] = Null THEN nx[o] ELSE h
      BY DEF Bypassed
    <2>1. CASE c = 1
      BY <1>2, <1>6, <1>11, <2>0, <2>1
    <2>2. CASE c # 1
      <3>1. c - 1 \in 1..n /\ pv[o] # Null /\ n - 1 # 0 /\ 1 \in 1..(n - 1) /\ 1 < c
        BY <1>2, <1>3, <1>11, <1>12, <2>2
      <3>2. QED
        BY <1>6, <1>9, <2>0, <3>1
    <2>3. QED
      BY <2>1, <2>2
  <1>14. ASSUME NEW i \in 1..(n - 1)
         PROVE  nx2[t[i]] = IF i = n - 1 THEN Null ELSE t[i + 1]
    <2>1. t[i] \in U
      BY <1>7
    <2>2. nx2[t[i]] = IF t[i] = pv[o] THEN nx[o] ELSE nx[t[i]]
      BY <2>1 DEF Bypassed
    <2>3. CASE i < c - 1
      <3>1. i \in 1..n /\ i + 1 \in 1..(n - 1) /\ i # n /\ i < c /\ i + 1 < c /\ i # n - 1
            /\ c - 1 \in 1..n /\ c # 1
        BY <1>2, <1>3, <2>3
      <3>2. t[i] = s[i] /\ t[i + 1] = s[i + 1] /\ s[i] # s[c - 1]
        BY <1>1, <1>6, <2>3, <3>1 DEF Order
      <3>3. QED
        BY <1>9, <1>11, <2>2, <3>1, <3>2
    <2>4. CASE i = c - 1
      <3>1. i \in 1..n /\ c # 1 /\ t[i] = s[c - 1] /\ pv[o] = s[c - 1]
        BY <1>2, <1>3, <1>6, <1>11, <2>4
      <3>2. c # n => i + 1 \in 1..(n - 1) /\ t[i + 1] = s[c + 1]
        BY <1>2, <1>3, <1>6, <2>4
      <3>3. QED
        BY <1>11, <2>2, <2>4, <3>1, <3>2
    <2>5. CASE i >= c
      <3>1. i + 1 \in 1..n /\ i + 1 # c - 1 /\ t[i] = s[i + 1] /\ ~(i < c)
        BY <1>2, <1>3, <1>6, <2>5
      <3>2. c # 1 => c - 1 \in 1..n
        BY <1>2, <1>3
      <3>3. t[i] # pv[o]
        BY <1>1, <1>11, <1>12, <3>1, <3>2 DEF Order
      <3>4. nx[s[i + 1]] = IF i + 1 = n THEN Null ELSE s[(i + 1) + 1]
        BY <1>9, <3>1
      <3>5. i # n - 1 => i + 1 \in 1..(n - 1) /\ t[i + 1] = s[(i + 1) + 1]
        BY <1>2, <1>3, <1>6, <2>5
      <3>6. QED
        BY <1>2, <2>2, <3>1, <3>3, <3>4, <3>5
    <2>6. QED
      BY <1>3, <2>3, <2>4, <2>5
  <1>15. ASSUME NEW i \in 1..(n - 1)
         PROVE  \/ pv2[t[i]] = IF i = 1 THEN Null ELSE t[i - 1]
                \/ lax /\ pv2[t[i]] = Null
    <2>1. t[i] \in U
      BY <1>7
    <2>2. \/ pv2[t[i]] = (IF t[i] = nx[o] THEN pv[o] ELSE pv[t[i]])
          \/ o = h /\ nx[o] # Null /\ t[i] = nx[nx[o]] /\ pv2[t[i]] = nx[o]
      BY <2>1 DEF Bypassed
    <2>3. CASE i < c
      <3>1. i \in 1..n /\ t[i] = s[i] /\ c # 1 /\ s[c] # s[1]
        BY <1>1, <1>2, <1>3, <1>6, <2>3 DEF Order
      <3>2. t[i] # nx[o]
        <4>1. c # n => c + 1 \in 1..n /\ i # c + 1
          BY <1>2, <1>3, <2>3
        <4>2. QED
          BY <1>1, <1>11, <1>12, <3>1, <4>1 DEF Order
      <3>3. pv2[t[i]] = pv[s[i]]
        BY <1>3, <1>9, <2>2, <3>1, <3>2
      <3>4. i # 1 => i - 1 \in 1..(n - 1) /\ t[i - 1] = s[i - 1]
        BY <1>2, <1>3, <1>6, <2>3
      <3>5. QED
        BY <1>9, <3>1, <3>3, <3>4
    <2>4. CASE i = c
      <3>1. c # n /\ t[i] = s[c + 1] /\ nx[o] = s[c + 1] /\ c + 1 \in 1..n
        BY <1>2, <1>3, <1>6, <1>11, <2>4
      <3>2. ~(o = h /\ nx[o] # Null /\ t[i] = nx[nx[o]])
        <4>1. nx[nx[o]] = Null \/ (c + 2 \in 1..n /\ nx[nx[o]] = s[c + 2])
          BY <1>2, <1>9, <3>1
        <4>2. QED
          BY <1>1, <1>2, <1>12, <3>1, <4>1 DEF Order
      <3>3. pv2[t[i]] = pv[o]
        BY <2>2, <3>1, <3>2
      <3>4. c # 1 => i - 1 \in 1..(n - 1) /\ t[i - 1] = s[c - 1]
        BY <1>2, <1>3, <1>6, <2>4
      <3>5. QED
        BY <1>11, <2>4, <3>3, <3>4
    <2>5. CASE i > c
      <3>1. /\ i + 1 \in 1..n /\ i + 1 # 1 /\ t[i] = s[i + 1]
            /\ i - 1 \in 1..(n - 1) /\ t[i - 1] = s[i] /\ i \in 1..n /\ i # 1
        BY <1>2, <1>3, <1>6, <2>5
      <3>2. t[i] # nx[o]
        <4>1. c # n => c + 1 \in 1..n /\ i + 1 # c + 1
          BY <1>2, <1>3, <2>5
        <4>2. QED
          BY <1>1, <1>11, <1>12, <3>1, <4>1 DEF Order
      <3>3. CASE pv2[t[i]] = pv[t[i]]
        BY <1>9, <3>1, <3>3
      <3>4. CASE o = h /\ nx[o] # Null /\ t[i] = nx[nx[o]] /\ pv2[t[i]] = nx[o]
        <4>1. c = 1 /\ 1 \in 1..n
          BY <1>1, <1>2, <1>3, <1>9, <3>4 DEF Order
        <4>2. n # 1 /\ 2 \in 1..n /\ nx[o] = s[2]
          BY <1>2, <1>11, <3>4, <4>1
        <4>3. nx[nx[o]] = IF n = 2 THEN Null ELSE s[3]
          BY <1>9, <4>2
        <4>4. n # 2
          BY <1>12, <3>1, <3>4, <4>3
        <4>5. 3 \in 1..n /\ s[i + 1] = s[3]
          BY <1>2, <3>1, <3>4, <4>2, <4>3, <4>4
        <4>6. i + 1 = 3
          BY <1>1, <3>1, <4>5 DEF Order
        <4>7. i = 2
          BY <3>1, <4>6
        <4>8. QED
          BY <3>1, <3>4, <4>2, <4>7
      <3>5. QED
        BY <2>2, <3>2, <3>3, <3>4
    <2>6. QED
      BY <1>3, <2>3, <2>4, <2>5
  <1>16. Links(n - 1, t, h2, nx2, pv2, lax)
    BY <1>13, <1>14, <1>15 DEF Links
  <1>17. QED
    BY <1>8, <1>16 DEF IsList

-----------------------------------------------------------------------------
(***************************************************************************)
(* The operations on a memory, field by field.                             *)
(***************************************************************************)
LEMMA Fields ==
  ASSUME NEW m \in Memory
  PROVE  /\ m = [color |-> m.color, next |-> m.next, prev |-> m.prev, head |-> m.head]
         /\ m.color \in [Objects -> Lists \cup {"free"}]
         /\ m.next \in [Objects -> Pointers] /\ m.prev \in [Objects -> Pointers]
         /\ m.head \in [Lists -> Pointers]
  BY DEF Memory

\* What a push writes.
Pushed(m, l, o, r) ==
  /\ r \in Memory
  /\ r.color = [m.color EXCEPT ![o] = l]
  /\ r.next = [m.next EXCEPT ![o] = m.head[l]]
  /\ r.prev = IF m.head[l] = Null THEN [m.prev EXCEPT ![o] = Null]
              ELSE [m.prev EXCEPT ![o] = Null, ![m.head[l]] = o]
  /\ r.head = [m.head EXCEPT ![l] = o]

\* Putting an object on a list changes what Pushed says.
LEMMA PushEffect ==
  ASSUME NEW m \in Memory, NEW l \in Lists, NEW o \in Objects
  PROVE  Pushed(m, l, o, Push(m, l, o))
  <1> DEFINE m1 == [m EXCEPT !.color[o] = l, !.next[o] = m.head[l], !.prev[o] = Null]
             C == [m.color EXCEPT ![o] = l]
             N == [m.next EXCEPT ![o] = m.head[l]]
             P == IF m.head[l] = Null THEN [m.prev EXCEPT ![o] = Null]
                  ELSE [m.prev EXCEPT ![o] = Null, ![m.head[l]] = o]
             H == [m.head EXCEPT ![l] = o]
  <1>1. m1 = [color |-> C, next |-> N, prev |-> [m.prev EXCEPT ![o] = Null], head |-> m.head]
    <2> DEFINE a == [m EXCEPT !.color[o] = l]
               b == [a EXCEPT !.next[o] = m.head[l]]
    <2>1. a = [color |-> C, next |-> m.next, prev |-> m.prev, head |-> m.head]
      BY Fields
    <2>2. m1 = [b EXCEPT !.prev[o] = Null]
      OBVIOUS
    <2> HIDE DEF a, C, m1
    <2>3. b = [color |-> C, next |-> N, prev |-> m.prev, head |-> m.head]
      BY <2>1
    <2> HIDE DEF b, N
    <2>4. QED
      BY <2>2, <2>3
  <1>2. Push(m, l, o) = [color |-> C, next |-> N, prev |-> P, head |-> H]
    <2> HIDE DEF m1, C, N
    <2>1. Push(m, l, o) = [SetPrev(m1, m.head[l], o) EXCEPT !.head[l] = o]
      BY DEF Push, m1
    <2>2. SetPrev(m1, m.head[l], o) = [color |-> C, next |-> N, prev |-> P, head |-> m.head]
      BY <1>1 DEF SetPrev
    <2> HIDE DEF P
    <2>3. QED
      BY <2>1, <2>2
  <1>3. m.head[l] \in Pointers /\ o \in Pointers /\ Null \in Pointers
    BY Fields DEF Pointers
  <1>4. C \in [Objects -> Lists \cup {"free"}] /\ N \in [Objects -> Pointers]
        /\ P \in [Objects -> Pointers] /\ H \in [Lists -> Pointers]
    BY <1>3, Fields
  <1> HIDE DEF C, N, P, H, Pushed
  <1>5. Push(m, l, o) \in Memory
    BY <1>2, <1>4 DEF Memory
  <1>6. QED
    BY <1>2, <1>5 DEF C, N, P, H, Pushed

\* What unlinking writes.
Unlinked(m, l, o, r) ==
  LET n == m.next[o]
      p == m.prev[o]
  IN  /\ r \in Memory
      /\ r.color = m.color
      /\ r.head = IF p = Null THEN [m.head EXCEPT ![l] = n] ELSE m.head
      /\ r.next[o] = Null /\ r.prev[o] = Null
      /\ \A x \in Objects \ {o} : r.next[x] = IF x = p THEN n ELSE m.next[x]
      /\ \A x \in Objects \ {o} :
            r.prev[x] = IF p = Null /\ n # Null /\ m.next[n] # Null /\ x = m.next[n] THEN n
                        ELSE IF x = n THEN p ELSE m.prev[x]

\* Taking an object off a list changes what Unlinked says.
LEMMA UnlinkEffect ==
  ASSUME NEW m \in Memory, NEW l \in Lists, NEW o \in Objects
  PROVE  Unlinked(m, l, o, gc_remove_from_specific_list(m, l, o))
  <1> DEFINE n == m.next[o]
             p == m.prev[o]
             r == gc_remove_from_specific_list(m, l, o)
             H == IF p = Null THEN [m.head EXCEPT ![l] = n] ELSE m.head
             N == IF p = Null THEN m.next ELSE [m.next EXCEPT ![p] = n]
             P1 == IF n = Null THEN m.prev ELSE [m.prev EXCEPT ![n] = p]
             P == IF p = Null /\ n # Null /\ m.next[n] # Null THEN [P1 EXCEPT ![m.next[n]] = n] ELSE P1
             m1 == [color |-> m.color, next |-> N, prev |-> P, head |-> H]
  <1>1. n \in Pointers /\ p \in Pointers /\ Null \notin Objects /\ Null \in Pointers
        /\ (n # Null => m.next[n] \in Pointers)
    BY NullAssumption, Fields DEF Pointers
  <1>2. r = [m1 EXCEPT !.next[o] = Null, !.prev[o] = Null]
    <2>1. CASE p # Null
      <3> DEFINE a == [m EXCEPT !.next[p] = n]
      <3>1. a = [color |-> m.color, next |-> N, prev |-> m.prev, head |-> H]
        BY <2>1, Fields
      <3> HIDE DEF a
      <3>2. SetPrev(a, n, p) = m1
        BY <2>1, <3>1 DEF SetPrev
      <3>3. QED
        BY <2>1, <3>2 DEF gc_remove_from_specific_list, a
    <2>2. CASE p = Null
      <3> DEFINE a == [m EXCEPT !.head[l] = n]
                 b == SetPrev(a, n, Null)
      <3>1. a = [color |-> m.color, next |-> N, prev |-> m.prev, head |-> H]
        BY <2>2, Fields
      <3> HIDE DEF a
      <3>2. b = [color |-> m.color, next |-> N, prev |-> P1, head |-> H]
        BY <2>2, <3>1 DEF SetPrev
      <3>3. a.next[n] = m.next[n]
        BY <2>2, <3>1
      <3> HIDE DEF b
      <3>4. CASE n = Null
        <4>1. a = m1
          BY <2>2, <3>1, <3>4
        <4>2. QED
          BY <2>2, <3>4, <4>1 DEF gc_remove_from_specific_list, a
      <3>5. CASE n # Null
        <4>1. SetPrev(b, a.next[n], n) = m1
          BY <2>2, <3>2, <3>3, <3>5 DEF SetPrev
        <4>2. QED
          BY <2>2, <3>5, <4>1 DEF gc_remove_from_specific_list, a, b
      <3>6. QED
        BY <3>4, <3>5
    <2>3. QED
      BY <2>1, <2>2
  <1>3. /\ N \in [Objects -> Pointers]
        /\ \A x \in Objects \ {o} : N[x] = IF x = p THEN n ELSE m.next[x]
    BY <1>1, Fields DEF Pointers
  <1>4. /\ P1 \in [Objects -> Pointers]
        /\ \A x \in Objects : P1[x] = IF x = n THEN p ELSE m.prev[x]
    BY <1>1, Fields DEF Pointers
  <1>5. H \in [Lists -> Pointers]
    BY <1>1, Fields
  <1> HIDE DEF N, P1
  <1>6. /\ P \in [Objects -> Pointers]
        /\ \A x \in Objects : P[x] = IF p = Null /\ n # Null /\ m.next[n] # Null /\ x = m.next[n]
                                   THEN n ELSE P1[x]
    BY <1>1, <1>4 DEF Pointers
  <1> HIDE DEF P
  <1>7. r = [color |-> m.color, next |-> [N EXCEPT ![o] = Null], prev |-> [P EXCEPT ![o] = Null],
             head |-> H]
    BY <1>2
  <1> HIDE DEF r, H
  <1>8. r \in Memory
    <2>1. [N EXCEPT ![o] = Null] \in [Objects -> Pointers] /\ [P EXCEPT ![o] = Null] \in [Objects -> Pointers]
      BY <1>1, <1>3, <1>6
    <2>2. QED
      BY <1>5, <1>7, <2>1, Fields DEF Memory
  <1>9. r.next[o] = Null /\ r.prev[o] = Null
    BY <1>3, <1>6, <1>7
  <1>10. \A x \in Objects \ {o} : r.next[x] = N[x] /\ r.prev[x] = P[x]
    BY <1>3, <1>6, <1>7
  <1>11. r.color = m.color /\ r.head = H
    BY <1>7
  <1>12. QED
    BY <1>3, <1>4, <1>6, <1>8, <1>9, <1>10, <1>11 DEF Unlinked, r, H

-----------------------------------------------------------------------------
(***************************************************************************)
(* Whole memories.                                                         *)
(***************************************************************************)
\* In m, the list l has exactly the objects of T.
On(m, l, T) == IsList(T, m.head[l], m.next, m.prev, l = "grey")

\* What the links of an object on a list lead to is on the same list.
LEMMA NeighboursOnList ==
  ASSUME NEW T, NEW h, NEW nx, NEW pv, NEW lax, IsList(T, h, nx, pv, lax), NEW o \in T
  PROVE  nx[o] \in T \cup {Null} /\ pv[o] \in T \cup {Null}
  <1>1. PICK n, s : Order(n, s, T) /\ Links(n, s, h, nx, pv, lax)
    BY DEF IsList
  <1>2. n \in Nat /\ \A i \in 1..n : s[i] \in T
    BY <1>1 DEF Order
  <1>3. PICK i \in 1..n : s[i] = o
    BY <1>1 DEF Order
  <1>4. i # n => i + 1 \in 1..n
    BY <1>2
  <1>5. i # 1 => i - 1 \in 1..n
    BY <1>2
  <1>6. QED
    BY <1>1, <1>2, <1>3, <1>4, <1>5 DEF Links

\* Push adds to one list and leaves the others alone.
LEMMA PushLists ==
  ASSUME NEW m \in Memory, NEW l \in Lists, NEW T \in SUBSET Objects, On(m, l, T),
         NEW o \in Objects \ T, NEW r, r = Push(m, l, o)
  PROVE  /\ On(r, l, T \cup {o})
         /\ \A k \in Lists \ {l} : \A U \in SUBSET (Objects \ (T \cup {o})) :
               On(m, k, U) => On(r, k, U)
  <1> DEFINE h == m.head[l]
  <1>1. /\ r.next = [m.next EXCEPT ![o] = h]
        /\ r.prev = IF h = Null THEN [m.prev EXCEPT ![o] = Null]
                    ELSE [m.prev EXCEPT ![o] = Null, ![h] = o]
        /\ r.head = [m.head EXCEPT ![l] = o]
    <2>1. Pushed(m, l, o, r)
      BY PushEffect
    <2>2. QED
      BY <2>1 DEF Pushed
  <1>2. Null \notin T /\ o # Null /\ Null \notin Objects
    BY NullAssumption
  <1>3. h \in T \cup {Null}
    BY <1>2, HeadOfList DEF On
  <1>4. /\ r.next[o] = h /\ \A x \in Objects \ {o} : r.next[x] = m.next[x]
        /\ r.prev[o] = Null /\ \A x \in Objects \ {o} : r.prev[x] = IF x = h THEN o ELSE m.prev[x]
        /\ r.head[l] = o /\ \A k \in Lists \ {l} : r.head[k] = m.head[k]
    BY <1>1, <1>2, <1>3, Fields
  <1>5. On(r, l, T \cup {o})
    <2>1. Prefixed(T, o, h, m.next, m.prev, r.next, r.prev, l = "grey")
      BY <1>2, <1>3, <1>4 DEF Prefixed
    <2>2. IsList(T \cup {o}, o, r.next, r.prev, l = "grey")
      BY <1>2, <2>1, ListWithHead DEF On
    <2>3. QED
      BY <1>4, <2>2 DEF On
  <1>6. ASSUME NEW k \in Lists \ {l}, NEW U \in SUBSET (Objects \ (T \cup {o})), On(m, k, U)
        PROVE  On(r, k, U)
    <2>1. \A x \in U : r.next[x] = m.next[x] /\ r.prev[x] = m.prev[x]
      BY <1>2, <1>3, <1>4
    <2>2. IsList(U, m.head[k], r.next, r.prev, k = "grey")
      BY <1>6, <2>1, ListUntouched DEF On
    <2>3. QED
      BY <1>4, <2>2 DEF On
  <1>7. QED
    BY <1>5, <1>6

\* Unlinking takes from one list, from its head if it is the grey one, and
\* leaves the others alone.
LEMMA UnlinkLists ==
  ASSUME NEW m \in Memory, NEW l \in Lists, NEW T \in SUBSET Objects, On(m, l, T),
         NEW o \in T, l = "grey" => o = m.head[l],
         NEW r, r = gc_remove_from_specific_list(m, l, o)
  PROVE  /\ On(r, l, T \ {o})
         /\ \A k \in Lists \ {l} : \A U \in SUBSET (Objects \ T) :
               On(m, k, U) => On(r, k, U)
         /\ \A x \in Objects \ T : r.next[x] = m.next[x] /\ r.prev[x] = m.prev[x]
  <1> DEFINE n == m.next[o]
             p == m.prev[o]
  <1>1. /\ r.head = IF p = Null THEN [m.head EXCEPT ![l] = n] ELSE m.head
        /\ \A x \in Objects \ {o} : r.next[x] = IF x = p THEN n ELSE m.next[x]
        /\ \A x \in Objects \ {o} :
              r.prev[x] = IF p = Null /\ n # Null /\ m.next[n] # Null /\ x = m.next[n] THEN n
                          ELSE IF x = n THEN p ELSE m.prev[x]
    <2>1. Unlinked(m, l, o, r)
      BY UnlinkEffect
    <2>2. QED
      BY <2>1 DEF Unlinked
  <1>2. Null \notin T /\ Null \notin Objects
    BY NullAssumption
  <1>3. n \in T \cup {Null} /\ p \in T \cup {Null} /\ (n # Null => m.next[n] \in T \cup {Null})
    BY NeighboursOnList DEF On
  <1>4. p = Null => o = m.head[l]
    <2>1. PICK c, s : Order(c, s, T) /\ Links(c, s, m.head[l], m.next, m.prev, l = "grey")
      BY DEF On, IsList
    <2>2. PICK i \in 1..c : s[i] = o
      BY <2>1 DEF Order
    <2>3. c \in Nat /\ \A j \in 1..c : s[j] # Null
      BY <1>2, <2>1 DEF Order
    <2>4. m.prev[o] = Null /\ l # "grey" => i = 1
      BY <2>1, <2>2, <2>3 DEF Links
    <2>5. m.head[l] = s[1]
      BY <2>1, <2>2, <2>3 DEF Links
    <2>6. QED
      BY <2>2, <2>4, <2>5
  <1>5. r.head[l] = (IF p = Null THEN n ELSE m.head[l]) /\ \A k \in Lists \ {l} : r.head[k] = m.head[k]
    BY <1>1, Fields
  <1>6. On(r, l, T \ {o})
    <2>1. \A x \in T \ {o} : r.next[x] = IF x = m.prev[o] THEN m.next[o] ELSE m.next[x]
      BY <1>1
    <2>2. \A x \in T \ {o} :
             \/ r.prev[x] = IF x = m.next[o] THEN m.prev[o] ELSE m.prev[x]
             \/ /\ o = m.head[l] /\ m.next[o] # Null /\ x = m.next[m.next[o]]
                /\ r.prev[x] = m.next[o]
      BY <1>1, <1>4
    <2>3. IsList(T, m.head[l], m.next, m.prev, l = "grey")
      BY DEF On
    <2>4. r.head[l] = IF m.prev[o] = Null THEN m.next[o] ELSE m.head[l]
      BY <1>5
    <2>5. Bypassed(T \ {o}, o, m.head[l], m.next, m.prev, r.head[l], r.next, r.prev)
      BY <2>1, <2>2, <2>4 DEF Bypassed
    <2>6. IsList(T \ {o}, r.head[l], r.next, r.prev, l = "grey")
      BY <1>2, <2>3, <2>5, ListWithout
    <2>7. QED
      BY <2>6 DEF On
  <1>7. \A x \in Objects \ T : r.next[x] = m.next[x] /\ r.prev[x] = m.prev[x]
    BY <1>1, <1>2, <1>3
  <1>8. ASSUME NEW k \in Lists \ {l}, NEW U \in SUBSET (Objects \ T), On(m, k, U)
        PROVE  On(r, k, U)
    <2>1. IsList(U, m.head[k], r.next, r.prev, k = "grey")
      BY <1>7, <1>8, ListUntouched DEF On
    <2>2. QED
      BY <1>5, <2>1 DEF On
  <1>9. QED
    BY <1>6, <1>7, <1>8

-----------------------------------------------------------------------------
\* A memory whose lists are what the colours say, and whose released objects
\* have no links.
Coloured(m, l) == {o \in Objects : m.color[o] = l}

Good(m) ==
  /\ m \in Memory
  /\ \A o \in Objects : m.color[o] = "free" => m.next[o] = Null /\ m.prev[o] = Null
  /\ \A l \in Lists : On(m, l, Coloured(m, l))

\* Moving an object from one list to another: gc_add_to_grey, gc_add_to_black
\* and the sweep.
LEMMA Move ==
  ASSUME NEW m, Good(m), NEW o \in Objects, m.color[o] \in Lists,
         m.color[o] = "grey" => o = m.head["grey"],
         NEW l \in Lists, l # m.color[o],
         NEW u, u = gc_remove_from_list(m, o), NEW r, r = Push(u, l, o)
  PROVE  Good(r) /\ r.color = [m.color EXCEPT ![o] = l]
  <1> DEFINE k == m.color[o]
             T(x) == Coloured(m, x)
  <1>1. m \in Memory /\ k \in Lists /\ o \in T(k)
        /\ \A x \in Lists : T(x) \in SUBSET Objects /\ On(m, x, T(x))
    BY DEF Good, Coloured
  <1>2. u = gc_remove_from_specific_list(m, k, o)
    BY DEF gc_remove_from_list
  <1>3. u \in Memory /\ u.color = m.color /\ u.next[o] = Null /\ u.prev[o] = Null
    <2>1. Unlinked(m, k, o, u)
      BY <1>1, <1>2, UnlinkEffect
    <2>2. QED
      BY <2>1 DEF Unlinked
  <1>4. /\ On(u, k, T(k) \ {o})
        /\ \A x \in Lists \ {k} : \A U \in SUBSET (Objects \ T(k)) : On(m, x, U) => On(u, x, U)
        /\ \A x \in Objects \ T(k) : u.next[x] = m.next[x] /\ u.prev[x] = m.prev[x]
    <2>1. k = "grey" => o = m.head[k]
      OBVIOUS
    <2>2. T(k) \in SUBSET Objects /\ On(m, k, T(k))
      BY <1>1
    <2> DEFINE S == T(k)
    <2>3. o \in S /\ S \in SUBSET Objects /\ On(m, k, S)
      BY <1>1, <2>2
    <2> HIDE DEF S, k, T
    <2>4. QED
      BY <1>1, <1>2, <2>1, <2>3, UnlinkLists DEF S
  <1>5. \A x \in Lists \ {k} : T(x) \in SUBSET (Objects \ T(k)) /\ On(u, x, T(x))
    BY <1>1, <1>4 DEF Coloured
  <1>6. o \in Objects \ T(l) /\ On(u, l, T(l)) /\ T(l) \in SUBSET Objects
    BY <1>1, <1>5 DEF Coloured
  <1>7. /\ r \in Memory /\ r.color = [u.color EXCEPT ![o] = l]
        /\ r.next = [u.next EXCEPT ![o] = u.head[l]]
        /\ r.prev = IF u.head[l] = Null THEN [u.prev EXCEPT ![o] = Null]
                    ELSE [u.prev EXCEPT ![o] = Null, ![u.head[l]] = o]
    <2>1. Pushed(u, l, o, r)
      BY <1>3, PushEffect
    <2>2. QED
      BY <2>1 DEF Pushed
  <1>8. /\ On(r, l, T(l) \cup {o})
        /\ \A x \in Lists \ {l} : \A U \in SUBSET (Objects \ (T(l) \cup {o})) :
              On(u, x, U) => On(r, x, U)
    BY <1>3, <1>6, PushLists
  <1>9. r.color = [m.color EXCEPT ![o] = l]
    BY <1>3, <1>7
  <1>10. ASSUME NEW x \in Lists PROVE On(r, x, Coloured(r, x))
    <2>1. CASE x = l
      <3>1. Coloured(r, x) = T(l) \cup {o}
        BY <1>1, <1>9, <2>1, Fields DEF Coloured
      <3>2. QED
        BY <1>8, <2>1, <3>1
    <2>2. CASE x = k
      <3>1. Coloured(r, x) = T(k) \ {o} /\ T(k) \ {o} \in SUBSET (Objects \ (T(l) \cup {o}))
        BY <1>1, <1>9, <2>2, Fields DEF Coloured
      <3>2. QED
        BY <1>4, <1>8, <2>2, <3>1
    <2>3. CASE x # l /\ x # k
      <3>1. Coloured(r, x) = T(x) /\ T(x) \in SUBSET (Objects \ (T(l) \cup {o}))
        BY <1>1, <1>9, <2>3, Fields DEF Coloured
      <3>2. QED
        BY <1>5, <1>8, <2>3, <3>1
    <2>4. QED
      BY <2>1, <2>2, <2>3
  <1>11. ASSUME NEW x \in Objects, r.color[x] = "free"
         PROVE  r.next[x] = Null /\ r.prev[x] = Null
    <2>1. x # o /\ m.color[x] = "free" /\ x \in Objects \ T(k)
      BY <1>1, <1>9, <1>11, Fields DEF Coloured, Lists
    <2>2. u.next[x] = Null /\ u.prev[x] = Null
      BY <1>4, <2>1 DEF Good
    <2>3. u.head[l] \in T(l) \cup {Null}
      BY <1>6, HeadOfList, NullAssumption DEF On, Coloured
    <2>4. x # u.head[l] /\ x # Null
      BY <2>1, <2>3, NullAssumption DEF Coloured, Lists
    <2>5. u.next \in [Objects -> Pointers] /\ u.prev \in [Objects -> Pointers]
      BY <1>3, Fields
    <2>6. QED
      BY <1>7, <2>1, <2>2, <2>4, <2>5
  <1>12. Good(r)
    BY <1>7, <1>10, <1>11 DEF Good
  <1>13. QED
    BY <1>9, <1>12

-----------------------------------------------------------------------------
\* The empty lists of the initial memory.
LEMMA EmptyList ==
  ASSUME NEW nx, NEW pv, NEW lax
  PROVE  IsList({}, Null, nx, pv, lax)
  <1> DEFINE s == [i \in 1..0 |-> Null]
  <1>1. Order(0, s, {}) /\ Links(0, s, Null, nx, pv, lax)
    BY DEF Order, Links
  <1>2. QED
    BY <1>1 DEF IsList

\* The memory before the program runs has no list.
LEMMA InitGood ==
  ASSUME Init
  PROVE  Good(mem)
  <1>1. mem \in Memory
    BY DEF Init, Memory, Pointers
  <1>2. \A l \in Lists : Coloured(mem, l) = {} /\ mem.head[l] = Null
    BY DEF Init, Coloured, Lists
  <1>3. \A l \in Lists : On(mem, l, Coloured(mem, l))
    BY <1>2, EmptyList DEF On
  <1>4. QED
    BY <1>1, <1>3 DEF Init, Good

\* Allocation: a push on the grey list that leaves `prev` of the old head alone.
LEMMA AllocateList ==
  ASSUME NEW m, Good(m), NEW o \in Objects, m.color[o] = "free"
  PROVE  LET r == [m EXCEPT !.color[o] = "grey", !.next[o] = m.head["grey"],
                            !.prev[o] = Null, !.head["grey"] = o]
         IN  Good(r) /\ r.color = [m.color EXCEPT ![o] = "grey"]
  <1> DEFINE r == [m EXCEPT !.color[o] = "grey", !.next[o] = m.head["grey"],
                            !.prev[o] = Null, !.head["grey"] = o]
             C == [m.color EXCEPT ![o] = "grey"]
             N == [m.next EXCEPT ![o] = m.head["grey"]]
             P == [m.prev EXCEPT ![o] = Null]
             H == [m.head EXCEPT !["grey"] = o]
             h == m.head["grey"]
             T(x) == Coloured(m, x)
  <1>1. /\ m \in Memory /\ Null \notin Objects
        /\ \A x \in Lists : T(x) \in SUBSET Objects /\ On(m, x, T(x)) /\ o \notin T(x)
    BY NullAssumption DEF Good, Coloured, Lists
  <1>2. r = [color |-> C, next |-> N, prev |-> P, head |-> H]
    <2> DEFINE a == [m EXCEPT !.color[o] = "grey"]
               b == [a EXCEPT !.next[o] = m.head["grey"]]
               c == [b EXCEPT !.prev[o] = Null]
    <2>1. a = [color |-> C, next |-> m.next, prev |-> m.prev, head |-> m.head]
      BY <1>1, Fields
    <2>2. r = [c EXCEPT !.head["grey"] = o]
      OBVIOUS
    <2> HIDE DEF a, C
    <2>3. b = [color |-> C, next |-> N, prev |-> m.prev, head |-> m.head]
      BY <2>1
    <2> HIDE DEF b, N
    <2>4. c = [color |-> C, next |-> N, prev |-> P, head |-> m.head]
      BY <2>3
    <2> HIDE DEF c, P
    <2>5. QED
      BY <2>2, <2>4
  <1> HIDE DEF r
  <1>3. "grey" \in Lists /\ h \in T("grey") \cup {Null} /\ h \in Pointers
    <2>1. "grey" \in Lists
      BY DEF Lists
    <2>2. QED
      BY <1>1, <2>1, HeadOfList, Fields DEF On, Pointers
  <1>4. r \in Memory
    <2>1. C \in [Objects -> Lists \cup {"free"}] /\ N \in [Objects -> Pointers]
          /\ P \in [Objects -> Pointers] /\ H \in [Lists -> Pointers]
      BY <1>1, <1>3, Fields DEF Pointers
    <2> HIDE DEF C, N, P, H
    <2>2. QED
      BY <1>2, <2>1 DEF Memory
  <1>5. /\ r.color = C
        /\ r.next[o] = h /\ \A x \in Objects \ {o} : r.next[x] = m.next[x]
        /\ r.prev[o] = Null /\ \A x \in Objects \ {o} : r.prev[x] = m.prev[x]
        /\ r.head["grey"] = o /\ \A x \in Lists \ {"grey"} : r.head[x] = m.head[x]
    BY <1>1, <1>2, <1>3, Fields
  <1> HIDE DEF N, P, H
  <1>6. ASSUME NEW x \in Lists PROVE On(r, x, Coloured(r, x))
    <2>1. CASE x = "grey"
      <3>1. Coloured(r, x) = T("grey") \cup {o}
        BY <1>1, <1>5, <2>1, Fields DEF Coloured
      <3> DEFINE S == T("grey")
      <3>2. S \in SUBSET Objects /\ o \notin S /\ IsList(S, h, m.next, m.prev, "grey" = "grey")
        BY <1>1, <1>3 DEF On
      <3> HIDE DEF S, h
      <3>3. Prefixed(S, o, h, m.next, m.prev, r.next, r.prev, "grey" = "grey")
        BY <1>5, <3>2 DEF Prefixed
      <3>4. IsList(S \cup {o}, o, r.next, r.prev, "grey" = "grey")
        BY <1>1, <3>2, <3>3, ListWithHead
      <3>5. QED
        BY <1>5, <2>1, <3>1, <3>4 DEF On, S
    <2>2. CASE x # "grey"
      <3>1. Coloured(r, x) = T(x)
        <4>1. \A y \in Objects : r.color[y] = x <=> m.color[y] = x
          BY <1>1, <1>5, <2>2, Fields DEF Lists
        <4>2. QED
          BY <4>1 DEF Coloured
      <3>2. IsList(T(x), m.head[x], r.next, r.prev, x = "grey")
        <4> DEFINE S == T(x)
        <4>1. IsList(S, m.head[x], m.next, m.prev, x = "grey")
          BY <1>1 DEF On
        <4>2. \A y \in S : r.next[y] = m.next[y] /\ r.prev[y] = m.prev[y]
          BY <1>1, <1>5
        <4> HIDE DEF S
        <4>3. IsList(S, m.head[x], r.next, r.prev, x = "grey")
          BY <4>1, <4>2, ListUntouched
        <4>4. QED
          BY <4>3 DEF S
      <3>3. QED
        BY <1>5, <2>2, <3>1, <3>2 DEF On
    <2>3. QED
      BY <2>1, <2>2
  <1>7. \A x \in Objects : r.color[x] = "free" => r.next[x] = Null /\ r.prev[x] = Null
    BY <1>1, <1>5, Fields DEF Good
  <1>8. QED
    BY <1>4, <1>5, <1>6, <1>7 DEF Good, r

\* Release: an unlinked object becomes free.
LEMMA ReleaseList ==
  ASSUME NEW m, Good(m), NEW o \in Objects, m.color[o] = "white"
  PROVE  LET r == [gc_remove_from_list(m, o) EXCEPT !.color[o] = "free"]
         IN  Good(r) /\ r.color = [m.color EXCEPT ![o] = "free"]
  <1> DEFINE u == gc_remove_from_list(m, o)
             r == [u EXCEPT !.color[o] = "free"]
             C == [m.color EXCEPT ![o] = "free"]
             T(x) == Coloured(m, x)
  <1>1. /\ m \in Memory /\ "white" \in Lists /\ o \in T("white")
        /\ \A x \in Lists : T(x) \in SUBSET Objects /\ On(m, x, T(x))
    BY DEF Good, Coloured, Lists
  <1>2. u = gc_remove_from_specific_list(m, "white", o)
    BY DEF gc_remove_from_list
  <1> HIDE DEF u
  <1>3. /\ u \in Memory /\ u.color = m.color /\ u.next[o] = Null /\ u.prev[o] = Null
    <2>1. Unlinked(m, "white", o, u)
      BY <1>1, <1>2, UnlinkEffect
    <2>2. QED
      BY <2>1 DEF Unlinked
  <1>4. /\ On(u, "white", T("white") \ {o})
        /\ \A x \in Lists \ {"white"} : \A U \in SUBSET (Objects \ T("white")) : On(m, x, U) => On(u, x, U)
        /\ \A x \in Objects \ T("white") : u.next[x] = m.next[x] /\ u.prev[x] = m.prev[x]
    <2> DEFINE S == T("white")
    <2>1. o \in S /\ S \in SUBSET Objects /\ On(m, "white", S)
      BY <1>1
    <2> HIDE DEF S, T
    <2>2. QED
      BY <1>1, <1>2, <2>1, UnlinkLists DEF S
  <1>5. r.color = C /\ r.next = u.next /\ r.prev = u.prev /\ r.head = u.head /\ r \in Memory
    <2>1. r = [color |-> C, next |-> u.next, prev |-> u.prev, head |-> u.head]
      BY <1>3, Fields
    <2> HIDE DEF r
    <2>2. C \in [Objects -> Lists \cup {"free"}]
      BY <1>1, Fields
    <2>3. /\ u.next \in [Objects -> Pointers] /\ u.prev \in [Objects -> Pointers]
          /\ u.head \in [Lists -> Pointers]
      BY <1>3, Fields
    <2> HIDE DEF C
    <2>4. QED
      <3>1. [color |-> C, next |-> u.next, prev |-> u.prev, head |-> u.head] \in Memory
        BY <2>2, <2>3 DEF Memory
      <3>2. QED
        BY <2>1, <3>1
  <1> HIDE DEF r
  <1>6. ASSUME NEW x \in Lists PROVE On(r, x, Coloured(r, x))
    <2>1. CASE x = "white"
      <3>1. Coloured(r, x) = T("white") \ {o}
        BY <1>1, <1>5, <2>1, Fields DEF Coloured, Lists
      <3>2. QED
        BY <1>4, <1>5, <2>1, <3>1 DEF On
    <2>2. CASE x # "white"
      <3>1. Coloured(r, x) = T(x) /\ T(x) \in SUBSET (Objects \ T("white"))
        BY <1>1, <1>5, <2>2, Fields DEF Coloured, Lists
      <3>2. On(u, x, T(x))
        BY <1>1, <1>4, <2>2, <3>1
      <3>3. QED
        BY <1>5, <3>1, <3>2 DEF On
    <2>3. QED
      BY <2>1, <2>2
  <1>7. ASSUME NEW x \in Objects, r.color[x] = "free"
        PROVE  r.next[x] = Null /\ r.prev[x] = Null
    <2>1. CASE x = o
      BY <1>3, <1>5, <2>1
    <2>2. CASE x # o
      <3>1. m.color[x] = "free" /\ x \in Objects \ T("white")
        BY <1>1, <1>5, <1>7, <2>2, Fields DEF Coloured
      <3>2. QED
        BY <1>4, <1>5, <3>1 DEF Good
    <2>3. QED
      BY <2>1, <2>2
  <1>8. QED
    BY <1>5, <1>6, <1>7 DEF Good, r, u

\* The rest of unlinking a head o, once h has the new head n.
Beheaded(h, n, o) ==
  LET m1 == IF n = Null THEN h ELSE SetPrev(SetPrev(h, n, Null), h.next[n], n)
  IN  [m1 EXCEPT !.next[o] = Null, !.prev[o] = Null]

\* Taking the head off a list is what Beheaded says of the list without it.
LEMMA UnlinkHead ==
  ASSUME NEW x, NEW l, NEW o, x.prev[o] = Null
  PROVE  gc_remove_from_specific_list(x, l, o)
           = Beheaded([x EXCEPT !.head[l] = x.next[o]], x.next[o], o)
  BY DEF gc_remove_from_specific_list, Beheaded

\* gc_do_greys takes the head off by hand; unlinking it again comes to the same.
LEMMA PoppedTwice ==
  ASSUME NEW m, Good(m), NEW o \in Objects, o = m.head["grey"]
  PROVE  LET q == [m EXCEPT !.head["grey"] = m.next[o]]
         IN  /\ q.color = m.color /\ m.color[o] = "grey"
             /\ gc_remove_from_list(q, o) = gc_remove_from_list(m, o)
  <1> DEFINE q == [m EXCEPT !.head["grey"] = m.next[o]]
  <1>0. q = [m EXCEPT !.head["grey"] = m.next[o]]
    OBVIOUS
  <1>1. m \in Memory /\ "grey" \in Lists /\ Null \notin Objects
    BY NullAssumption DEF Good, Lists
  <1>2. o \in Coloured(m, "grey") /\ m.prev[o] = Null
    <2> DEFINE S == Coloured(m, "grey")
    <2>1. IsList(S, m.head["grey"], m.next, m.prev, "grey" = "grey") /\ Null \notin S
      BY <1>1 DEF Good, On, Coloured
    <2> HIDE DEF S
    <2>2. o \in S /\ m.prev[o] = Null
      BY <1>1, <2>1, HeadOfList
    <2>3. QED
      BY <2>2 DEF S
  <1>3. m.color[o] = "grey"
    BY <1>2 DEF Coloured
  <1>4. q = [color |-> m.color, next |-> m.next, prev |-> m.prev,
             head |-> [m.head EXCEPT !["grey"] = m.next[o]]]
    BY <1>1, Fields
  <1> HIDE DEF q
  <1>5. q.color = m.color /\ q.next = m.next /\ q.prev = m.prev
    BY <1>4
  <1>6. [q EXCEPT !.head["grey"] = m.next[o]] = q
    <2> DEFINE H == [m.head EXCEPT !["grey"] = m.next[o]]
    <2>1. q.head = H /\ [H EXCEPT !["grey"] = m.next[o]] = H
      BY <1>1, <1>4, Fields
    <2>2. [q EXCEPT !.head["grey"] = m.next[o]]
             = [color |-> m.color, next |-> m.next, prev |-> m.prev,
                head |-> [q.head EXCEPT !["grey"] = m.next[o]]]
      BY <1>4
    <2>3. QED
      BY <1>4, <2>1, <2>2
  <1>7. gc_remove_from_specific_list(q, "grey", o) = gc_remove_from_specific_list(m, "grey", o)
    <2>1. q.next[o] = m.next[o] /\ q.prev[o] = Null
      BY <1>2, <1>5
    <2>2. gc_remove_from_specific_list(q, "grey", o)
            = Beheaded([q EXCEPT !.head["grey"] = q.next[o]], q.next[o], o)
      BY <2>1, UnlinkHead
    <2>3. gc_remove_from_specific_list(m, "grey", o)
            = Beheaded([m EXCEPT !.head["grey"] = m.next[o]], m.next[o], o)
      BY <1>2, UnlinkHead
    <2>4. [q EXCEPT !.head["grey"] = q.next[o]] = q
      BY <1>6, <2>1
    <2>5. gc_remove_from_specific_list(q, "grey", o) = Beheaded(q, m.next[o], o)
      BY <2>1, <2>2, <2>4
    <2>6. gc_remove_from_specific_list(m, "grey", o) = Beheaded(q, m.next[o], o)
      BY <2>3 DEF q
    <2>7. QED
      BY <2>5, <2>6
  <1>8. QED
    BY <1>3, <1>5, <1>7 DEF gc_remove_from_list, q

-----------------------------------------------------------------------------
(***************************************************************************)
(* The steps.  Each one that writes to the memory gives one object another *)
(* colour and keeps the memory good.                                       *)
(***************************************************************************)
IInv == Good(mem) /\ pc \in {"mutate", "mark", "refs", "free", "whiten", "roots"}

Recolour(o, l) == Good(mem') /\ mem'.color = [mem.color EXCEPT ![o] = l]

\* The head of a list is of its colour, and is null when no object is.
LEMMA HeadOfColour ==
  ASSUME Good(mem), NEW l \in Lists
  PROVE  /\ mem.head[l] = Null <=> OfColour(l) = {}
         /\ mem.head[l] # Null => mem.head[l] \in OfColour(l) /\ OfColour(l) \subseteq Objects
  <1> DEFINE S == Coloured(mem, l)
  <1>1. S = OfColour(l) /\ S \subseteq Objects
    BY DEF Coloured, OfColour
  <1>2. IsList(S, mem.head[l], mem.next, mem.prev, l = "grey") /\ Null \notin S
    BY <1>1, NullAssumption DEF Good, On
  <1> HIDE DEF S
  <1>3. /\ mem.head[l] = Null <=> S = {}
        /\ mem.head[l] # Null => mem.head[l] \in S
    BY <1>2, HeadOfList
  <1>4. QED
    BY <1>1, <1>3

\* A new colour moves one object between the sets.
LEMMA Recoloured ==
  ASSUME Good(mem), NEW o \in Objects, NEW l, Recolour(o, l), NEW k
  PROVE  OfColour(k)' = IF k = l THEN OfColour(k) \cup {o} ELSE OfColour(k) \ {o}
  <1>1. mem \in Memory
    BY DEF Good
  <1>2. mem.color \in [Objects -> Lists \cup {"free"}]
    BY <1>1, Fields
  <1>3. QED
    BY <1>2 DEF Recolour, OfColour

\* Allocation makes a free object grey.
LEMMA AllocStep ==
  ASSUME IInv, NEW o \in Objects, alloc(o)
  PROVE  Recolour(o, "grey")
  BY AllocateList DEF IInv, alloc, Recolour

\* Marking makes the head of the grey list black.
LEMMA MarkStep ==
  ASSUME IInv, mark_next
  PROVE  /\ mem.head["grey"] \in Objects /\ mem.color[mem.head["grey"]] = "grey"
         /\ Recolour(mem.head["grey"], "black")
  <1> DEFINE o == mem.head["grey"]
             q == [mem EXCEPT !.head["grey"] = mem.next[o]]
  <1>1. "grey" \in Lists /\ "black" \in Lists /\ Good(mem) /\ o # Null
    BY DEF Lists, IInv, mark_next
  <1>2. o \in Objects
    BY <1>1, HeadOfColour
  <1>3. /\ q.color = mem.color /\ mem.color[o] = "grey"
        /\ gc_remove_from_list(q, o) = gc_remove_from_list(mem, o)
    BY <1>1, <1>2, PoppedTwice
  <1>4. mem' = gc_add_to_black(q, o)
    BY <1>3 DEF mark_next
  <1> HIDE DEF q
  <1>5. mem' = Push(gc_remove_from_list(mem, o), "black", o)
    BY <1>3, <1>4 DEF gc_add_to_black
  <1> HIDE DEF o
  <1>6. mem.color[o] \in Lists /\ "black" # mem.color[o]
    BY <1>1, <1>3
  <1>7. mem.color[o] = "grey" => o = mem.head["grey"]
    BY DEF o
  <1>8. Good(mem') /\ mem'.color = [mem.color EXCEPT ![o] = "black"]
    BY <1>1, <1>2, <1>5, <1>6, <1>7, Move
  <1>9. QED
    BY <1>2, <1>3, <1>8 DEF Recolour, o

\* Shading makes a white object grey and leaves the others alone.
LEMMA ShadeStep ==
  ASSUME IInv, NEW o \in Objects, shade(o)
  PROVE  UNCHANGED mem \/ (mem.color[o] = "white" /\ Recolour(o, "grey"))
  <1>1. CASE mem.color[o] \in {"black", "grey"}
    BY <1>1 DEF shade, gc_add_to_grey
  <1>2. CASE mem.color[o] \notin {"black", "grey"}
    <2>1. mem \in Memory
      BY DEF IInv, Good
    <2>2. mem.color[o] = "white" /\ "white" \in Lists /\ "grey" \in Lists
      BY <1>2, <2>1, Fields DEF shade, Lists
    <2>3. mem' = Push(gc_remove_from_list(mem, o), "grey", o)
      BY <1>2 DEF shade, gc_add_to_grey
    <2>4. Good(mem') /\ mem'.color = [mem.color EXCEPT ![o] = "grey"]
      BY <2>2, <2>3, Move DEF IInv
    <2>5. QED
      BY <2>2, <2>4 DEF Recolour
  <1>3. QED
    BY <1>1, <1>2

\* The sweep releases the head of the white list.
LEMMA FreeStep ==
  ASSUME IInv, free_next
  PROVE  /\ mem.head["white"] \in Objects /\ mem.color[mem.head["white"]] = "white"
         /\ Recolour(mem.head["white"], "free")
  <1> DEFINE o == mem.head["white"]
  <1>1. "white" \in Lists /\ Good(mem) /\ o # Null
    BY DEF Lists, IInv, free_next
  <1>2. o \in Objects /\ mem.color[o] = "white"
    BY <1>1, HeadOfColour DEF OfColour
  <1>3. mem' = [gc_remove_from_list(mem, o) EXCEPT !.color[o] = "free"]
    BY DEF free_next
  <1> HIDE DEF o
  <1>4. QED
    BY <1>1, <1>2, <1>3, ReleaseList DEF Recolour, o

\* The sweep makes the head of the black list white.
LEMMA WhitenStep ==
  ASSUME IInv, whiten_next
  PROVE  /\ mem.head["black"] \in Objects /\ mem.color[mem.head["black"]] = "black"
         /\ Recolour(mem.head["black"], "white")
  <1> DEFINE o == mem.head["black"]
  <1>1. "black" \in Lists /\ "white" \in Lists /\ Good(mem) /\ o # Null
    BY DEF Lists, IInv, whiten_next
  <1>2. o \in Objects /\ mem.color[o] = "black"
    BY <1>1, HeadOfColour DEF OfColour
  <1>3. mem' = Push(gc_remove_from_list(mem, o), "white", o)
    BY DEF whiten_next
  <1> HIDE DEF o
  <1>4. mem.color[o] \in Lists /\ mem.color[o] # "grey" /\ "white" # mem.color[o]
    BY <1>1, <1>2
  <1>5. Good(mem') /\ mem'.color = [mem.color EXCEPT ![o] = "white"]
    BY <1>1, <1>2, <1>3, <1>4, Move
  <1>6. QED
    BY <1>2, <1>5 DEF Recolour, o

\* Good memories stay good.
LEMMA StepGood ==
  ASSUME IInv, [Next]_vars
  PROVE  IInv'
  <1>1. CASE \E o \in Objects : alloc(o)
    BY <1>1, AllocStep DEF alloc, IInv, Recolour
  <1>2. CASE \E o \in Objects : shade(o)
    BY <1>2, ShadeStep DEF shade, IInv, Recolour
  <1>3. CASE mark_next
    BY <1>3, MarkStep DEF mark_next, IInv, Recolour
  <1>4. CASE free_next
    BY <1>4, FreeStep DEF free_next, IInv, Recolour
  <1>5. CASE whiten_next
    BY <1>5, WhitenStep DEF whiten_next, IInv, Recolour
  <1>6. CASE UNCHANGED mem /\ pc' \in {"mutate", "mark", "refs", "free", "whiten", "roots"}
    BY <1>6 DEF IInv
  <1>7. QED
    <2>1. CASE gc_do_greys \/ refs_done \/ mark_done \/ free_done \/ whiten_done \/ gc_mark_done
      BY <1>6, <2>1 DEF gc_do_greys, refs_done, mark_done, free_done, whiten_done, gc_mark_done
    <2>2. CASE UNCHANGED vars
      BY <1>6, <2>2 DEF vars, IInv
    <2>3. QED
      BY <1>1, <1>2, <1>3, <1>4, <1>5, <2>1, <2>2 DEF Next, Collect

\* The lists are good in every state.
THEOREM ListsGood == Spec => []IInv
  <1>1. Init => IInv
    BY InitGood DEF IInv, Init
  <1>2. IInv /\ [Next]_vars => IInv'
    BY StepGood
  <1>3. QED
    BY <1>1, <1>2, PTL DEF Spec

-----------------------------------------------------------------------------
(***************************************************************************)
(* The walk along a list.  It is the only function that starts at the head *)
(* and goes on by `next`, and the order of the list gives such a function. *)
(***************************************************************************)
\* A walk meets the objects in order and then null.
LEMMA WalkAlong ==
  ASSUME NEW l, NEW n, NEW s, Null \notin OfColour(l),
         Order(n, s, OfColour(l)), Links(n, s, mem.head[l], mem.next, mem.prev, l = "grey")
  PROVE  /\ n = Cardinality(OfColour(l))
         /\ \A i \in 0..n : Walk(l)[i] = IF i < n THEN s[i + 1] ELSE Null
  <1> DEFINE T == OfColour(l)
             C == Cardinality(Objects)
             W(g) == [i \in 0..C |-> IF i = 0 THEN mem.head[l]
                                     ELSE IF g[i - 1] = Null THEN Null ELSE mem.next[g[i - 1]]]
             w == [i \in 0..C |-> IF i < n THEN s[i + 1] ELSE Null]
  <1>1. IsFiniteSet(T) /\ Cardinality(T) <= C /\ C \in Nat
    <2>1. T \subseteq Objects
      BY DEF OfColour
    <2>2. QED
      BY <2>1, FiniteAssumption, FS_Subset, FS_CardinalityType
  <1>2. n \in Nat /\ n = Cardinality(T)
    <2>1. s \in Bijection(1..n, T)
      BY DEF Order, Bijection, Injection, Surjection, IsInjective
    <2>2. ExistsBijection(1..n, T) /\ n \in Nat
      BY <2>1 DEF ExistsBijection, Order
    <2>3. QED
      BY <2>2, FS_CountingElements
  <1>3. \A i \in 1..n : s[i] # Null
    BY DEF Order
  <1>4. w = W(w)
    <2>1. ASSUME NEW i \in 0..C
          PROVE  w[i] = IF i = 0 THEN mem.head[l]
                        ELSE IF w[i - 1] = Null THEN Null ELSE mem.next[w[i - 1]]
      <3>1. CASE i = 0
        BY <1>1, <1>2, <3>1 DEF Links
      <3>2. CASE i # 0 /\ i - 1 < n
        <4>1. i \in 1..n /\ i - 1 \in 0..C /\ w[i - 1] = s[i] /\ s[i] # Null
          BY <1>1, <1>2, <1>3, <3>2
        <4>2. mem.next[s[i]] = IF i = n THEN Null ELSE s[i + 1]
          BY <4>1 DEF Links
        <4>3. w[i] = IF i = n THEN Null ELSE s[i + 1]
          BY <1>1, <1>2, <4>1
        <4>4. QED
          BY <3>2, <4>1, <4>2, <4>3
      <3>3. CASE i # 0 /\ ~(i - 1 < n)
        <4>1. i - 1 \in 0..C /\ w[i - 1] = Null /\ w[i] = Null
          BY <1>1, <1>2, <3>3
        <4>2. QED
          BY <3>3, <4>1
      <3>4. QED
        BY <3>1, <3>2, <3>3
    <2>2. QED
      BY <2>1
  <1>5. Walk(l) = CHOOSE g : g = W(g)
    BY DEF Walk
  <1> HIDE DEF w
  <1>6. Walk(l) = W(Walk(l))
    <2> HIDE DEF W
    <2>1. QED
      BY <1>4, <1>5
  <1>7. \A i \in 0..C : Walk(l)[i] = w[i]
    <2> DEFINE a == Walk(l)
               S == {i \in 0..C : a[i] = w[i]}
    <2> HIDE DEF a
    <2>1. a = W(a)
      BY <1>6 DEF a
    <2>2. 0 \in S
      <3>1. 0 \in 0..C
        BY <1>1
      <3>2. a[0] = W(a)[0] /\ w[0] = W(w)[0]
        BY <1>4, <2>1
      <3>3. W(a)[0] = mem.head[l] /\ W(w)[0] = mem.head[l]
        BY <3>1
      <3>4. QED
        BY <3>1, <3>2, <3>3
    <2>3. ASSUME NEW i \in 0..(C - 1), i \in S PROVE i + 1 \in S
      <3>1. i + 1 \in 0..C /\ i + 1 # 0 /\ (i + 1) - 1 = i /\ a[i] = w[i]
        BY <1>1, <2>3
      <3>2. a[i + 1] = W(a)[i + 1] /\ w[i + 1] = W(w)[i + 1]
        BY <1>4, <2>1
      <3>3. W(a)[i + 1] = W(w)[i + 1]
        BY <3>1
      <3>4. QED
        BY <3>1, <3>2, <3>3
    <2> HIDE DEF S
    <2>4. 0..C \subseteq S
      BY <1>1, <2>2, <2>3, BoundedInduction
    <2>5. QED
      BY <2>4 DEF S, a
  <1>8. \A i \in 0..n : i \in 0..C /\ w[i] = IF i < n THEN s[i + 1] ELSE Null
    BY <1>1, <1>2 DEF w
  <1>9. QED
    BY <1>2, <1>7, <1>8

\* What the run checks of a good memory.
LEMMA GoodLists ==
  ASSUME IInv
  PROVE  Inv
  <1>1. TypeOK
    BY DEF IInv, Good, TypeOK
  <1>2. \A l \in Lists : OfColour(l) = Coloured(mem, l)
    BY DEF OfColour, Coloured
  <1>3. Linked
    <2>1. ASSUME NEW l \in Lists PROVE Listed(mem, l, OfColour(l))
      <3> DEFINE S == OfColour(l)
      <3>1. S \subseteq Objects
        BY DEF OfColour
      <3>2. IsFiniteSet(S)
        BY <3>1, FiniteAssumption, FS_Subset
      <3>3. IsList(S, mem.head[l], mem.next, mem.prev, l = "grey")
        BY <1>2 DEF IInv, Good, On
      <3> HIDE DEF S
      <3>4. Listed(mem, l, S)
        BY <3>2, <3>3, ListedIsList
      <3>5. QED
        BY <3>4 DEF S
    <2>2. QED
      BY <2>1 DEF Linked
  <1>4. ASSUME NEW l \in Lists
        PROVE  /\ {Walk(l)[i] : i \in 0..(Cardinality(OfColour(l)) - 1)} = OfColour(l)
               /\ Walk(l)[Cardinality(OfColour(l))] = Null
               /\ mem.head[l] # Null => mem.prev[mem.head[l]] = Null
               /\ \A i \in 1..(Cardinality(OfColour(l)) - 1) :
                     mem.prev[Walk(l)[i]] = Walk(l)[i - 1]
                     \/ (l = "grey" /\ mem.prev[Walk(l)[i]] = Null)
    <2> DEFINE S == OfColour(l)
    <2>1. Null \notin S
      BY NullAssumption DEF OfColour
    <2>2. IsList(S, mem.head[l], mem.next, mem.prev, l = "grey")
      BY <1>2 DEF IInv, Good, On
    <2>3. PICK n, s : Order(n, s, S) /\ Links(n, s, mem.head[l], mem.next, mem.prev, l = "grey")
      BY <2>2 DEF IsList
    <2>4. /\ n = Cardinality(S)
          /\ \A i \in 0..n : Walk(l)[i] = IF i < n THEN s[i + 1] ELSE Null
      BY <2>1, <2>3, WalkAlong
    <2> HIDE DEF S
    <2> DEFINE a == Walk(l)
    <2> HIDE DEF a
    <2>5. n \in Nat /\ (\A i \in 1..n : s[i] \in S) /\ (\A x \in S : \E i \in 1..n : s[i] = x)
      BY <2>3 DEF Order
    <2>6. \A i \in 0..(n - 1) : i + 1 \in 1..n /\ a[i] = s[i + 1]
      BY <2>4, <2>5 DEF a
    <2>7. {a[i] : i \in 0..(n - 1)} = S
      <3>1. \A i \in 0..(n - 1) : a[i] \in S
        BY <2>5, <2>6
      <3>2. ASSUME NEW x \in S PROVE \E i \in 0..(n - 1) : a[i] = x
        <4>1. PICK j \in 1..n : s[j] = x
          BY <2>5
        <4>2. j - 1 \in 0..(n - 1) /\ (j - 1) + 1 = j
          BY <2>5
        <4>3. QED
          BY <2>6, <4>1, <4>2
      <3>3. QED
        BY <3>1, <3>2
    <2>8. a[n] = Null
      BY <2>4, <2>5 DEF a
    <2>9. mem.head[l] # Null => mem.prev[mem.head[l]] = Null
      BY <2>1, <2>2, HeadOfList
    <2>10. ASSUME NEW i \in 1..(n - 1)
           PROVE  mem.prev[a[i]] = a[i - 1] \/ (l = "grey" /\ mem.prev[a[i]] = Null)
      <3>1. i \in 0..(n - 1) /\ i - 1 \in 0..(n - 1) /\ (i - 1) + 1 = i /\ i + 1 \in 1..n
            /\ i + 1 # 1 /\ (i + 1) - 1 = i
        BY <2>5
      <3>2. a[i] = s[i + 1] /\ a[i - 1] = s[i]
        BY <2>6, <3>1
      <3>3. mem.prev[s[i + 1]] = s[i] \/ (l = "grey" /\ mem.prev[s[i + 1]] = Null)
        BY <2>3, <3>1 DEF Links
      <3>4. QED
        BY <3>2, <3>3
    <2>11. QED
      BY <2>4, <2>7, <2>8, <2>9, <2>10 DEF S, a
  <1>5. ListsExact
    BY <1>4 DEF ListsExact
  <1>6. PrevLinksUsable
    BY <1>4 DEF PrevLinksUsable
  <1>7. QED
    BY <1>1, <1>3, <1>5, <1>6 DEF Inv

\* In every state following `next` from a head meets exactly the objects of that
\* colour and ends, `prev` leads back wherever an object is unlinked from the
\* middle, and no released object keeps a link.
THEOREM ListsStayExact == Spec => []Inv
  <1>1. IInv => Inv
    BY GoodLists
  <1>2. QED
    BY <1>1, ListsGood, PTL

-----------------------------------------------------------------------------
(***************************************************************************)
(* The lists implement the three sets.                                     *)
(***************************************************************************)
\* A step of the lists is a step of the sets, or changes no set.
LEMMA StepRefines ==
  ASSUME IInv, [Next]_vars
  PROVE  [Sets!Next]_(Sets!vars)
  <1> USE DEF Sets!vars
  <1>1. Good(mem) /\ mem \in Memory
    BY DEF IInv, Good
  <1>2. ASSUME NEW o \in Objects, alloc(o)
        PROVE  Sets!Allocate(o)
    <2>1. o \notin OfColour("white") \cup OfColour("grey") \cup OfColour("black")
      BY <1>2 DEF alloc, OfColour
    <2>2. Recolour(o, "grey")
      BY <1>2, AllocStep
    <2>3. /\ OfColour("grey")' = OfColour("grey") \cup {o}
          /\ OfColour("white")' = OfColour("white") \ {o}
          /\ OfColour("black")' = OfColour("black") \ {o}
      BY <1>1, <2>2, Recoloured
    <2>4. QED
      BY <1>2, <2>1, <2>3 DEF alloc, Sets!Allocate
  <1>3. ASSUME NEW o \in Objects, shade(o), ~UNCHANGED mem
        PROVE  Sets!Shade(o)
    <2>1. mem.color[o] = "white" /\ Recolour(o, "grey")
      BY <1>3, ShadeStep
    <2>2. /\ OfColour("grey")' = OfColour("grey") \cup {o}
          /\ OfColour("white")' = OfColour("white") \ {o}
          /\ OfColour("black")' = OfColour("black") \ {o}
      BY <1>1, <2>1, Recoloured
    <2>3. o \in OfColour("white") /\ o \notin OfColour("black")
      BY <2>1 DEF OfColour
    <2>4. QED
      BY <1>3, <2>2, <2>3 DEF shade, Sets!Shade
  <1>4. ASSUME mark_next
        PROVE  \E o \in Objects : Sets!Blacken(o)
    <2>1. PICK o \in Objects : mem.color[o] = "grey" /\ Recolour(o, "black")
      BY <1>4, MarkStep
    <2>2. /\ OfColour("black")' = OfColour("black") \cup {o}
          /\ OfColour("white")' = OfColour("white") \ {o}
          /\ OfColour("grey")' = OfColour("grey") \ {o}
      BY <1>1, <2>1, Recoloured
    <2>3. o \in OfColour("grey") /\ o \notin OfColour("white")
      BY <2>1 DEF OfColour
    <2>4. Sets!Blacken(o)
      BY <1>4, <2>2, <2>3 DEF mark_next, Sets!Blacken
    <2>5. QED
      BY <2>4
  <1>5. ASSUME free_next
        PROVE  \E o \in Objects : Sets!Reclaim(o)
    <2>1. PICK o \in Objects : mem.color[o] = "white" /\ Recolour(o, "free")
      BY <1>5, FreeStep
    <2>2. /\ OfColour("white")' = OfColour("white") \ {o}
          /\ OfColour("black")' = OfColour("black") \ {o}
          /\ OfColour("grey")' = OfColour("grey") \ {o}
      BY <1>1, <2>1, Recoloured
    <2>3. o \in OfColour("white") /\ o \notin OfColour("black") /\ o \notin OfColour("grey")
      BY <2>1 DEF OfColour
    <2>4. Sets!Reclaim(o)
      BY <1>5, <2>2, <2>3 DEF free_next, Sets!Reclaim
    <2>5. QED
      BY <2>4
  <1>6. ASSUME whiten_next
        PROVE  \E o \in Objects : Sets!Whiten(o)
    <2>1. PICK o \in Objects : mem.color[o] = "black" /\ Recolour(o, "white")
      BY <1>6, WhitenStep
    <2>2. /\ OfColour("white")' = OfColour("white") \cup {o}
          /\ OfColour("black")' = OfColour("black") \ {o}
          /\ OfColour("grey")' = OfColour("grey") \ {o}
      BY <1>1, <2>1, Recoloured
    <2>3. o \in OfColour("black") /\ o \notin OfColour("grey")
      BY <2>1 DEF OfColour
    <2>4. Sets!Whiten(o)
      BY <1>6, <2>2, <2>3 DEF whiten_next, Sets!Whiten
    <2>5. QED
      BY <2>4
  \* The loops end at a null head, which is when the set is empty.
  <1>7. \A l \in {"white", "grey", "black"} : mem.head[l] = Null <=> OfColour(l) = {}
    BY <1>1, HeadOfColour DEF Lists
  <1>8. ASSUME UNCHANGED mem
        PROVE  UNCHANGED <<OfColour("white"), OfColour("grey"), OfColour("black")>>
    BY <1>8 DEF OfColour
  <1>9. ASSUME gc_do_greys \/ refs_done \/ mark_done \/ free_done \/ whiten_done \/ gc_mark_done
        PROVE  Sets!Advance
    <2>1. UNCHANGED <<OfColour("white"), OfColour("grey"), OfColour("black")>>
      BY <1>8, <1>9 DEF gc_do_greys, refs_done, mark_done, free_done, whiten_done, gc_mark_done
    <2>2. \/ pc = "mutate" /\ pc' = "mark"
          \/ pc = "refs" /\ pc' = "mark"
          \/ pc = "mark" /\ pc' = IF OfColour("grey") = {} THEN "free" ELSE "mutate"
          \/ pc = "free" /\ OfColour("white") = {} /\ pc' = "whiten"
          \/ pc = "whiten" /\ OfColour("black") = {} /\ pc' = "roots"
          \/ pc = "roots" /\ pc' = "mutate"
      BY <1>7, <1>9 DEF gc_do_greys, refs_done, mark_done, free_done, whiten_done, gc_mark_done
    <2>3. QED
      BY <2>1, <2>2 DEF Sets!Advance
  <1>10. ASSUME NEW o \in Objects, shade(o), UNCHANGED mem
         PROVE  UNCHANGED Sets!vars
    BY <1>8, <1>10 DEF shade
  <1>11. CASE UNCHANGED vars
    BY <1>8, <1>11 DEF vars
  <1>12. QED
    BY <1>2, <1>3, <1>4, <1>5, <1>6, <1>9, <1>10, <1>11 DEF Next, Collect, Sets!Next

\* The intrusive lists implement the three sets: an object is reclaimed only
\* when it is white and nothing is grey, and each loop over a list ends exactly
\* when its set is empty.
THEOREM ListsImplementSets == Spec => RefinesTriColour
  <1>1. Init => Sets!Init
    BY DEF Init, Sets!Init, OfColour
  <1>2. IInv /\ [Next]_vars => [Sets!Next]_(Sets!vars)
    BY StepRefines
  <1>3. Spec => Sets!Spec
    BY <1>1, <1>2, ListsGood, PTL DEF Spec, Sets!Spec
  <1>4. QED
    BY <1>3 DEF RefinesTriColour

-----------------------------------------------------------------------------
(***************************************************************************)
(* The pool.                                                               *)
(***************************************************************************)
\* An object in use has an address; the counts are the sizes of finite sets.
LEMMA AddressOf ==
    ASSUME PoolTypeOK, NEW o \in InUse
    PROVE  at[o] \in Addresses /\ at[o][1] \in Buckets /\ at[o][2] \in 0..(Slots - 1)
  <1>1. at[o] \in Addresses
    BY DEF PoolTypeOK, InUse
  <1>. QED
    BY <1>1 DEF Addresses

\* A block's objects in use are finitely many.
LEMMA InIsFinite ==
    ASSUME NEW b
    PROVE  IsFiniteSet(In(b)) /\ Cardinality(In(b)) \in Nat
  <1>1. In(b) \subseteq PoolObjects
    BY DEF In, InUse
  <1>. QED
    BY <1>1, PoolAssumption, FS_Subset, FS_CardinalityType

-----------------------------------------------------------------------------
\* Taking a slot, whichever bucket it comes from, gives an object an address
\* that no other object in use has, and keeps the counts exact.
LEMMA TakeSafe ==
    ASSUME PoolTypeOK, NoSharedMemory, Counted, Placed, Filled,
           NEW o \in PoolObjects, NEW b \in Buckets,
           at[o] = Nowhere, used[b] < Slots, Take(o, b)
    PROVE  /\ used' \in [Buckets -> 0..Slots] /\ count' \in [Buckets -> 0..Slots]
           /\ at' \in [PoolObjects -> Addresses \cup {Nowhere}]
           /\ NoSharedMemory' /\ Counted' /\ Placed'
           /\ \A c \in Buckets : count'[c] <= used'[c]
           /\ \A c \in Buckets \ {b} : used'[c] = used[c] /\ count'[c] = count[c]
           /\ count[b] = used[b] => count'[b] = used'[b]
           /\ \A c \in Buckets, p \in InUse' : used'[c] = 0 => at'[p][1] # c
  <1>. DEFINE a == <<b, used[b]>>
  <1>1. used[b] \in 0..Slots /\ count[b] \in 0..Slots /\ count[b] <= used[b] /\ Slots \in Nat
    BY PoolAssumption DEF PoolTypeOK, Filled
  <1>2. a \in Addresses /\ a # Nowhere
    <2>1. used[b] \in 0..(Slots - 1)
      BY <1>1
    <2>2. a \in Buckets \X (0..(Slots - 1))
      BY <2>1
    <2>. QED
      BY <2>2, PoolAssumption DEF Addresses
  <1>3. at'[o] = a /\ \A p \in PoolObjects \ {o} : at'[p] = at[p]
    BY DEF Take, PoolTypeOK
  <1>4. InUse' = InUse \cup {o} /\ o \notin InUse
    BY <1>2, <1>3 DEF InUse
  <1>5. /\ used'[b] = used[b] + 1 /\ count'[b] = count[b] + 1
        /\ \A c \in Buckets \ {b} : used'[c] = used[c] /\ count'[c] = count[c]
    BY DEF Take, PoolTypeOK
  <1>6. used' \in [Buckets -> 0..Slots] /\ count' \in [Buckets -> 0..Slots]
    <2>1. used[b] + 1 \in 0..Slots /\ count[b] + 1 \in 0..Slots
      BY <1>1
    <2>. QED
      BY <2>1 DEF Take, PoolTypeOK
  <1>7. at' \in [PoolObjects -> Addresses \cup {Nowhere}]
    BY <1>2 DEF Take, PoolTypeOK
  <1>8. NoSharedMemory'
    <2>1. ASSUME NEW p \in InUse PROVE at[p] # a
      BY <2>1, AddressOf, <1>1 DEF Placed
    <2>. QED
      BY <2>1, <1>3, <1>4 DEF NoSharedMemory, InUse
  <1>9. Counted'
    <2>1. ASSUME NEW c \in Buckets \ {b} PROVE In(c)' = In(c)
      BY <1>3, <1>4 DEF In, InUse
    <2>2. In(b)' = In(b) \cup {o} /\ o \notin In(b)
      BY <1>3, <1>4 DEF In, InUse
    <2>3. Cardinality(In(b)') = Cardinality(In(b)) + 1
      BY <2>2, InIsFinite, FS_AddElement
    <2>. QED
      BY <2>1, <2>3, <1>5 DEF Counted
  <1>10. Placed'
    <2>1. o \in InUse' => at'[o][2] < used'[at'[o][1]]
      BY <1>1, <1>3, <1>5
    <2>2. ASSUME NEW p \in InUse PROVE at'[p][2] < used'[at'[p][1]]
      <3>1. at'[p] = at[p] /\ at[p][1] \in Buckets /\ at[p][2] \in Nat
        BY <2>2, <1>3, <1>4, AddressOf DEF InUse
      <3>2. at[p][2] < used[at[p][1]]
        BY <2>2 DEF Placed
      <3>3. used[at[p][1]] <= used'[at[p][1]] /\ used[at[p][1]] \in Nat /\ used'[at[p][1]] \in Nat
        BY <3>1, <1>1, <1>5, <1>6 DEF PoolTypeOK
      <3>. QED
        BY <3>1, <3>2, <3>3
    <2>. QED
      BY <2>1, <2>2, <1>4 DEF Placed
  <1>11. \A c \in Buckets : count'[c] <= used'[c]
    BY <1>1, <1>5 DEF Filled
  <1>12. ASSUME NEW c \in Buckets, NEW p \in InUse', used'[c] = 0
         PROVE  at'[p][1] # c
    <2>1. at'[p] \in Addresses
      BY <1>7, <1>12 DEF InUse
    <2>2. at'[p][2] \in Nat /\ at'[p][2] < used'[at'[p][1]]
      BY <2>1, <1>10, <1>12 DEF Placed, Addresses
    <2>. QED
      BY <2>2, <1>12
  <1>. QED
    BY <1>5, <1>6, <1>7, <1>8, <1>9, <1>10, <1>11, <1>12

-----------------------------------------------------------------------------
\* Before anything is allocated the invariant holds.
LEMMA InitInvariant ==
    ASSUME PoolInit
    PROVE  PoolIInv
  <1>1. PoolTypeOK
    BY PoolAssumption DEF PoolInit, PoolTypeOK
  <1>2. InUse = {}
    BY DEF PoolInit, InUse
  <1>3. Counted
    BY <1>2, FS_EmptySet DEF PoolInit, Counted, In
  <1>4. NoSharedMemory /\ Placed /\ BucketsApart
    BY <1>2 DEF PoolInit, NoSharedMemory, Placed, BucketsApart
  <1>5. OneIdleBucket /\ Filled /\ IdleIsRecent
    BY DEF PoolInit, OneIdleBucket, Filled, IdleIsRecent
  <1>. QED
    BY <1>1, <1>3, <1>4, <1>5 DEF PoolIInv

\* pool_alloc in the current bucket.
LEMMA HereInvariant ==
    ASSUME PoolIInv, NEW o \in PoolObjects, alloc_here(o)
    PROVE  PoolIInv'
  <1>. USE DEF PoolIInv
  <1>1. /\ Take(o, current) /\ at[o] = Nowhere /\ used[current] < Slots
        /\ current \in Buckets /\ current' = current
        /\ free' = free /\ old' = old /\ buckets' = buckets
    BY DEF alloc_here, Take, PoolTypeOK
  <1>2. PoolTypeOK' /\ NoSharedMemory' /\ Counted' /\ Placed'
    BY <1>1, TakeSafe DEF PoolTypeOK
  <1>3. /\ \A c \in Buckets \ {current} : used'[c] = used[c] /\ count'[c] = count[c]
        /\ \A c \in Buckets : count'[c] <= used'[c]
        /\ count[current] = used[current] => count'[current] = used'[current]
        /\ \A c \in Buckets, p \in InUse' : used'[c] = 0 => at'[p][1] # c
    BY <1>1, TakeSafe
  <1>4. BucketsApart'
    BY <1>1, <1>3 DEF BucketsApart, PoolTypeOK
  <1>5. OneIdleBucket' /\ Filled' /\ IdleIsRecent'
    BY <1>1, <1>3 DEF OneIdleBucket, Filled, IdleIsRecent, BucketsApart, PoolTypeOK
  <1>. QED
    BY <1>2, <1>4, <1>5

\* pool_alloc when the current bucket is retired for an empty one, recycled or new.
LEMMA RetireInvariant ==
    ASSUME PoolIInv, NEW o \in PoolObjects, NEW b \in Buckets \ (old \cup {current}),
           at[o] = Nowhere, used[current] >= Slots, Take(o, b),
           old' = old \cup {current}, free' = free \ {b}, buckets' \in 0..(Wrap - 1)
    PROVE  PoolIInv'
  <1>. USE DEF PoolIInv
  <1>1. used[b] = 0 /\ count[b] = 0 /\ current' = b /\ current \in Buckets
    BY DEF Filled, PoolTypeOK, Take
  <1>2. used[b] < Slots
    BY <1>1, PoolAssumption
  <1>3. /\ \A c \in Buckets \ {b} : used'[c] = used[c] /\ count'[c] = count[c]
        /\ \A c \in Buckets : count'[c] <= used'[c]
        /\ count'[b] = used'[b]
        /\ \A c \in Buckets, p \in InUse' : used'[c] = 0 => at'[p][1] # c
    BY <1>1, <1>2, TakeSafe
  <1>4. PoolTypeOK' /\ NoSharedMemory' /\ Counted' /\ Placed'
    <2>1. /\ used' \in [Buckets -> 0..Slots] /\ count' \in [Buckets -> 0..Slots]
          /\ at' \in [PoolObjects -> Addresses \cup {Nowhere}]
          /\ NoSharedMemory' /\ Counted' /\ Placed'
      BY <1>1, <1>2, TakeSafe
    <2>. QED
      BY <2>1, <1>1 DEF PoolTypeOK
  <1>5. BucketsApart'
    BY <1>1, <1>3 DEF BucketsApart, PoolTypeOK
  <1>6. OneIdleBucket'
    <2>1. ASSUME NEW c \in old, count[c] = 0 PROVE count[current] # 0
      BY <2>1, PoolAssumption DEF IdleIsRecent, PoolTypeOK
    <2>. QED
      BY <2>1, <1>1, <1>3 DEF OneIdleBucket, PoolTypeOK
  <1>7. Filled' /\ IdleIsRecent'
    BY <1>1, <1>3 DEF Filled, IdleIsRecent
  <1>. QED
    BY <1>4, <1>5, <1>6, <1>7

\* An allocation keeps the invariant.
LEMMA AllocInvariant ==
    ASSUME PoolIInv, NEW o \in PoolObjects, pool_alloc(o)
    PROVE  PoolIInv'
  <1>1. CASE alloc_here(o)
    BY <1>1, HereInvariant
  <1>2. CASE alloc_recycled(o)
    <2>1. PICK b \in free : Take(o, b) /\ free' = free \ {b}
      BY <1>2 DEF alloc_recycled
    <2>2. b \in Buckets \ (old \cup {current})
      BY <2>1 DEF PoolIInv, PoolTypeOK, BucketsApart
    <2>3. buckets' \in 0..(Wrap - 1)
      BY <1>2 DEF alloc_recycled, PoolIInv, PoolTypeOK
    <2>. QED
      BY <1>2, <2>1, <2>2, <2>3, RetireInvariant DEF alloc_recycled
  <1>3. CASE alloc_made(o)
    <2>1. PICK b \in Buckets \ Made : Take(o, b)
      BY <1>3 DEF alloc_made
    <2>2. b \in Buckets \ (old \cup {current}) /\ free' = free \ {b}
      BY <1>3, <2>1 DEF alloc_made, Made
    <2>3. buckets' \in 0..(Wrap - 1)
      BY <1>3, PoolAssumption DEF alloc_made, PoolIInv, PoolTypeOK
    <2>. QED
      BY <1>3, <2>1, <2>2, <2>3, RetireInvariant DEF alloc_made
  <1>. QED
    BY <1>1, <1>2, <1>3 DEF pool_alloc

-----------------------------------------------------------------------------
\* pool_release: what leaves the old list has count 0, hence holds no object,
\* and may be filled from the front again.
LEMMA ReleaseInvariant ==
    ASSUME PoolIInv, NEW o \in PoolObjects, pool_release(o)
    PROVE  PoolIInv'
  <1>. USE DEF PoolIInv
  <1>. DEFINE recycled == Recycled(count')
  <1>1. /\ at[o] # Nowhere /\ o \in InUse /\ current' = current /\ current \in Buckets
        /\ old' = old \ recycled /\ free' = free \cup recycled
        /\ used' = [b \in Buckets |-> IF b \in recycled THEN 0 ELSE used[b]]
        /\ buckets' = (buckets - Cardinality(recycled)) % Wrap
        /\ at' = [at EXCEPT ![o] = Nowhere]
    BY DEF pool_release, InUse, PoolTypeOK
  <1>2. PICK owner \in Buckets : owner = at[o][1]
    BY <1>1, AddressOf
  <1>3. /\ \A p \in PoolObjects \ {o} : at'[p] = at[p]
        /\ InUse' = InUse \ {o}
    BY <1>1 DEF InUse, PoolTypeOK
  <1>4. /\ \A b \in Buckets \ {owner} : In(b)' = In(b)
        /\ In(owner)' = In(owner) \ {o} /\ o \in In(owner)
    BY <1>1, <1>2, <1>3 DEF In, InUse
  <1>5. Cardinality(In(owner)') = Cardinality(In(owner)) - 1 /\ Cardinality(In(owner)') \in Nat
    BY <1>4, InIsFinite, FS_RemoveElement, FS_Subset, FS_CardinalityType
  <1>6. count' = [count EXCEPT ![owner] = @ - 1]
    BY <1>2 DEF pool_release
  <1>7. Counted'
    BY <1>2, <1>4, <1>5, <1>6 DEF Counted, PoolTypeOK
  <1>8. count' \in [Buckets -> 0..Slots] /\ \A b \in Buckets : count'[b] <= count[b]
    <2>1. count[owner] - 1 \in 0..Slots /\ count[owner] \in 0..Slots
      BY <1>2, <1>5, PoolAssumption DEF Counted, PoolTypeOK
    <2>. QED
      BY <2>1, <1>2, <1>6, PoolAssumption DEF PoolTypeOK
  <1>9. recycled \subseteq old /\ recycled \subseteq Buckets /\ \A b \in recycled : count'[b] = 0
    BY DEF Recycled, PoolTypeOK
  <1>10. \A b \in recycled, p \in InUse' : at'[p][1] # b
    <2>1. ASSUME NEW b \in recycled, NEW p \in InUse', at'[p][1] = b PROVE FALSE
      <3>1. p \in In(b)'
        BY <2>1 DEF In
      <3>2. Cardinality(In(b)') = 0
        BY <2>1, <1>7, <1>9 DEF Counted
      <3>3. IsFiniteSet(In(b)')
        BY <1>4, <1>9, InIsFinite, FS_Subset
      <3>. QED
        BY <3>1, <3>2, <3>3, FS_EmptySet
    <2>. QED
      BY <2>1
  <1>11. PoolTypeOK'
    <2>1. buckets' \in 0..(Wrap - 1)
      <3>1. Cardinality(recycled) \in Nat
        BY <1>9, PoolAssumption, FS_Subset, FS_CardinalityType
      <3>. QED
        BY <3>1, <1>1, PoolAssumption DEF PoolTypeOK
    <2>2. used' \in [Buckets -> 0..Slots]
      BY <1>1, PoolAssumption DEF PoolTypeOK
    <2>3. at' \in [PoolObjects -> Addresses \cup {Nowhere}]
      BY <1>1 DEF PoolTypeOK
    <2>. QED
      BY <2>1, <2>2, <2>3, <1>1, <1>8, <1>9 DEF PoolTypeOK
  <1>12. NoSharedMemory'
    BY <1>3 DEF NoSharedMemory, InUse
  <1>13. Placed'
    <2>1. ASSUME NEW p \in InUse' PROVE at'[p][2] < used'[at'[p][1]]
      <3>1. p \in InUse /\ at'[p] = at[p] /\ at[p][1] \in Buckets
        BY <2>1, <1>3, AddressOf DEF InUse
      <3>2. used'[at[p][1]] = used[at[p][1]]
        BY <2>1, <3>1, <1>1, <1>10
      <3>. QED
        BY <3>1, <3>2 DEF Placed
    <2>. QED
      BY <2>1 DEF Placed
  <1>14. BucketsApart'
    BY <1>1, <1>3, <1>9, <1>10 DEF BucketsApart, PoolTypeOK, InUse
  <1>15. \A b \in old' : count'[b] # 0
    BY <1>1 DEF Recycled
  <1>16. OneIdleBucket' /\ IdleIsRecent'
    BY <1>15 DEF OneIdleBucket, IdleIsRecent
  <1>17. Filled'
    BY <1>1, <1>8, <1>9, PoolAssumption DEF Filled, PoolTypeOK
  <1>. QED
    BY <1>7, <1>11, <1>12, <1>13, <1>14, <1>16, <1>17

-----------------------------------------------------------------------------
\* Every step keeps the invariant.
LEMMA StepInvariant ==
    ASSUME PoolIInv, [PoolNext]_pool_vars
    PROVE  PoolIInv'
  <1>1. CASE PoolNext
    BY <1>1, AllocInvariant, ReleaseInvariant DEF PoolNext
  <1>2. CASE UNCHANGED pool_vars
    BY <1>2 DEF pool_vars, PoolIInv, PoolTypeOK, NoSharedMemory, BucketsApart, OneIdleBucket,
                Counted, Placed, Filled, IdleIsRecent, In, InUse
  <1>. QED
    BY <1>1, <1>2

\* The inductive invariant of the bucket allocator (pool_alloc, pool_release).
THEOREM PoolInvariant == PoolSpec => []PoolIInv
  BY InitInvariant, StepInvariant, PTL DEF PoolSpec

\* pool_alloc never hands out memory that an object still in use occupies.
THEOREM MemoryIsNotShared == PoolSpec => []NoSharedMemory
  <1>1. PoolIInv => NoSharedMemory
    BY DEF PoolIInv
  <1>. QED
    BY <1>1, PoolInvariant, PTL

\* The current bucket, the old and the free list have no bucket in common, and
\* a free bucket holds no object in use.
THEOREM BucketsStayApart == PoolSpec => []BucketsApart
  <1>1. PoolIInv => BucketsApart
    BY DEF PoolIInv
  <1>. QED
    BY <1>1, PoolInvariant, PTL

\* pool_release leaves at most one empty bucket unrecycled.
THEOREM AtMostOneIdle == PoolSpec => []OneIdleBucket
  <1>1. PoolIInv => OneIdleBucket
    BY DEF PoolIInv
  <1>. QED
    BY <1>1, PoolInvariant, PTL

\* Counts and fill levels stay within a bucket: no write past an arena, no
\* count below zero.
THEOREM PoolTypeCorrect == PoolSpec => []PoolTypeOK
  <1>1. PoolIInv => PoolTypeOK
    BY DEF PoolIInv
  <1>. QED
    BY <1>1, PoolInvariant, PTL


-----------------------------------------------------------------------------
(***************************************************************************)
(* Arithmetic of the probe.                                                *)
(***************************************************************************)
\* i & (cap - 1) stays within the table.
LEMMA ModRange ==
  ASSUME NEW a \in Nat, NEW c \in Nat, c > 0
  PROVE  a % c \in 0..(c - 1)
  OBVIOUS

\* Going once around takes off the capacity.
LEMMA ModSmall ==
  ASSUME NEW a \in Nat, NEW c \in Nat, c > 0, a < 2 * c
  PROVE  a % c = IF a < c THEN a ELSE a - c
  OBVIOUS

\* Division with remainder.
LEMMA ModQuotient ==
  ASSUME NEW a \in Nat, NEW c \in Nat, c > 0
  PROVE  \E q \in Nat : a = c * q + (a % c)
  OBVIOUS

\* A power of two above 1 is even.
LEMMA PowerEven ==
  ASSUME NEW n \in Nat, IsPow2(n), n > 1
  PROVE  n % 2 = 0
  BY DEF IsPow2

\* Twice a power of two is one.
LEMMA PowerDoubled ==
  ASSUME NEW n \in Nat, IsPow2(n)
  PROVE  IsPow2(2 * n)
  <1>1. n > 0
    BY DEF IsPow2
  <1>2. ASSUME NEW d \in 1..(2 * n), (2 * n) % d = 0, d % 2 # 0
        PROVE  d = 1
    <2>1. PICK q \in Nat : 2 * n = d * q
      <3> DEFINE N == 2 * n
      <3>0. N \in Nat /\ d \in Nat /\ d > 0
        OBVIOUS
      <3> HIDE DEF N
      <3>1. \E q \in Nat : N = d * q + (N % d)
        BY <3>0, ModQuotient
      <3> USE DEF N
      <3>2. QED
        BY <1>2, <3>1
    <2>2. PICK a \in Nat : d = 2 * a + 1
      <3>1. \E a \in Nat : d = 2 * a + (d % 2)
        OBVIOUS
      <3>2. d % 2 = 1
        BY <1>2
      <3>3. QED
        BY <3>1, <3>2
    <2>3. PICK b \in Nat : q = 2 * b \/ q = 2 * b + 1
      <3>1. \E b \in Nat : q = 2 * b + (q % 2)
        OBVIOUS
      <3>2. q % 2 \in {0, 1}
        OBVIOUS
      <3>3. QED
        BY <3>1, <3>2
    <2>4. q = 2 * b
      <3>1. SUFFICES ASSUME q = 2 * b + 1 PROVE FALSE
        BY <2>3
      <3>2. d * q = 2 * (2 * (a * b) + a + b) + 1
        BY <2>2, <3>1
      <3>3. a * b \in Nat
        OBVIOUS
      <3>4. QED
        BY <2>1, <3>2, <3>3
    <2>5. n = d * b
      BY <2>1, <2>4
    <2>6. n % d = 0 /\ d <= n
      BY <1>1, <2>5
    <2>7. QED
      BY <1>2, <2>6 DEF IsPow2
  <1>3. QED
    BY <1>1, <1>2 DEF IsPow2

-----------------------------------------------------------------------------
(***************************************************************************)
(* One map.                                                                *)
(***************************************************************************)
\* The record of a map, whose claimed slots have a value.
Shape(m) ==
  /\ m = [entries |-> m.entries, len |-> m.len, cap |-> m.cap]
  /\ m.cap \in Nat /\ m.len \in Nat
  /\ m.entries \in [0..(m.cap - 1) -> Entry]
  /\ \A i \in 0..(m.cap - 1) : m.entries[i].hash # 0 => m.entries[i].val # NullValue

Used(m) == {i \in 0..(m.cap - 1) : m.entries[i].hash # 0}

Room(m) == \E i \in 0..(m.cap - 1) : m.entries[i].hash = 0

\* i is where a probe for h stops.
Meets(m, h, i) ==
  /\ i \in 0..(m.cap - 1) /\ Stops(m, h, i)
  /\ \A j \in 0..(m.cap - 1) : Stops(m, h, j) => Distance(m, h, i) <= Distance(m, h, j)

\* Every claimed slot is where a probe for its hash stops.
AllMet(m) == \A i \in Used(m) : Meets(m, m.entries[i].hash, i)

\* Some slot holds the value w under k.
Holds(m, k, w) == \E i \in 0..(m.cap - 1) : m.entries[i].hash = k /\ m.entries[i].val = w

\* Hashes are numbers, and an entry's hash is one of them.
LEMMA HashIsNat ==
  ASSUME NEW m, Shape(m), NEW i \in 0..(m.cap - 1)
  PROVE  /\ m.entries[i] \in Entry /\ m.entries[i].hash \in Nat
         /\ m.entries[i].hash # 0 => m.entries[i].hash \in Hashes /\ m.entries[i].val \in Values
         /\ m.entries[i].val \in Values \cup {NullValue}
  BY HashAssumption DEF Shape, Entry

\* Distances are numbers, and no two slots have the same.
LEMMA Distances ==
  ASSUME NEW m, m.cap \in Nat, m.cap > 0, NEW h \in Nat,
         NEW i \in 0..(m.cap - 1), NEW j \in 0..(m.cap - 1)
  PROVE  /\ Distance(m, h, i) \in Nat
         /\ Distance(m, h, i) = Distance(m, h, j) => i = j
  <1> DEFINE c == m.cap
             r == h % c
  <1>1. c \in Nat /\ c > 0 /\ r \in 0..(c - 1)
    BY ModRange
  <1> DEFINE a == i + c - r
             b == j + c - r
  <1>2. Distance(m, h, i) = a % c /\ Distance(m, h, j) = b % c
    BY DEF Distance
  <1> HIDE DEF r, c
  <1>3. i \in 0..(c - 1) /\ j \in 0..(c - 1)
    BY DEF c
  <1>4. a \in Nat /\ a < 2 * c /\ b \in Nat /\ b < 2 * c /\ (a = b => i = j)
        /\ (a - b < c) /\ (b - a < c)
    BY <1>1, <1>3
  <1> HIDE DEF a, b
  <1>5. a % c = (IF a < c THEN a ELSE a - c) /\ b % c = IF b < c THEN b ELSE b - c
    BY <1>1, <1>4, ModSmall
  <1>6. a % c = b % c => a = b
    BY <1>1, <1>4, <1>5
  <1>7. QED
    BY <1>1, <1>2, <1>4, <1>5, <1>6

\* A probe stops at one slot only, and SlotOf is it.
LEMMA SlotIsFirst ==
  ASSUME NEW m, Shape(m), NEW h \in Nat, NEW i, Meets(m, h, i)
  PROVE  SlotOf(m, h) = i
  <1>1. DOMAIN m.entries = 0..(m.cap - 1) /\ m.cap \in Nat /\ m.cap > 0
    BY DEF Shape, Meets
  <1>2. SlotOf(m, h) = CHOOSE j : Meets(m, h, j)
    BY <1>1 DEF SlotOf, Meets
  <1>3. ASSUME NEW j, Meets(m, h, j) PROVE j = i
    <2>1. /\ i \in 0..(m.cap - 1) /\ j \in 0..(m.cap - 1)
          /\ Distance(m, h, i) <= Distance(m, h, j) /\ Distance(m, h, j) <= Distance(m, h, i)
      BY <1>3 DEF Meets
    <2>2. QED
      <3>1. Distance(m, h, i) \in Nat /\ Distance(m, h, j) \in Nat
        BY <1>1, <2>1, Distances
      <3>2. Distance(m, h, i) = Distance(m, h, j)
        BY <2>1, <3>1
      <3>3. QED
        BY <1>1, <2>1, <3>2, Distances
  <1>4. QED
    BY <1>2, <1>3

\* Where a slot is empty every probe stops.
LEMMA SlotExists ==
  ASSUME NEW m, Shape(m), NEW h \in Nat, Room(m)
  PROVE  Meets(m, h, SlotOf(m, h))
  <1> DEFINE A == {i \in 0..(m.cap - 1) : Stops(m, h, i)}
             D == {Distance(m, h, i) : i \in A}
  <1>1. m.cap \in Nat /\ m.cap > 0
    BY DEF Shape, Room
  <1>2. A # {}
    BY DEF Room, Stops
  <1>3. D \subseteq Nat /\ D # {}
    BY <1>1, <1>2, Distances
  <1>4. PICK d \in D : \A e \in D : d <= e
    <2> HIDE DEF D
    <2>1. QED
      BY <1>3, LeastElement
  <1>5. PICK i \in A : d = Distance(m, h, i)
    OBVIOUS
  <1>6. Meets(m, h, i)
    BY <1>4, <1>5 DEF Meets
  <1>7. QED
    BY <1>6, SlotIsFirst

\* The claimed slots are finitely many, and some slot is empty unless all are claimed.
LEMMA UsedFinite ==
  ASSUME NEW m, Shape(m)
  PROVE  /\ IsFiniteSet(Used(m)) /\ Cardinality(Used(m)) \in Nat
         /\ Cardinality(Used(m)) < m.cap => Room(m)
  <1> DEFINE D == 0..(m.cap - 1)
  <1>1. m.cap \in Nat
    BY DEF Shape
  <1>2. IsFiniteSet(D) /\ Cardinality(D) = m.cap
    BY <1>1, FS_Interval
  <1>3. Used(m) \subseteq D
    BY DEF Used
  <1>4. IsFiniteSet(Used(m)) /\ Cardinality(Used(m)) \in Nat
    BY <1>2, <1>3, FS_Subset, FS_CardinalityType
  <1>5. ~Room(m) => Used(m) = D
    BY DEF Room, Used
  <1>6. QED
    BY <1>1, <1>2, <1>4, <1>5

\* What a lookup returns.
LEMMA GetHeld ==
  ASSUME NEW m, Shape(m), AllMet(m), NEW k \in Nat, k # 0, NEW w, Holds(m, k, w), m.len # 0
  PROVE  map_get(m, k) = w /\ m.entries[SlotOf(m, k)].val = w
  <1>1. PICK i \in 0..(m.cap - 1) : m.entries[i].hash = k /\ m.entries[i].val = w
    BY DEF Holds
  <1>2. Meets(m, k, i)
    BY <1>1 DEF AllMet, Used
  <1>3. SlotOf(m, k) = i
    BY <1>2, SlotIsFirst
  <1>4. QED
    BY <1>1, <1>3 DEF map_get

\* A lookup under a hash that no slot holds finds nothing.
LEMMA GetAbsent ==
  ASSUME NEW m, Shape(m), NEW k \in Nat, Room(m), \A w : ~Holds(m, k, w)
  PROVE  map_get(m, k) = NullValue
  <1>1. Meets(m, k, SlotOf(m, k))
    BY SlotExists
  <1>2. m.entries[SlotOf(m, k)].hash # k
    BY <1>1 DEF Meets, Holds
  <1>3. QED
    BY <1>2 DEF map_get

-----------------------------------------------------------------------------
(***************************************************************************)
(* Storing in a map that has room.                                         *)
(***************************************************************************)
\* r is m with the value v stored under h in slot i.
Inserted(m, h, v, i, r) ==
  /\ Shape(r) /\ r.cap = m.cap
  /\ r.entries[i] = [hash |-> h, val |-> v]
  /\ \A j \in 0..(m.cap - 1) : j # i => r.entries[j] = m.entries[j]
  /\ r.len = IF m.entries[i].hash = 0 THEN m.len + 1 ELSE m.len

\* Only the slot of 0 may hold a value without being claimed.
Tidy(m) == \A i \in 0..(m.cap - 1) :
             m.entries[i].hash = 0 /\ m.entries[i].val # NullValue => Meets(m, 0, i)

\* Insert writes one slot and counts it if it was empty.
LEMMA InsertEffect ==
  ASSUME NEW m, Shape(m), Room(m), NEW h \in Hashes, NEW v \in Values
  PROVE  /\ Meets(m, h, SlotOf(m, h))
         /\ Inserted(m, h, v, SlotOf(m, h), Insert(m, h, v))
  <1> DEFINE i == SlotOf(m, h)
             e == [hash |-> h, val |-> v]
             E == [m.entries EXCEPT ![i] = e]
             n == IF m.entries[i].hash = 0 THEN m.len + 1 ELSE m.len
             r == Insert(m, h, v)
  <1>1. h \in Nat /\ v # NullValue
    BY HashAssumption, ValueAssumption
  <1>2. Meets(m, h, i)
    BY <1>1, SlotExists
  <1>3. i \in 0..(m.cap - 1) /\ m.cap \in Nat /\ m.len \in Nat
        /\ m.entries \in [0..(m.cap - 1) -> Entry]
        /\ m = [entries |-> m.entries, len |-> m.len, cap |-> m.cap]
    BY <1>2 DEF Meets, Shape
  <1>4. e \in Entry
    BY DEF Entry
  <1> HIDE DEF i
  <1>5. r = [m EXCEPT !.entries[i] = e, !.len = n]
    BY DEF Insert, i
  <1> HIDE DEF e, n, r
  <1>6. r = [entries |-> E, len |-> n, cap |-> m.cap]
    <2> DEFINE a == [m EXCEPT !.entries[i] = e]
    <2>1. a = [entries |-> E, len |-> m.len, cap |-> m.cap]
      BY <1>3
    <2>2. r = [a EXCEPT !.len = n]
      BY <1>5
    <2> HIDE DEF a, E
    <2>3. QED
      BY <2>1, <2>2
  <1>7. /\ E \in [0..(m.cap - 1) -> Entry] /\ E[i] = e
        /\ \A j \in 0..(m.cap - 1) : j # i => E[j] = m.entries[j]
    BY <1>3, <1>4
  <1> HIDE DEF E
  <1>8. r.entries = E /\ r.len = n /\ r.cap = m.cap
    BY <1>6
  <1>9. n \in Nat /\ e.val # NullValue
    BY <1>1, <1>3 DEF n, e
  <1>10. Shape(r)
    BY <1>3, <1>6, <1>7, <1>8, <1>9 DEF Shape
  <1>11. QED
    BY <1>2, <1>7, <1>8, <1>10 DEF Inserted, i, e, n, r

\* Storing keeps every claimed slot where a probe stops.
LEMMA InsertPlaced ==
  ASSUME NEW m, Shape(m), AllMet(m), NEW h \in Hashes, NEW v \in Values,
         NEW i, Meets(m, h, i), NEW r, Inserted(m, h, v, i, r)
  PROVE  AllMet(r)
  <1>1. /\ i \in 0..(m.cap - 1) /\ r.cap = m.cap /\ m.entries[i].hash \in {0, h}
        /\ r.entries[i].hash = h /\ Shape(r)
        /\ \A j \in 0..(m.cap - 1) : j # i => r.entries[j].hash = m.entries[j].hash
    BY DEF Meets, Stops, Inserted
  <1>2. \A k, j : Distance(r, k, j) = Distance(m, k, j)
    BY <1>1 DEF Distance
  <1>3. ASSUME NEW j \in Used(r) PROVE Meets(r, r.entries[j].hash, j)
    <2>1. CASE j = i
      <3>1. \A x \in 0..(m.cap - 1) : Stops(r, h, x) => Stops(m, h, x)
        BY <1>1 DEF Stops
      <3>2. QED
        BY <1>1, <1>2, <2>1, <3>1 DEF Meets, Stops
    <2>2. CASE j # i
      <3> DEFINE k == r.entries[j].hash
      <3>1. /\ j \in Used(m) /\ k = m.entries[j].hash /\ k # 0 /\ k \in Nat
            /\ j \in 0..(m.cap - 1)
        BY <1>1, <2>2, HashIsNat DEF Used
      <3>2. Meets(m, k, j)
        BY <3>1 DEF AllMet
      <3>3. h # k
        <4>1. h \in Nat
          BY HashAssumption
        <4>2. QED
          BY <2>2, <3>1, <3>2, <4>1, SlotIsFirst
      <3>4. \A x \in 0..(m.cap - 1) : Stops(r, k, x) => Stops(m, k, x)
        BY <1>1, <3>3 DEF Stops
      <3>5. Stops(r, k, j)
        BY DEF Stops
      <3>6. QED
        BY <1>1, <1>2, <3>1, <3>2, <3>4, <3>5 DEF Meets
    <2>3. QED
      BY <2>1, <2>2
  <1>4. QED
    BY <1>3 DEF AllMet

\* What a map holds after storing: v under h, and everything else as before.
LEMMA InsertHolds ==
  ASSUME NEW m, Shape(m), AllMet(m), NEW h \in Hashes, NEW v \in Values,
         NEW i, Meets(m, h, i), NEW r, Inserted(m, h, v, i, r),
         NEW k \in Nat, k # 0, NEW w
  PROVE  Holds(r, k, w) <=> IF k = h THEN w = v ELSE Holds(m, k, w)
  <1>1. /\ i \in 0..(m.cap - 1) /\ r.cap = m.cap /\ m.entries[i].hash \in {0, h}
        /\ r.entries[i].hash = h /\ r.entries[i].val = v
        /\ \A j \in 0..(m.cap - 1) : j # i => r.entries[j] = m.entries[j]
    BY DEF Meets, Stops, Inserted
  <1>2. CASE k = h
    <2>1. ASSUME NEW j \in 0..(m.cap - 1), r.entries[j].hash = h PROVE j = i
      <3>1. SUFFICES ASSUME j # i PROVE FALSE
        OBVIOUS
      <3>2. j \in Used(m) /\ m.entries[j].hash = h
        BY <1>1, <1>2, <2>1, <3>1 DEF Used
      <3>3. Meets(m, h, j)
        BY <3>2 DEF AllMet
      <3>4. QED
        BY <1>2, <3>1, <3>3, SlotIsFirst
    <2>2. QED
      BY <1>1, <1>2, <2>1 DEF Holds
  <1>3. CASE k # h
    BY <1>1, <1>3 DEF Holds
  <1>4. QED
    BY <1>2, <1>3

\* The slot of 0 stays the only one that may hold a value without being claimed.
LEMMA InsertTidy ==
  ASSUME NEW m, Shape(m), Tidy(m), NEW h \in Hashes, NEW v \in Values,
         NEW i, Meets(m, h, i), NEW r, Inserted(m, h, v, i, r)
  PROVE  Tidy(r)
  <1>1. /\ i \in 0..(m.cap - 1) /\ r.cap = m.cap /\ m.entries[i].hash \in {0, h}
        /\ r.entries[i].hash = h /\ Shape(r)
        /\ \A j \in 0..(m.cap - 1) : j # i => r.entries[j] = m.entries[j]
    BY DEF Meets, Stops, Inserted
  <1>2. \A k, j : Distance(r, k, j) = Distance(m, k, j)
    BY <1>1 DEF Distance
  <1>3. \A j \in 0..(m.cap - 1) : Stops(r, 0, j) => Stops(m, 0, j)
    BY <1>1 DEF Stops
  <1>4. ASSUME NEW x \in 0..(m.cap - 1), Meets(m, 0, x), r.entries[x].hash = 0
        PROVE  Meets(r, 0, x)
    BY <1>1, <1>2, <1>3, <1>4 DEF Meets, Stops
  <1>5. ASSUME NEW x \in 0..(m.cap - 1), r.entries[x].hash = 0, r.entries[x].val # NullValue
        PROVE  Meets(m, 0, x)
    <2>1. CASE x = i
      BY <1>1, <1>5, <2>1
    <2>2. CASE x # i
      BY <1>1, <1>5, <2>2 DEF Tidy
    <2>3. QED
      BY <2>1, <2>2
  <1>6. QED
    BY <1>1, <1>4, <1>5 DEF Tidy

\* Storing claims the slot, unless the hash is 0 or the slot was claimed.
LEMMA InsertUsed ==
  ASSUME NEW m, Shape(m), NEW h \in Hashes, NEW v \in Values,
         NEW i, Meets(m, h, i), NEW r, Inserted(m, h, v, i, r)
  PROVE  /\ h # 0 /\ m.entries[i].hash = 0 => Cardinality(Used(r)) = Cardinality(Used(m)) + 1
         /\ h = 0 \/ m.entries[i].hash # 0 => Cardinality(Used(r)) = Cardinality(Used(m))
  <1>1. /\ i \in 0..(m.cap - 1) /\ r.cap = m.cap /\ m.entries[i].hash \in {0, h}
        /\ r.entries[i].hash = h
        /\ \A j \in 0..(m.cap - 1) : j # i => r.entries[j] = m.entries[j]
    BY DEF Meets, Stops, Inserted
  <1>2. CASE h # 0 /\ m.entries[i].hash = 0
    <2>1. Used(r) = Used(m) \cup {i} /\ i \notin Used(m)
      BY <1>1, <1>2 DEF Used
    <2>2. QED
      BY <1>2, <2>1, UsedFinite, FS_AddElement
  <1>3. CASE ~(h # 0 /\ m.entries[i].hash = 0)
    <2>1. Used(r) = Used(m)
      BY <1>1, <1>3 DEF Used
    <2>2. QED
      BY <1>3, <2>1
  <1>4. QED
    BY <1>2, <1>3

-----------------------------------------------------------------------------
(***************************************************************************)
(* Growing.                                                                *)
(***************************************************************************)
\* No empty slot holds a value.
Clean(m) == \A i \in 0..(m.cap - 1) : m.entries[i].hash = 0 => m.entries[i].val = NullValue

\* What the loop of map_grow does with slot i.
Reinsert(m, i, g) ==
  IF m.entries[i].hash = 0 THEN g ELSE Insert(g, m.entries[i].hash, m.entries[i].val)

\* The new maps, by how many slots have been moved.
Growth(m, c, n, f) == [i \in 0..n |-> IF i = 0 THEN NewMap(c) ELSE Reinsert(m, i - 1, f[i - 1])]

\* The first i slots of m have been moved to g.
Moved(m, c, i, g) ==
  /\ Shape(g) /\ g.cap = c /\ AllMet(g) /\ Clean(g)
  /\ g.len = Cardinality(Used(g)) /\ g.len = Cardinality({j \in Used(m) : j < i})
  /\ \A k \in Nat \ {0} : \A w :
        Holds(g, k, w) <=> \E j \in 0..(i - 1) : m.entries[j].hash = k /\ m.entries[j].val = w

\* The loop has a run.
LEMMA GrowthExists ==
  ASSUME NEW m, m.cap \in Nat, NEW c
  PROVE  \E f : f = Growth(m, c, m.cap, f)
  <1> DEFINE G(n, f) == f = Growth(m, c, n, f)
             S == {n \in 0..m.cap : \E f : G(n, f)}
  <1>1. 0 \in S
    <2>1. G(0, [i \in 0..0 |-> NewMap(c)])
      BY DEF Growth
    <2>2. QED
      BY <2>1
  <1>2. ASSUME NEW n \in 0..(m.cap - 1), n \in S PROVE n + 1 \in S
    <2>1. PICK f : G(n, f)
      BY <1>2
    <2> DEFINE e == [i \in 0..(n + 1) |-> IF i = n + 1 THEN Reinsert(m, n, f[n]) ELSE f[i]]
    <2>2. \A i \in 0..n : e[i] = f[i]
      OBVIOUS
    <2>3. \A i \in 0..n : f[i] = IF i = 0 THEN NewMap(c) ELSE Reinsert(m, i - 1, f[i - 1])
      BY <2>1 DEF Growth
    <2>4. ASSUME NEW i \in 0..(n + 1)
          PROVE  e[i] = IF i = 0 THEN NewMap(c) ELSE Reinsert(m, i - 1, e[i - 1])
      <3>1. CASE i = n + 1
        <4>1. i # 0 /\ i - 1 = n /\ n \in 0..n /\ e[i] = Reinsert(m, n, f[n])
          BY <3>1
        <4>2. e[i - 1] = f[n]
          BY <2>2, <4>1
        <4>3. QED
          BY <4>1, <4>2
      <3>2. CASE i # n + 1 /\ i # 0
        <4>1. i \in 0..n /\ i - 1 \in 0..n
          BY <3>2
        <4>2. e[i] = f[i] /\ e[i - 1] = f[i - 1]
          BY <2>2, <4>1
        <4>3. QED
          BY <2>3, <3>2, <4>1, <4>2
      <3>3. CASE i = 0
        <4>1. i \in 0..n
          BY <3>3
        <4>2. QED
          BY <2>2, <2>3, <3>3, <4>1
      <3>4. QED
        BY <3>1, <3>2, <3>3
    <2> HIDE DEF e
    <2>5. e = [i \in 0..(n + 1) |-> e[i]]
      BY DEF e
    <2>6. G(n + 1, e)
      BY <2>4, <2>5 DEF Growth
    <2>7. QED
      BY <2>6
  <1> HIDE DEF S
  <1>3. 0..m.cap \subseteq S
    BY <1>1, <1>2, BoundedInduction
  <1>4. m.cap \in S
    BY <1>3
  <1>5. QED
    BY <1>4 DEF S

\* A new map is empty.
LEMMA MovedNone ==
  ASSUME NEW m, Shape(m), NEW c \in Nat
  PROVE  Moved(m, c, 0, NewMap(c))
  <1> DEFINE g == NewMap(c)
  <1>1. g = [entries |-> g.entries, len |-> g.len, cap |-> g.cap]
        /\ g.cap = c /\ g.len = 0 /\ g.entries \in [0..(c - 1) -> Entry]
        /\ \A i \in 0..(c - 1) : g.entries[i].hash = 0 /\ g.entries[i].val = NullValue
    BY DEF NewMap, Empty, Entry
  <1> HIDE DEF g
  <1>2. Used(g) = {} /\ {j \in Used(m) : j < 0} = {}
    <2>1. \A j \in Used(m) : ~(j < 0)
      BY DEF Used, Shape
    <2>2. QED
      BY <1>1, <2>1 DEF Used
  <1>3. Shape(g) /\ AllMet(g) /\ Clean(g)
    BY <1>1, <1>2 DEF Shape, AllMet, Clean
  <1>4. g.len = Cardinality(Used(g)) /\ g.len = Cardinality({j \in Used(m) : j < 0})
    BY <1>1, <1>2, FS_EmptySet
  <1>5. \A k \in Nat \ {0} : \A w :
          Holds(g, k, w) <=> \E j \in 0..(0 - 1) : m.entries[j].hash = k /\ m.entries[j].val = w
    BY <1>1 DEF Holds
  <1>6. QED
    BY <1>1, <1>3, <1>4, <1>5 DEF Moved, g

\* One more slot is moved: its hash is not in the new map yet, and there is room.
LEMMA MovedOne ==
  ASSUME NEW m, Shape(m), AllMet(m), NEW c \in Nat, Cardinality(Used(m)) < c,
         NEW i \in 0..(m.cap - 1), NEW g, Moved(m, c, i, g)
  PROVE  Moved(m, c, i + 1, Reinsert(m, i, g))
  <1> DEFINE h == m.entries[i].hash
             v == m.entries[i].val
             r == Reinsert(m, i, g)
             L(n) == {j \in Used(m) : j < n}
             M(n, k, w) == \E j \in 0..(n - 1) : m.entries[j].hash = k /\ m.entries[j].val = w
  <1>1. /\ Shape(g) /\ g.cap = c /\ AllMet(g) /\ Clean(g) /\ m.cap \in Nat
        /\ g.len = Cardinality(Used(g)) /\ g.len = Cardinality(L(i))
        /\ \A k \in Nat \ {0} : \A w : Holds(g, k, w) <=> M(i, k, w)
    BY DEF Moved, Shape
  <1>2. \A j \in Used(m) : j \in 0..(m.cap - 1)
    BY DEF Used
  <1>3. \A k, w : M(i + 1, k, w) <=> M(i, k, w) \/ (h = k /\ v = w)
    <2>1. \A j : j \in 0..((i + 1) - 1) <=> j \in 0..(i - 1) \/ j = i
      OBVIOUS
    <2>2. QED
      BY <2>1
  <1>4. CASE h = 0
    <2>1. r = g
      BY <1>4 DEF Reinsert
    <2>2. L(i + 1) = L(i)
      BY <1>2, <1>4 DEF Used
    <2>3. \A k \in Nat \ {0} : \A w : M(i + 1, k, w) <=> M(i, k, w)
      BY <1>3, <1>4
    <2>4. g.len = Cardinality(L(i + 1))
      BY <1>1, <2>2
    <2>5. \A k \in Nat \ {0} : \A w : Holds(g, k, w) <=> M(i + 1, k, w)
      <3> HIDE DEF M
      <3>1. QED
        BY <1>1, <2>3
    <2>6. Moved(m, c, i + 1, g)
      BY <1>1, <2>4, <2>5 DEF Moved
    <2>7. QED
      BY <2>1, <2>6
  <1>5. CASE h # 0
    <2>1. h \in Hashes /\ h \in Nat /\ v \in Values /\ v # NullValue
      BY <1>5, HashIsNat, HashAssumption, ValueAssumption
    <2>2. L(i + 1) = L(i) \cup {i} /\ i \notin L(i) /\ L(i) \subseteq Used(m)
      BY <1>2, <1>5 DEF Used
    <2>3. /\ IsFiniteSet(L(i)) /\ Cardinality(L(i)) <= Cardinality(Used(m))
          /\ Cardinality(L(i)) \in Nat /\ Cardinality(Used(m)) \in Nat
          /\ Cardinality(L(i + 1)) = Cardinality(L(i)) + 1
      <3> HIDE DEF L
      <3>1. QED
        BY <2>2, UsedFinite, FS_Subset, FS_CardinalityType, FS_AddElement
    <2>4. Room(g)
      <3>1. Cardinality(Used(g)) < g.cap
        BY <1>1, <2>3
      <3>2. QED
        BY <1>1, <3>1, UsedFinite
    <2> DEFINE p == SlotOf(g, h)
    <2>5. r = Insert(g, h, v)
      BY <1>5 DEF Reinsert
    <2>6. Meets(g, h, p) /\ Inserted(g, h, v, p, r)
      BY <1>1, <2>1, <2>4, <2>5, InsertEffect
    <2> HIDE DEF p, r
    <2>7. g.entries[p].hash = 0
      <3>1. SUFFICES ASSUME g.entries[p].hash = h PROVE FALSE
        BY <2>6 DEF Meets, Stops
      <3>2. \E w : Holds(g, h, w)
        BY <2>6, <3>1 DEF Holds, Meets
      <3>3. PICK j \in 0..(i - 1) : m.entries[j].hash = h
        BY <1>1, <1>5, <2>1, <3>2
      <3>4. j \in Used(m) /\ i \in Used(m) /\ j # i
        BY <1>1, <1>5, <3>3 DEF Used
      <3>5. Meets(m, h, j) /\ Meets(m, h, i)
        BY <3>3, <3>4 DEF AllMet
      <3>6. QED
        BY <2>1, <3>4, <3>5, SlotIsFirst
    <2>8. Shape(r) /\ r.cap = c /\ AllMet(r)
      BY <1>1, <2>1, <2>6, InsertPlaced DEF Inserted
    <2>9. Clean(r)
      <3>1. /\ r.entries[p].hash = h /\ r.cap = g.cap
            /\ \A j \in 0..(g.cap - 1) : j # p => r.entries[j] = g.entries[j]
        BY <2>6 DEF Inserted
      <3>2. QED
        BY <1>1, <1>5, <3>1 DEF Clean
    <2>10. Cardinality(Used(r)) = Cardinality(Used(g)) + 1
      <3> HIDE DEF h, v
      <3>1. h # 0 /\ g.entries[p].hash = 0 => Cardinality(Used(r)) = Cardinality(Used(g)) + 1
        <4>1. Shape(g) /\ h \in Hashes /\ v \in Values
          BY <1>1, <2>1
        <4>2. QED
          BY <2>6, <4>1, InsertUsed
      <3>2. QED
        BY <1>5, <2>7, <3>1
    <2>11. r.len = g.len + 1
      BY <2>6, <2>7 DEF Inserted
    <2>12. \A k \in Nat \ {0} : \A w : Holds(r, k, w) <=> M(i + 1, k, w)
      <3>1. ASSUME NEW k \in Nat \ {0}, NEW w PROVE Holds(r, k, w) <=> M(i + 1, k, w)
        <4>1. Holds(r, k, w) <=> IF k = h THEN w = v ELSE Holds(g, k, w)
          BY <1>1, <2>1, <2>6, InsertHolds
        <4>2. k = h => ~M(i, k, w)
          <5>1. SUFFICES ASSUME k = h, M(i, k, w) PROVE FALSE
            OBVIOUS
          <5>2. PICK j \in 0..(i - 1) : m.entries[j].hash = h
            BY <5>1
          <5>3. j \in Used(m) /\ i \in Used(m) /\ j # i
            BY <1>1, <1>5, <5>2 DEF Used
          <5>4. Meets(m, h, j) /\ Meets(m, h, i)
            BY <5>2, <5>3 DEF AllMet
          <5>5. QED
            BY <2>1, <5>3, <5>4, SlotIsFirst
        <4> HIDE DEF h, v, M
        <4>3. QED
          BY <1>1, <1>3, <4>1, <4>2
      <3>2. QED
        BY <3>1
    <2>13. r.len = Cardinality(Used(r)) /\ r.len = Cardinality(L(i + 1))
      BY <1>1, <2>3, <2>10, <2>11
    <2>14. QED
      BY <2>8, <2>9, <2>12, <2>13 DEF Moved, r
  <1>6. QED
    BY <1>4, <1>5

\* Growing keeps what the map holds, leaves no value in an empty slot, and
\* counts the claimed slots anew.
LEMMA Grown ==
  ASSUME NEW m, Shape(m), AllMet(m), NEW a \in Nat,
         NEW c \in Nat, c = IF a < MinCap THEN MinCap ELSE a, Cardinality(Used(m)) < c
  PROVE  /\ Shape(map_grow(m, a)) /\ map_grow(m, a).cap = c
         /\ AllMet(map_grow(m, a)) /\ Clean(map_grow(m, a))
         /\ map_grow(m, a).len = Cardinality(Used(map_grow(m, a)))
         /\ map_grow(m, a).len = Cardinality(Used(m))
         /\ \A k \in Nat \ {0} : \A w : Holds(map_grow(m, a), k, w) <=> Holds(m, k, w)
  <1> DEFINE f == CHOOSE f : f = Growth(m, c, m.cap, f)
             S == {i \in 0..m.cap : Moved(m, c, i, f[i])}
  <1>1. m.cap \in Nat
    BY DEF Shape
  <1>2. map_grow(m, a) = f[m.cap]
    BY DEF map_grow, Growth, Reinsert
  <1>3. f = Growth(m, c, m.cap, f)
    BY <1>1, GrowthExists
  <1> HIDE DEF f
  <1>4. \A i \in 0..m.cap : f[i] = IF i = 0 THEN NewMap(c) ELSE Reinsert(m, i - 1, f[i - 1])
    BY <1>3 DEF Growth
  <1>5. 0 \in S
    BY <1>1, <1>4, MovedNone
  <1>6. ASSUME NEW i \in 0..(m.cap - 1), i \in S PROVE i + 1 \in S
    <2>1. i + 1 \in 0..m.cap /\ i + 1 # 0 /\ (i + 1) - 1 = i
      BY <1>1
    <2>2. f[i + 1] = Reinsert(m, i, f[i])
      BY <1>4, <2>1
    <2>3. Moved(m, c, i + 1, Reinsert(m, i, f[i]))
      BY <1>6, MovedOne
    <2>4. QED
      BY <2>1, <2>2, <2>3
  <1>7. m.cap \in S
    <2> HIDE DEF S
    <2>1. 0..m.cap \subseteq S
      BY <1>1, <1>5, <1>6, BoundedInduction
    <2>2. QED
      BY <1>1, <2>1
  <1>8. Moved(m, c, m.cap, map_grow(m, a))
    BY <1>2, <1>7
  <1> DEFINE r == map_grow(m, a)
  <1> HIDE DEF r
  <1>9. Moved(m, c, m.cap, r)
    BY <1>8 DEF r
  <1>10. {j \in Used(m) : j < m.cap} = Used(m)
    BY <1>1 DEF Used
  <1>11. \A k \in Nat \ {0} : \A w : Holds(r, k, w) <=> Holds(m, k, w)
    BY <1>9 DEF Moved, Holds
  <1>12. QED
    BY <1>9, <1>10, <1>11 DEF Moved, r

-----------------------------------------------------------------------------
(***************************************************************************)
(* The steps.                                                              *)
(***************************************************************************)
\* The inductive invariant: besides MapInv, the capacity is never 1 (a map of one
\* slot would fill up), only the slot of 0 holds a value without being claimed,
\* and a map that counts nothing has no such slot.
Sound(m) ==
  /\ Shape(m) /\ AllMet(m) /\ Tidy(m)
  /\ m.cap = 0 \/ (IsPow2(m.cap) /\ m.cap > 1)
  /\ Cardinality(Used(m)) <= m.len /\ 2 * m.len <= m.cap
  /\ m.len = 0 => Clean(m)

MapIInv == Sound(map) /\ answer \in (Hashes \X (Values \cup {NullValue})) \cup {<< >>}

\* What map_put_hash stores into: the map itself, or the grown one.
Ready(m) == IF Full(m) THEN map_grow(m, 2 * m.cap) ELSE m

\* A map that is claimed somewhere counts something.
LEMMA UsedCounted ==
  ASSUME NEW m, Shape(m), Cardinality(Used(m)) <= m.len, NEW i \in Used(m)
  PROVE  m.len # 0
  <1>1. IsFiniteSet(Used(m)) /\ Used(m) # {} /\ Cardinality(Used(m)) \in Nat
    BY UsedFinite
  <1>2. Cardinality(Used(m)) # 0
    BY <1>1, FS_EmptySet
  <1>3. QED
    BY <1>1, <1>2 DEF Shape

\* There is room for one more, and growing has changed nothing the map holds.
LEMMA ReadyForMore ==
  ASSUME NEW m, Sound(m), NEW r, r = Ready(m)
  PROVE  /\ Shape(r) /\ AllMet(r) /\ Tidy(r) /\ Room(r)
         /\ IsPow2(r.cap) /\ r.cap > 1
         /\ Cardinality(Used(r)) <= r.len /\ 2 * r.len + 2 <= r.cap
         /\ r = m \/ (Clean(r) /\ r.len = Cardinality(Used(r)))
         /\ \A k \in Nat \ {0} : \A w : Holds(r, k, w) <=> Holds(m, k, w)
  <1>1. /\ m.cap \in Nat /\ m.len \in Nat /\ Shape(m) /\ AllMet(m)
        /\ Cardinality(Used(m)) \in Nat /\ Cardinality(Used(m)) <= m.len
        /\ 2 * m.len <= m.cap
    BY UsedFinite DEF Sound, Shape
  <1>2. CASE ~Full(m)
    <2>1. r = m /\ 2 * m.len < m.cap
      BY <1>1, <1>2 DEF Ready, Full
    <2>2. m.cap % 2 = 0 /\ IsPow2(m.cap) /\ m.cap > 1
      BY <1>1, <2>1, PowerEven DEF Sound
    <2>3. \E q \in Nat : m.cap = 2 * q + (m.cap % 2)
      BY <1>1, ModQuotient
    <2>4. 2 * m.len + 2 <= m.cap
      BY <1>1, <2>1, <2>2, <2>3
    <2>5. Room(m)
      BY <1>1, <2>4, UsedFinite
    <2>6. QED
      BY <2>1, <2>2, <2>4, <2>5 DEF Sound
  <1>3. CASE Full(m)
    <2> DEFINE c == IF 2 * m.cap < MinCap THEN MinCap ELSE 2 * m.cap
    <2>1. 2 * m.cap \in Nat /\ c \in Nat /\ c > 1 /\ 2 * m.cap <= c /\ c >= MinCap
      BY <1>1, CapAssumption DEF Sound
    <2>2. IsPow2(c)
      <3>1. CASE m.cap = 0
        BY <3>1, CapAssumption
      <3>2. CASE m.cap # 0
        BY <1>1, <3>2, CapAssumption, PowerDoubled DEF Sound
      <3>3. QED
        BY <3>1, <3>2
    <2>3. Cardinality(Used(m)) < c
      BY <1>1, <2>1, CapAssumption
    <2>4. r = map_grow(m, 2 * m.cap)
      BY <1>3 DEF Ready
    <2> DEFINE a == 2 * m.cap
    <2>4a. a \in Nat /\ r = map_grow(m, a) /\ c = IF a < MinCap THEN MinCap ELSE a
      BY <2>1, <2>4
    <2> HIDE DEF c, a
    <2>5. /\ Shape(r) /\ r.cap = c /\ AllMet(r) /\ Clean(r)
          /\ r.len = Cardinality(Used(r)) /\ r.len = Cardinality(Used(m))
          /\ \A k \in Nat \ {0} : \A w : Holds(r, k, w) <=> Holds(m, k, w)
      BY <1>1, <2>1, <2>3, <2>4a, Grown
    <2>6. 2 * r.len + 2 <= r.cap
      <3>1. CASE m.cap = 0
        BY <1>1, <2>1, <2>5, <3>1
      <3>2. CASE m.cap # 0
        <4>1. m.cap > 1
          BY <3>2 DEF Sound
        <4>2. QED
          BY <1>1, <2>1, <2>5, <4>1
      <3>3. QED
        BY <3>1, <3>2
    <2>7. Tidy(r)
      BY <2>5 DEF Clean, Tidy
    <2>8. Room(r)
      <3>1. Cardinality(Used(r)) < r.cap /\ r.len \in Nat
        <4>1. r.len \in Nat /\ r.cap \in Nat
          BY <1>1, <2>1, <2>5
        <4>2. r.len < r.cap
          BY <2>6, <4>1
        <4>3. QED
          BY <2>5, <4>1, <4>2
      <3>2. QED
        BY <2>5, <3>1, UsedFinite
    <2>9. Cardinality(Used(r)) <= r.len
      BY <1>1, <2>5
    <2>10. QED
      BY <2>1, <2>2, <2>5, <2>6, <2>7, <2>8, <2>9
  <1>4. QED
    BY <1>2, <1>3

\* map_put_hash as the lemmas about storing see it.
LEMMA PutEffect ==
  ASSUME NEW m, Sound(m), NEW h \in Hashes, NEW v \in Values
  PROVE  \E i : /\ Meets(Ready(m), h, i)
                /\ Inserted(Ready(m), h, v, i, map_put_hash(m, h, v))
  <1> DEFINE r == Ready(m)
  <1>1. map_put_hash(m, h, v) = Insert(r, h, v)
    BY DEF map_put_hash, Ready
  <1> HIDE DEF r
  <1>2. Shape(r) /\ Room(r)
    BY ReadyForMore DEF r
  <1>3. Meets(r, h, SlotOf(r, h)) /\ Inserted(r, h, v, SlotOf(r, h), Insert(r, h, v))
    BY <1>2, InsertEffect
  <1>4. QED
    BY <1>1, <1>3 DEF r

\* Storing keeps a map sound, and counts rightly unless the hash is 0.
LEMMA PutSound ==
  ASSUME NEW m, Sound(m), NEW h \in Hashes, NEW v \in Values, NEW r, r = map_put_hash(m, h, v)
  PROVE  /\ Sound(r) /\ r.len # 0
         /\ h # 0 => r.len - Cardinality(Used(r)) \in {m.len - Cardinality(Used(m)), 0}
  <1> DEFINE g == Ready(m)
  <1>1. PICK i : Meets(g, h, i) /\ Inserted(g, h, v, i, r)
    BY PutEffect
  <1>2. /\ Shape(g) /\ AllMet(g) /\ Tidy(g)
        /\ IsPow2(g.cap) /\ g.cap > 1
        /\ Cardinality(Used(g)) <= g.len /\ 2 * g.len + 2 <= g.cap
        /\ g = m \/ g.len = Cardinality(Used(g))
    BY ReadyForMore
  <1> HIDE DEF g
  <1>3. /\ Shape(r) /\ r.cap = g.cap
        /\ r.len = IF g.entries[i].hash = 0 THEN g.len + 1 ELSE g.len
        /\ i \in 0..(g.cap - 1)
    BY <1>1 DEF Inserted, Meets
  <1>4. AllMet(r) /\ Tidy(r)
    BY <1>1, <1>2, InsertPlaced, InsertTidy
  <1>5. /\ h # 0 /\ g.entries[i].hash = 0 => Cardinality(Used(r)) = Cardinality(Used(g)) + 1
        /\ h = 0 \/ g.entries[i].hash # 0 => Cardinality(Used(r)) = Cardinality(Used(g))
    BY <1>1, <1>2, InsertUsed
  <1>6. g.len \in Nat /\ r.len \in Nat /\ g.cap \in Nat /\ Cardinality(Used(g)) \in Nat
    BY <1>2, <1>3, UsedFinite DEF Shape
  <1>7. r.len # 0
    <2>1. CASE g.entries[i].hash = 0
      BY <1>3, <1>6, <2>1
    <2>2. CASE g.entries[i].hash # 0
      <3>1. i \in Used(g)
        BY <1>3, <2>2 DEF Used
      <3>2. QED
        BY <1>2, <1>3, <2>2, <3>1, UsedCounted
    <2>3. QED
      BY <2>1, <2>2
  <1>8. Cardinality(Used(r)) <= r.len /\ 2 * r.len <= r.cap
    BY <1>2, <1>3, <1>5, <1>6
  <1>9. ASSUME h # 0
        PROVE  r.len - Cardinality(Used(r)) \in {m.len - Cardinality(Used(m)), 0}
    <2>1. r.len - Cardinality(Used(r)) = g.len - Cardinality(Used(g))
      BY <1>3, <1>5, <1>6, <1>9
    <2>2. g.len - Cardinality(Used(g)) \in {m.len - Cardinality(Used(m)), 0}
      BY <1>2, <1>6
    <2>3. QED
      BY <2>1, <2>2
  <1>10. QED
    BY <1>2, <1>3, <1>4, <1>7, <1>8, <1>9 DEF Sound

\* An empty map is sound.
LEMMA EmptySound == Sound(NewMap(0)) /\ Used(NewMap(0)) = {} /\ NewMap(0).len = 0
  <1> DEFINE m == NewMap(0)
  <1>1. m.cap = 0 /\ m.len = 0 /\ m = [entries |-> m.entries, len |-> m.len, cap |-> m.cap]
        /\ m.entries \in [0..(0 - 1) -> Entry]
    BY DEF NewMap
  <1> HIDE DEF m
  <1>2. Used(m) = {} /\ 0..(m.cap - 1) = {}
    BY <1>1 DEF Used
  <1>3. Cardinality(Used(m)) = 0
    BY <1>2, FS_EmptySet
  <1>4. Shape(m) /\ AllMet(m) /\ Tidy(m) /\ Clean(m)
    BY <1>1, <1>2 DEF Shape, AllMet, Tidy, Clean
  <1>5. QED
    BY <1>1, <1>2, <1>3, <1>4 DEF Sound, m

\* What the run checks of a sound map.
LEMMA SoundMaps ==
  ASSUME MapIInv
  PROVE  MapInv
  <1>1. Shape(map) /\ Claimed = Used(map) /\ DOMAIN map.entries = 0..(map.cap - 1)
    BY DEF MapIInv, Sound, Shape, Claimed, Used
  <1>2. MapTypeOK
    BY <1>1 DEF MapTypeOK, MapIInv, Shape
  <1>3. LoadBounded
    BY <1>1 DEF LoadBounded, MapIInv, Sound
  <1>4. EveryEntryFound
    <2>1. ASSUME NEW i \in Used(map) PROVE SlotOf(map, map.entries[i].hash) = i
      <3>1. Meets(map, map.entries[i].hash, i) /\ i \in 0..(map.cap - 1)
        BY DEF MapIInv, Sound, AllMet, Used
      <3>2. map.entries[i].hash \in Nat
        BY <1>1, <3>1, HashIsNat
      <3>3. QED
        BY <1>1, <3>1, <3>2, SlotIsFirst
    <2>2. QED
      BY <1>1, <2>1 DEF EveryEntryFound
  <1>5. QED
    BY <1>2, <1>3, <1>4 DEF MapInv

\* What a lookup returns is a stored value or null.
LEMMA GetType ==
  ASSUME NEW m, Sound(m), NEW h \in Hashes
  PROVE  map_get(m, h) \in Values \cup {NullValue}
  <1>1. CASE m.len = 0
    BY <1>1 DEF map_get
  <1>2. CASE m.len # 0
    <2>1. Shape(m) /\ m.cap \in Nat /\ m.len \in Nat /\ m.len > 0 /\ 2 * m.len <= m.cap
          /\ Cardinality(Used(m)) <= m.len /\ Cardinality(Used(m)) \in Nat
      BY <1>2, UsedFinite DEF Sound, Shape
    <2>2. Room(m) /\ h \in Nat
      BY <2>1, UsedFinite, HashAssumption
    <2>3. SlotOf(m, h) \in 0..(m.cap - 1)
      BY <2>1, <2>2, SlotExists DEF Meets
    <2>4. QED
      BY <2>1, <2>3, HashIsNat DEF map_get
  <1>3. QED
    BY <1>1, <1>2

\* Sound maps stay sound.
LEMMA StepSound ==
  ASSUME MapIInv, [MapNext]_map_vars
  PROVE  MapIInv'
  <1>1. ASSUME NEW h \in Hashes, NEW v \in Values, put(h, v) PROVE MapIInv'
    BY <1>1, PutSound DEF MapIInv, put
  <1>2. ASSUME NEW h \in Hashes, get(h) PROVE MapIInv'
    BY <1>2, GetType DEF MapIInv, get
  <1>3. CASE map_free
    BY <1>3, EmptySound DEF MapIInv, map_free
  <1>4. CASE UNCHANGED map_vars
    BY <1>4 DEF MapIInv, map_vars
  <1>5. QED
    BY <1>1, <1>2, <1>3, <1>4 DEF MapNext

\* The map is sound in every state.
THEOREM MapSound == MapSpec => []MapIInv
  <1>1. MapInit => MapIInv
    BY EmptySound DEF MapInit, MapIInv
  <1>2. MapIInv /\ [MapNext]_map_vars => MapIInv'
    BY StepSound
  <1>3. QED
    BY <1>1, <1>2, PTL DEF MapSpec

\* Whatever is stored and however often the map grows: the assertions of map_get
\* and map_put_hash hold, every probe ends because half of the slots are empty,
\* and every claimed slot is where a probe for its hash stops.
THEOREM EveryProbeEnds == MapSpec => []MapInv
  <1>1. MapIInv => MapInv
    BY SoundMaps
  <1>2. QED
    BY <1>1, MapSound, PTL

\* len() goes wrong under the hash 0 only: every other step leaves the counter
\* as far from the number of entries as it was, or makes it right.
THEOREM LenStaysExact == MapSpec => LenExact
  <1> DEFINE Exact == Excess' \in {Excess, 0} \/ \E v \in Values : put(0, v)
  <1>1. ASSUME MapIInv, [MapNext]_map_vars PROVE [Exact]_map_vars
    <2>1. Claimed = Used(map)
      BY <1>1 DEF MapIInv, Sound, Shape, Claimed, Used
    <2>2. Claimed' = Used(map')
      <3>1. MapIInv'
        BY <1>1, StepSound
      <3>2. QED
        BY <3>1 DEF MapIInv, Sound, Shape, Claimed, Used
    <2>3. Excess = map.len - Cardinality(Used(map)) /\ Excess' = map'.len - Cardinality(Used(map'))
      BY <2>1, <2>2 DEF Excess
    <2>4. ASSUME NEW h \in Hashes, NEW v \in Values, put(h, v) PROVE Exact
      <3>1. CASE h = 0
        BY <2>4, <3>1
      <3>2. CASE h # 0
        <4>1. map'.len - Cardinality(Used(map')) \in {map.len - Cardinality(Used(map)), 0}
          BY <1>1, <2>4, <3>2, PutSound DEF MapIInv, put
        <4>2. QED
          BY <2>3, <4>1
      <3>3. QED
        BY <3>1, <3>2
    <2>5. ASSUME NEW h \in Hashes, get(h) PROVE Exact
      BY <2>3, <2>5 DEF get
    <2>6. CASE map_free
      BY <2>3, <2>6, EmptySound, FS_EmptySet DEF map_free
    <2>7. QED
      BY <1>1, <2>4, <2>5, <2>6 DEF MapNext
  <1>2. QED
    BY <1>1, MapSound, PTL DEF MapSpec, LenExact

-----------------------------------------------------------------------------
(***************************************************************************)
(* The map implements the partial function of AbstractMap.                 *)
(***************************************************************************)
\* Content, for any map: the hashes it holds, and the value of each.
Keys(m) == {m.entries[i].hash : i \in Used(m)}
             \cup (IF 0 \in Hashes /\ map_get(m, 0) # NullValue THEN {0} ELSE {})

Value(m, k) == IF k = 0 THEN map_get(m, 0)
               ELSE m.entries[CHOOSE i \in Used(m) : m.entries[i].hash = k].val

\* The content of the map is what Value gives for each of its keys.
LEMMA ContentIs ==
  ASSUME Shape(map)
  PROVE  Content = [k \in Keys(map) |-> Value(map, k)]
  <1>1. Claimed = Used(map)
    BY DEF Shape, Claimed, Used
  <1>2. QED
    BY <1>1 DEF Content, Keys, Value, Zero

\* The keys other than 0 are the hashes of the claimed slots, each with its value.
LEMMA KeysAreHeld ==
  ASSUME NEW m, Shape(m), AllMet(m), NEW k, k # 0
  PROVE  /\ k \in Keys(m) <=> \E w : Holds(m, k, w)
         /\ k \in Keys(m) => Holds(m, k, Value(m, k)) /\ k \in Nat
         /\ \A w : Holds(m, k, w) => Value(m, k) = w /\ k \in Keys(m)
  <1>1. k \in Keys(m) <=> \E i \in Used(m) : m.entries[i].hash = k
    BY DEF Keys
  <1>2. \A i : i \in Used(m) /\ m.entries[i].hash = k
                 <=> i \in 0..(m.cap - 1) /\ m.entries[i].hash = k
    BY DEF Used
  <1>3. k \in Keys(m) <=> \E w : Holds(m, k, w)
    BY <1>1, <1>2 DEF Holds
  <1>4. k \in Keys(m) => Holds(m, k, Value(m, k))
    <2>1. SUFFICES ASSUME k \in Keys(m) PROVE Holds(m, k, Value(m, k))
      OBVIOUS
    <2> DEFINE i == CHOOSE i \in Used(m) : m.entries[i].hash = k
    <2>2. i \in Used(m) /\ m.entries[i].hash = k
      BY <1>1, <2>1
    <2>3. Value(m, k) = m.entries[i].val
      BY DEF Value
    <2> HIDE DEF i
    <2>4. QED
      BY <1>2, <2>2, <2>3 DEF Holds
  <1>5. k \in Keys(m) => k \in Nat
    BY <1>1, <1>2, HashIsNat
  <1>6. ASSUME NEW w, Holds(m, k, w) PROVE Value(m, k) = w
    <2>1. PICK i \in 0..(m.cap - 1) : m.entries[i].hash = k /\ m.entries[i].val = w
      BY <1>6 DEF Holds
    <2>2. PICK j \in 0..(m.cap - 1) : m.entries[j].hash = k /\ m.entries[j].val = Value(m, k)
      BY <1>3, <1>4, <1>6 DEF Holds
    <2>3. Meets(m, k, i) /\ Meets(m, k, j)
      BY <2>1, <2>2 DEF AllMet, Used
    <2>4. k \in Nat
      BY <2>1, HashIsNat
    <2>5. i = j
      BY <2>3, <2>4, SlotIsFirst
    <2>6. QED
      BY <2>1, <2>2, <2>5
  <1>7. QED
    BY <1>3, <1>4, <1>5, <1>6

\* Hash 0 is a key only when a lookup finds a value under it.
LEMMA ZeroKey ==
  ASSUME NEW m
  PROVE  0 \in Keys(m) <=> 0 \in Hashes /\ map_get(m, 0) # NullValue
  BY DEF Keys, Used

\* A lookup returns the content under its hash.
LEMMA GetContent ==
  ASSUME NEW m, Sound(m), NEW h \in Hashes
  PROVE  map_get(m, h) = IF h \in Keys(m) THEN Value(m, h) ELSE NullValue
  <1>1. CASE h = 0
    BY <1>1, ZeroKey DEF Value
  <1>2. CASE h # 0 /\ h \in Keys(m)
    <2>1. Shape(m) /\ AllMet(m) /\ Holds(m, h, Value(m, h)) /\ h \in Nat
      BY <1>2, KeysAreHeld DEF Sound
    <2>2. m.len # 0
      <3>1. \E i : i \in Used(m)
        BY <1>2, <2>1 DEF Holds, Used
      <3>2. QED
        BY <2>1, <3>1, UsedCounted DEF Sound
    <2>3. map_get(m, h) = Value(m, h)
      BY <1>2, <2>1, <2>2, GetHeld
    <2>4. QED
      BY <1>2, <2>3
  <1>3. CASE h # 0 /\ h \notin Keys(m)
    <2>1. Shape(m) /\ AllMet(m) /\ (\A w : ~Holds(m, h, w)) /\ h \in Nat
      BY <1>3, KeysAreHeld, HashAssumption DEF Sound
    <2>2. CASE m.len = 0
      BY <1>3, <2>2 DEF map_get
    <2>3. CASE m.len # 0
      <3>1. /\ m.len \in Nat /\ m.len > 0 /\ 2 * m.len <= m.cap /\ m.cap \in Nat
            /\ Cardinality(Used(m)) <= m.len /\ Cardinality(Used(m)) \in Nat
        BY <2>1, <2>3, UsedFinite DEF Sound, Shape
      <3>2. Room(m)
        BY <2>1, <3>1, UsedFinite
      <3>3. QED
        BY <1>3, <2>1, <3>2, GetAbsent
    <2>4. QED
      BY <2>2, <2>3
  <1>4. QED
    BY <1>1, <1>2, <1>3

\* The hash just stored is found where it was stored.
LEMMA InsertFound ==
  ASSUME NEW m, Shape(m), NEW h \in Nat, NEW v, NEW i, Meets(m, h, i),
         NEW r, Inserted(m, h, v, i, r)
  PROVE  Meets(r, h, i) /\ SlotOf(r, h) = i
  <1>1. /\ i \in 0..(m.cap - 1) /\ r.cap = m.cap /\ m.entries[i].hash \in {0, h}
        /\ r.entries[i].hash = h /\ Shape(r)
        /\ \A j \in 0..(m.cap - 1) : j # i => r.entries[j] = m.entries[j]
    BY DEF Meets, Stops, Inserted
  <1>2. \A j : Distance(r, h, j) = Distance(m, h, j)
    BY <1>1 DEF Distance
  <1>3. \A x \in 0..(m.cap - 1) : Stops(r, h, x) => Stops(m, h, x)
    BY <1>1 DEF Stops
  <1>4. Meets(r, h, i)
    BY <1>1, <1>2, <1>3 DEF Meets, Stops
  <1>5. QED
    BY <1>1, <1>4, SlotIsFirst

\* What is found under 0 after a store under another hash was found there before.
LEMMA ZeroKept ==
  ASSUME NEW m, Sound(m), NEW h \in Hashes, h # 0, NEW v \in Values,
         NEW r, r = map_put_hash(m, h, v), map_get(r, 0) # NullValue
  PROVE  map_get(m, 0) = map_get(r, 0)
  <1> DEFINE g == Ready(m)
             z == SlotOf(r, 0)
  <1>1. PICK i : Meets(g, h, i) /\ Inserted(g, h, v, i, r)
    BY PutEffect
  <1>2. Shape(g) /\ (g = m \/ Clean(g))
    BY ReadyForMore
  <1> HIDE DEF g
  <1>3. /\ r.entries[z].hash = 0 /\ r.entries[z].val = map_get(r, 0)
    BY DEF map_get
  <1>4. /\ r.cap = g.cap /\ Shape(r) /\ r.entries[i].hash = h /\ i \in 0..(g.cap - 1)
        /\ \A j \in 0..(g.cap - 1) : j # i => r.entries[j] = g.entries[j]
    BY <1>1 DEF Inserted, Meets
  <1>5. Room(r)
    <2>1. /\ Sound(r) /\ r.len # 0
      BY PutSound
    <2>2. r.len \in Nat /\ r.cap \in Nat /\ Cardinality(Used(r)) \in Nat
      BY <1>4, UsedFinite DEF Shape
    <2>3. 2 * r.len <= r.cap /\ Cardinality(Used(r)) <= r.len
      BY <2>1 DEF Sound
    <2>4. Cardinality(Used(r)) < r.cap
      BY <2>1, <2>2, <2>3
    <2>5. QED
      BY <1>4, <2>4, UsedFinite
  <1>6. z \in 0..(g.cap - 1)
    BY <1>4, <1>5, SlotExists DEF Meets
  <1> HIDE DEF z
  <1>7. z # i /\ g.entries[z].hash = 0 /\ g.entries[z].val = map_get(r, 0)
    BY <1>3, <1>4, <1>6
  <1>8. ~Clean(g)
    BY <1>6, <1>7 DEF Clean
  <1>9. g = m /\ m.len # 0
    BY <1>2, <1>8 DEF Sound
  <1>10. Meets(m, 0, z)
    BY <1>6, <1>7, <1>9 DEF Sound, Tidy
  <1>11. SlotOf(m, 0) = z
    BY <1>10, SlotIsFirst DEF Sound
  <1>12. QED
    BY <1>7, <1>9, <1>11 DEF map_get

\* A store puts v under h, and may lose what is under 0.
LEMMA PutContent ==
  ASSUME NEW m, Sound(m), NEW h \in Hashes, NEW v \in Values, NEW r, r = map_put_hash(m, h, v)
  PROVE  \E lost \in SUBSET {0} :
            /\ Keys(r) = {h} \cup (Keys(m) \ lost)
            /\ \A k \in Keys(r) : Value(r, k) = IF k = h THEN v ELSE Value(m, k)
  <1> DEFINE g == Ready(m)
             lost == IF 0 \in Keys(r) THEN {} ELSE {0}
  <1>1. PICK i : Meets(g, h, i) /\ Inserted(g, h, v, i, r)
    BY PutEffect
  <1>2. /\ Shape(g) /\ AllMet(g)
        /\ \A k \in Nat \ {0} : \A w : Holds(g, k, w) <=> Holds(m, k, w)
    BY ReadyForMore
  <1> HIDE DEF g
  <1>3. Shape(m) /\ AllMet(m) /\ Shape(r) /\ AllMet(r) /\ r.len # 0 /\ h \in Nat /\ v # NullValue
    BY PutSound, HashAssumption, ValueAssumption DEF Sound
  <1>4. ASSUME NEW k \in Nat, k # 0, NEW w
        PROVE  Holds(r, k, w) <=> IF k = h THEN w = v ELSE Holds(m, k, w)
    BY <1>1, <1>2, <1>4, InsertHolds
  <1>5. ASSUME NEW k, k # 0
        PROVE  /\ k \in Keys(r) <=> k = h \/ k \in Keys(m)
               /\ k \in Keys(r) => Value(r, k) = IF k = h THEN v ELSE Value(m, k)
    <2>1. /\ k \in Keys(r) <=> \E w : Holds(r, k, w)
          /\ k \in Keys(r) => k \in Nat
          /\ \A w : Holds(r, k, w) => Value(r, k) = w
      BY <1>3, <1>5, KeysAreHeld
    <2>2. /\ k \in Keys(m) <=> \E w : Holds(m, k, w)
          /\ k \in Keys(m) => Holds(m, k, Value(m, k)) /\ k \in Nat
      BY <1>3, <1>5, KeysAreHeld
    <2>3. CASE k \in Nat
      BY <1>4, <1>5, <2>1, <2>2, <2>3
    <2>4. CASE k \notin Nat
      BY <1>3, <2>1, <2>2, <2>4
    <2>5. QED
      BY <2>3, <2>4
  <1>6. /\ 0 \in Keys(r) => h = 0 \/ 0 \in Keys(m)
        /\ h = 0 => 0 \in Keys(r)
        /\ 0 \in Keys(r) => Value(r, 0) = IF 0 = h THEN v ELSE Value(m, 0)
    <2>1. CASE h = 0
      <3>1. SlotOf(r, h) = i /\ r.entries[i] = [hash |-> h, val |-> v]
        BY <1>1, <1>2, <1>3, InsertFound DEF Inserted
      <3>2. map_get(r, 0) = v
        BY <1>3, <2>1, <3>1 DEF map_get
      <3>3. QED
        BY <1>3, <2>1, <3>2, ZeroKey DEF Value
    <2>2. CASE h # 0
      <3>1. SUFFICES ASSUME 0 \in Keys(r) PROVE 0 \in Keys(m) /\ Value(r, 0) = Value(m, 0)
        BY <2>2
      <3>2. 0 \in Hashes /\ map_get(r, 0) # NullValue
        BY <3>1, ZeroKey
      <3>3. map_get(m, 0) = map_get(r, 0)
        BY <2>2, <3>2, ZeroKept
      <3>4. QED
        BY <3>2, <3>3, ZeroKey DEF Value
    <2>3. QED
      BY <2>1, <2>2
  <1>7. Keys(r) = {h} \cup (Keys(m) \ lost)
    BY <1>5, <1>6
  <1>8. \A k \in Keys(r) : Value(r, k) = IF k = h THEN v ELSE Value(m, k)
    BY <1>5, <1>6
  <1>9. lost \in SUBSET {0}
    OBVIOUS
  <1>10. QED
    BY <1>7, <1>8, <1>9

\* A step of the map is a step of the partial function, or changes nothing of it.
LEMMA MapStepRefines ==
  ASSUME MapIInv, [MapNext]_map_vars
  PROVE  [Abstract!Next]_(Abstract!vars)
  <1>1. Sound(map) /\ Content = [k \in Keys(map) |-> Value(map, k)]
    BY ContentIs DEF MapIInv, Sound
  <1>2. Sound(map') /\ Content' = [k \in Keys(map') |-> Value(map', k)]
    <2>1. MapIInv'
      BY StepSound
    <2>2. Shape(map') => Claimed' = Used(map')
      BY DEF Shape, Claimed, Used
    <2>3. Shape(map') => Content' = [k \in Keys(map') |-> Value(map', k)]
      BY <2>2 DEF Content, Keys, Value, Zero
    <2>4. QED
      BY <2>1, <2>3 DEF MapIInv, Sound
  <1>3. ASSUME NEW h \in Hashes, NEW v \in Values, put(h, v)
        PROVE  Abstract!Put(h, v)
    <2>1. map' = map_put_hash(map, h, v) /\ answer' = <<h, v>>
      BY <1>3 DEF put
    <2>2. PICK lost \in SUBSET {0} :
             /\ Keys(map') = {h} \cup (Keys(map) \ lost)
             /\ \A k \in Keys(map') : Value(map', k) = IF k = h THEN v ELSE Value(map, k)
      BY <1>1, <2>1, PutContent
    <2>3. DOMAIN Content = Keys(map)
      BY <1>1
    <2>4. Content' = [k \in {h} \cup (DOMAIN Content \ lost) |-> IF k = h THEN v ELSE Content[k]]
      BY <1>1, <1>2, <2>2, <2>3
    <2>5. QED
      BY <2>1, <2>4 DEF Abstract!Put
  <1>4. ASSUME NEW h \in Hashes, get(h)
        PROVE  Abstract!Get(h)
    <2>1. Content' = Content
      BY <1>1, <1>2, <1>4 DEF get
    <2>2. map_get(map, h) = IF h \in DOMAIN Content THEN Content[h] ELSE NullValue
      BY <1>1, GetContent
    <2>3. QED
      BY <1>4, <2>1, <2>2 DEF get, Abstract!Get
  <1>5. ASSUME map_free
        PROVE  Abstract!Free
    <2>1. Keys(map') = {}
      BY <1>5, EmptySound DEF map_free, Keys, map_get
    <2>2. Content' = << >>
      BY <1>2, <2>1
    <2>3. QED
      BY <1>5, <2>2 DEF map_free, Abstract!Free
  <1>6. CASE UNCHANGED map_vars
    <2>1. Content' = Content
      BY <1>1, <1>2, <1>6 DEF map_vars
    <2>2. QED
      BY <1>6, <2>1 DEF map_vars, Abstract!vars
  <1>7. QED
    BY <1>3, <1>4, <1>5, <1>6 DEF MapNext, Abstract!Next

\* The map implements a partial function: a lookup returns what was stored last
\* under its hash, stores and growth lose nothing else, and only a value stored
\* under the hash 0 may get lost.
THEOREM MapImplementsFunction == MapSpec => RefinesAbstractMap
  <1>1. MapInit => Abstract!Init
    <2>1. SUFFICES ASSUME MapInit PROVE Content = << >> /\ answer = << >>
      BY DEF Abstract!Init
    <2>2. Content = [k \in Keys(map) |-> Value(map, k)]
      BY <2>1, EmptySound, ContentIs DEF MapInit, Sound
    <2>3. Keys(map) = {}
      BY <2>1, EmptySound DEF MapInit, Keys, map_get
    <2>4. QED
      BY <2>1, <2>2, <2>3 DEF MapInit
  <1>2. MapIInv /\ [MapNext]_map_vars => [Abstract!Next]_(Abstract!vars)
    BY MapStepRefines
  <1>3. MapSpec => Abstract!Spec
    BY <1>1, <1>2, MapSound, PTL DEF MapSpec, Abstract!Spec
  <1>4. QED
    BY <1>3 DEF RefinesAbstractMap
=============================================================================
