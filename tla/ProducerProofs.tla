--------------------------- MODULE ProducerProofs ---------------------------
(***************************************************************************)
(* The producer for any messages, attributes, generators, callers, calls   *)
(* and faults: what strings.Join and sort.Strings give, that generated     *)
(* identifiers tell messages apart, and that nothing with a stable one is  *)
(* published twice and every outcome is true.                              *)
(***************************************************************************)
EXTENDS Producer, FiniteSetTheorems, SequenceTheorems, WellFoundedInduction, TLAPS

-----------------------------------------------------------------------------
(* Induction, and the sort.                                                 *)

\* The order of the naturals as a set of pairs.
Below == {ss \in Nat \X Nat : ss[1] < ss[2]}

\* Induction, in the form of the least counterexample: a set of naturals that
\* is not empty has a least element.
LEMMA LeastNat ==
  ASSUME NEW T \in SUBSET Nat, T # {}
  PROVE  \E x \in T : \A y \in T : x <= y
<1>1. IsWellFoundedOn(Below, Nat)
  BY NatLessThanWellFounded DEF OpToRel, Below
<1>2. PICK x \in T : \A y \in T : ~(<<y, x>> \in Below)
  BY <1>1, WFMin
<1>3. \A y \in T : x <= y
  <2> TAKE y \in T
  <2>1. x \in Nat /\ y \in Nat /\ <<y, x>> \notin Below
    BY <1>2
  <2>2. x \in Nat /\ y \in Nat /\ y < x => <<y, x>> \in Below
    BY DEF Below
  <2> QED
    BY <2>1, <2>2
<1> QED
  BY <1>3

\* p visits the indices of s in an order that sorts s.
Sorts(p, s, n) ==
  p \in Bijection(1 .. n, 1 .. n) /\ \A i, j \in 1 .. n : i < j => s[p[i]] <= s[p[j]]

\* Whatever its elements, a sequence of numbers can be sorted.
LEMMA SortExists == \A n \in Nat : \A s \in [1 .. n -> Nat] : \E p : Sorts(p, s, n)
<1> DEFINE T == {n \in Nat : \E s \in [1 .. n -> Nat] : ~ \E p : Sorts(p, s, n)}
<1> SUFFICES ASSUME T # {} PROVE FALSE
  OBVIOUS
<1>1. PICK n \in T : \A y \in T : n <= y
  <2> T \in SUBSET Nat
    OBVIOUS
  <2> HIDE DEF T
  <2> QED
    BY LeastNat
<1>2. n \in Nat
  OBVIOUS
<1>3. PICK s \in [1 .. n -> Nat] : ~ \E p : Sorts(p, s, n)
  OBVIOUS
<1>4. CASE n = 0
  <2>1. Sorts([i \in 1 .. 0 |-> i], s, 0)
    BY DEF Sorts, Bijection, Injection, Surjection, IsInjective
  <2> QED
    BY <2>1, <1>3, <1>4
<1>5. CASE n # 0
  <2>1. PICK j \in 1 .. n : \A i \in 1 .. n : s[j] <= s[i]
    <3> DEFINE V == {s[i] : i \in 1 .. n}
    <3>1. V \in SUBSET Nat /\ V # {}
      BY <1>2, <1>5
    <3>2. \A i \in 1 .. n : s[i] \in V
      OBVIOUS
    <3>3. PICK x \in V : \A y \in V : x <= y
      <4> HIDE DEF V
      <4> QED
        BY <3>1, LeastNat
    <3>4. PICK j \in 1 .. n : x = s[j]
      OBVIOUS
    <3> QED
      BY <3>2, <3>3, <3>4
  <2> DEFINE m == n - 1
             e == [i \in 1 .. m |-> IF i < j THEN i ELSE i + 1]
             r == [i \in 1 .. m |-> s[e[i]]]
  <2>2. m \in Nat /\ n = m + 1 /\ m \notin T
    <3>1. m \in Nat /\ n = m + 1 /\ ~(n <= m)
      BY <1>2, <1>5
    <3>2. m \notin T
      <4> HIDE DEF T, m
      <4> QED
        BY <1>1, <3>1
    <3> QED
      BY <3>1, <3>2
  <2>3. /\ e \in [1 .. m -> 1 .. n]
        /\ \A i \in 1 .. m : e[i] # j
        /\ \A i, k \in 1 .. m : e[i] = e[k] => i = k
        /\ \A i \in 1 .. n : i # j => \E k \in 1 .. m : e[k] = i
    <3>1. e \in [1 .. m -> 1 .. n]
      BY <2>2
    <3>2. \A i \in 1 .. m : e[i] # j
      BY <2>2
    <3>3. \A i, k \in 1 .. m : e[i] = e[k] => i = k
      BY <2>2
    <3>4. ASSUME NEW i \in 1 .. n, i # j PROVE \E k \in 1 .. m : e[k] = i
      <4>1. CASE i < j
        <5>1. i \in 1 .. m /\ e[i] = i
          BY <2>2, <4>1
        <5> QED
          BY <5>1
      <4>2. CASE j < i
        <5>1. i - 1 \in 1 .. m /\ e[i - 1] = i
          BY <2>2, <4>2
        <5> QED
          BY <5>1
      <4> QED
        BY <3>4, <4>1, <4>2
    <3> QED
      BY <3>1, <3>2, <3>3, <3>4
  <2>4. r \in [1 .. m -> Nat] /\ \A i \in 1 .. m : r[i] = s[e[i]]
    BY <2>3
  <2>5. PICK q : Sorts(q, r, m)
    BY <2>2, <2>4
  <2> HIDE DEF e, r, m
  <2>6. /\ q \in [1 .. m -> 1 .. m]
        /\ \A a, b \in 1 .. m : q[a] = q[b] => a = b
        /\ \A t \in 1 .. m : \E a \in 1 .. m : q[a] = t
    BY <2>5 DEF Sorts, Bijection, Injection, Surjection, IsInjective
  <2>13. \A a, b \in 1 .. m : a < b => s[e[q[a]]] <= s[e[q[b]]]
    <3> TAKE a, b \in 1 .. m
    <3> HAVE a < b
    <3>1. r[q[a]] <= r[q[b]]
      BY <2>5 DEF Sorts
    <3>2. q[a] \in 1 .. m /\ q[b] \in 1 .. m
      BY <2>6
    <3> QED
      BY <3>1, <3>2, <2>4
  <2> DEFINE p == [i \in 1 .. n |-> IF i = 1 THEN j ELSE e[q[i - 1]]]
  <2>14. p[1] = j
    BY <2>2
  <2>7. \A i \in 2 .. n : i - 1 \in 1 .. m /\ p[i] = e[q[i - 1]] /\ i \in 1 .. n
    <3> TAKE i \in 2 .. n
    <3>1. i - 1 \in 1 .. m /\ i \in 1 .. n /\ i # 1
      BY <2>2
    <3> QED
      BY <3>1
  <2>15. \A i \in 1 .. n : i = 1 \/ i \in 2 .. n
    OBVIOUS
  <2>17. \A i \in 2 .. n : q[i - 1] \in 1 .. m /\ p[i] # j
    <3> TAKE i \in 2 .. n
    <3>1. i - 1 \in 1 .. m /\ p[i] = e[q[i - 1]]
      BY <2>7
    <3>2. q[i - 1] \in 1 .. m
      BY <3>1, <2>6
    <3> QED
      BY <3>1, <3>2, <2>3
  <2>18. \A k, l \in 1 .. m : e[k] = e[l] => k = l
    BY <2>3
  <2>16. \A i \in 1 .. n : p[i] \in 1 .. n
    BY <2>2, <2>14, <2>7, <2>15, <2>3, <2>6
  <2>8. p \in [1 .. n -> 1 .. n]
    <3> HIDE DEF p
    <3>1. p = [i \in 1 .. n |-> p[i]]
      BY DEF p
    <3> QED
      BY <2>16, <3>1
  <2> HIDE DEF p
  <2>9. \A a, b \in 1 .. n : p[a] = p[b] => a = b
    <3> TAKE a, b \in 1 .. n
    <3> HAVE p[a] = p[b]
    <3>1. CASE a = 1 /\ b # 1
      BY <3>1, <2>14, <2>15, <2>17
    <3>2. CASE a # 1 /\ b = 1
      BY <3>2, <2>14, <2>15, <2>17
    <3>3. CASE a # 1 /\ b # 1
      <4>1. a - 1 \in 1 .. m /\ b - 1 \in 1 .. m /\ e[q[a - 1]] = e[q[b - 1]]
        BY <3>3, <2>7, <2>15
      <4>2. q[a - 1] = q[b - 1]
        <5>1. q[a - 1] \in 1 .. m /\ q[b - 1] \in 1 .. m
          BY <4>1, <2>6
        <5> QED
          BY <4>1, <5>1, <2>18
      <4>3. a - 1 = b - 1
        BY <4>1, <4>2, <2>6
      <4> QED
        BY <4>3
    <3> QED
      BY <3>1, <3>2, <3>3
  <2>10. \A t \in 1 .. n : \E a \in 1 .. n : p[a] = t
    <3> TAKE t \in 1 .. n
    <3>1. CASE t = j
      BY <3>1, <2>2, <2>14
    <3>2. CASE t # j
      <4>1. PICK k \in 1 .. m : e[k] = t
        BY <3>2, <2>3
      <4>2. PICK a \in 1 .. m : q[a] = k
        BY <2>6
      <4>3. a + 1 \in 2 .. n /\ (a + 1) - 1 = a
        BY <2>2
      <4>4. p[a + 1] = t /\ a + 1 \in 1 .. n
        BY <4>1, <4>2, <4>3, <2>7
      <4> QED
        BY <4>4
    <3> QED
      BY <3>1, <3>2
  <2>11. \A a, b \in 1 .. n : a < b => s[p[a]] <= s[p[b]]
    <3> TAKE a, b \in 1 .. n
    <3> HAVE a < b
    <3>1. b \in 2 .. n /\ p[b] \in 1 .. n
      BY <2>8
    <3>2. CASE a = 1
      BY <3>1, <3>2, <2>1, <2>14
    <3>3. CASE a # 1
      <4>3. a \in 2 .. n
        BY <3>3, <2>15
      <4>4. a - 1 \in 1 .. m /\ b - 1 \in 1 .. m
        BY <4>3, <3>1, <2>7
      <4>1. a \in 2 .. n /\ a - 1 \in 1 .. m /\ b - 1 \in 1 .. m /\ a - 1 < b - 1
        BY <4>3, <4>4
      <4>2. p[a] = e[q[a - 1]] /\ p[b] = e[q[b - 1]]
        BY <4>1, <3>1, <2>7
      <4> QED
        BY <4>1, <4>2, <2>13
    <3> QED
      BY <3>2, <3>3
  <2>12. Sorts(p, s, n)
    BY <2>8, <2>9, <2>10, <2>11 DEF Sorts, Bijection, Injection, Surjection, IsInjective
  <2> QED
    BY <2>12, <1>3
<1> QED
  BY <1>4, <1>5

\* Sorted rearranges s by some bijection of its indices.
LEMMA SortedIs ==
  ASSUME NEW n \in Nat, NEW s \in [1 .. n -> Nat]
  PROVE  \E p : Sorts(p, s, n) /\ Sorted(s) = [i \in 1 .. n |-> s[p[i]]]
<1>1. Len(s) = n
  OBVIOUS
<1> DEFINE p == CHOOSE p \in Bijection(1 .. n, 1 .. n) :
                  \A i, j \in 1 .. n : i < j => s[p[i]] <= s[p[j]]
<1>2. \E q \in Bijection(1 .. n, 1 .. n) : \A i, j \in 1 .. n : i < j => s[q[i]] <= s[q[j]]
  BY SortExists DEF Sorts
<1>3. Sorts(p, s, n)
  BY <1>2 DEF Sorts
<1>4. Sorted(s) = [i \in 1 .. n |-> s[p[i]]]
  BY <1>1 DEF Sorted
<1> HIDE DEF p
<1> QED
  BY <1>3, <1>4

\* The sorted sequence has the elements of s and their number.
LEMMA SortedRange ==
  ASSUME NEW n \in Nat, NEW s \in [1 .. n -> Nat]
  PROVE  /\ Sorted(s) \in [1 .. n -> Nat]
         /\ Range(Sorted(s)) = Range(s)
<1>1. PICK p : Sorts(p, s, n) /\ Sorted(s) = [i \in 1 .. n |-> s[p[i]]]
  BY SortedIs
<1>2. p \in [1 .. n -> 1 .. n] /\ \A t \in 1 .. n : \E i \in 1 .. n : p[i] = t
  BY <1>1 DEF Sorts, Bijection, Injection, Surjection
<1>3. Sorted(s) \in [1 .. n -> Nat]
  BY <1>1, <1>2
<1>4. \A i \in 1 .. n : \E j \in 1 .. n : Sorted(s)[i] = s[j]
  BY <1>1, <1>2
<1>5. \A j \in 1 .. n : \E i \in 1 .. n : Sorted(s)[i] = s[j]
  BY <1>1, <1>2
<1>6. Range(Sorted(s)) = {Sorted(s)[i] : i \in 1 .. n} /\ Range(s) = {s[i] : i \in 1 .. n}
  BY <1>3 DEF Range
<1>7. {Sorted(s)[i] : i \in 1 .. n} = {s[i] : i \in 1 .. n}
  <2> DEFINE u == Sorted(s)
  <2>1. \A x \in {u[i] : i \in 1 .. n} : x \in {s[i] : i \in 1 .. n}
    BY <1>4
  <2>2. \A x \in {s[i] : i \in 1 .. n} : x \in {u[i] : i \in 1 .. n}
    <3> TAKE x \in {s[i] : i \in 1 .. n}
    <3>1. PICK j \in 1 .. n : x = s[j]
      OBVIOUS
    <3>2. PICK i \in 1 .. n : u[i] = s[j]
      BY <1>5
    <3> QED
      BY <3>1, <3>2
  <2> HIDE DEF u
  <2>3. {u[i] : i \in 1 .. n} = {s[i] : i \in 1 .. n}
    BY <2>1, <2>2
  <2> QED
    BY <2>3 DEF u
<1> QED
  BY <1>3, <1>6, <1>7

\* Enumerates(q, k, S): q lists the k members of S in ascending order.
Enumerates(q, k, S) ==
  /\ q \in [1 .. k -> S]
  /\ \A i, j \in 1 .. k : i < j => q[i] < q[j]
  /\ \A x \in S : \E i \in 1 .. k : q[i] = x

\* The sorted sequence of a finite set of numbers lists each of them once.
LEMMA Ascending ==
  ASSUME NEW S \in SUBSET Nat, IsFiniteSet(S)
  PROVE  Cardinality(S) \in Nat /\ Enumerates(Sorted(SetToSeq(S)), Cardinality(S), S)
<1> DEFINE k == Cardinality(S)
           f == SetToSeq(S)
<1>1. k \in Nat /\ ExistsBijection(1 .. k, S)
  BY FS_CardinalityType
<1>2. f \in [1 .. k -> S] /\ IsInjective(f)
  BY <1>1 DEF SetToSeq, ExistsBijection, Bijection, Injection
<1>3. f \in Surjection(1 .. k, S)
  <2>1. Cardinality(1 .. k) = k
    BY <1>1, FS_Interval
  <2>2. f \in Injection(1 .. k, S)
    BY <1>2 DEF Injection
  <2> QED
    BY <2>1, <2>2, FS_Injection
<1> HIDE DEF f, k
<1>4. f \in [1 .. k -> Nat]
  BY <1>2
<1>5. PICK p : Sorts(p, f, k) /\ Sorted(f) = [i \in 1 .. k |-> f[p[i]]]
  BY <1>1, <1>4, SortedIs
<1>6. /\ p \in [1 .. k -> 1 .. k] /\ \A t \in 1 .. k : \E i \in 1 .. k : p[i] = t
      /\ \A i, j \in 1 .. k : p[i] = p[j] => i = j
      /\ \A i, j \in 1 .. k : i < j => f[p[i]] <= f[p[j]]
  BY <1>5 DEF Sorts, Bijection, Injection, Surjection, IsInjective
<1>7. Sorted(f) \in [1 .. k -> S]
  BY <1>2, <1>5, <1>6
<1>8. ASSUME NEW i \in 1 .. k, NEW j \in 1 .. k, i < j PROVE Sorted(f)[i] < Sorted(f)[j]
  <2>1. p[i] \in 1 .. k /\ p[j] \in 1 .. k /\ p[i] # p[j] /\ f[p[i]] <= f[p[j]]
    BY <1>1, <1>6, <1>8
  <2>2. f[p[i]] # f[p[j]]
    BY <2>1, <1>2 DEF IsInjective
  <2>3. f[p[i]] \in Nat /\ f[p[j]] \in Nat
    BY <2>1, <1>4
  <2> QED
    BY <2>1, <2>2, <2>3, <1>5
<1>9. ASSUME NEW x \in S PROVE \E i \in 1 .. k : Sorted(f)[i] = x
  <2>1. PICK t \in 1 .. k : f[t] = x
    BY <1>3 DEF Surjection
  <2>2. PICK i \in 1 .. k : p[i] = t
    BY <1>6
  <2> QED
    BY <2>1, <2>2, <1>5
<1>10. Enumerates(Sorted(f), k, S)
  BY <1>7, <1>8, <1>9 DEF Enumerates
<1> QED
  BY <1>1, <1>10 DEF f, k

\* r is what s holds at the k indices in I, in the order q.
Keeps(r, s, I, k, q) == Enumerates(q, k, I) /\ r = [i \in 1 .. k |-> s[q[i]]]

\* Keep lists what s holds at the indices in I, in the order of s.
LEMMA KeepIs ==
  ASSUME NEW n \in Nat, NEW s, NEW I \in SUBSET (1 .. n)
  PROVE  \E k \in Nat : \E q : Keeps(Keep(s, I), s, I, k, q)
<1>1. I \in SUBSET Nat /\ IsFiniteSet(I)
  <2>1. IsFiniteSet(1 .. n)
    BY FS_Interval
  <2>2. IsFiniteSet(I)
    BY <2>1, FS_Subset
  <2> QED
    BY <2>2
<1> DEFINE k == Cardinality(I)
           q == Sorted(SetToSeq(I))
<1>2. k \in Nat /\ Enumerates(q, k, I)
  BY <1>1, Ascending
<1>3. Keep(s, I) = [i \in 1 .. Len(q) |-> s[q[i]]]
  BY DEF Keep
<1> HIDE DEF q, k
<1>4. Len(q) = k
  BY <1>2 DEF Enumerates
<1>5. Keeps(Keep(s, I), s, I, k, q)
  BY <1>2, <1>3, <1>4 DEF Keeps
<1> QED
  BY <1>2, <1>5

-----------------------------------------------------------------------------
(* Joining.                                                                 *)

\* g[i] is the concatenation of the first i of the n sequences in s.
Concats(g, s, n, W) ==
  /\ g \in [1 .. n -> Seq(W)]
  /\ \A i \in 1 .. n : g[i] = IF i = 1 THEN s[i] ELSE g[i - 1] \o s[i]

\* The sequences can be concatenated one after the other.
LEMMA ConcatsExist ==
  ASSUME NEW W, NEW n \in Nat, NEW s \in [1 .. n -> Seq(W)]
  PROVE  \A k \in 0 .. n : \E g : Concats(g, s, k, W)
<1> DEFINE T == {k \in 0 .. n : ~ \E g : Concats(g, s, k, W)}
<1> SUFFICES ASSUME T # {} PROVE FALSE
  OBVIOUS
<1>1. PICK k \in T : \A y \in T : k <= y
  <2> T \in SUBSET Nat
    OBVIOUS
  <2> HIDE DEF T
  <2> QED
    BY LeastNat
<1>2. k \in 0 .. n /\ ~ \E g : Concats(g, s, k, W)
  OBVIOUS
<1>3. CASE k = 0
  <2>1. Concats([i \in 1 .. 0 |-> << >>], s, 0, W)
    BY DEF Concats
  <2> QED
    BY <2>1, <1>2, <1>3
<1>4. CASE k # 0
  <2>7. k - 1 \in 0 .. n /\ k \in 1 .. n
    BY <1>2, <1>4
  <2>8. k - 1 \notin T
    <3> HIDE DEF T
    <3>1. k - 1 \in T => k <= k - 1
      BY <1>1
    <3> QED
      BY <2>7, <3>1
  <2>1. k - 1 \in 0 .. n /\ k - 1 \notin T /\ k \in 1 .. n
    BY <2>7, <2>8
  <2>2. PICK f : Concats(f, s, k - 1, W)
    BY <2>1
  <2> DEFINE e == IF k = 1 THEN s[k] ELSE f[k - 1] \o s[k]
             g == [i \in 1 .. k |-> IF i = k THEN e ELSE f[i]]
  <2>3. e \in Seq(W)
    <3>1. s[k] \in Seq(W)
      BY <2>1
    <3>2. k # 1 => f[k - 1] \in Seq(W)
      BY <2>1, <2>2 DEF Concats
    <3> QED
      BY <3>1, <3>2, ConcatProperties
  <2> HIDE DEF e
  <2>4. g \in [1 .. k -> Seq(W)]
    BY <2>1, <2>2, <2>3 DEF Concats
  <2>5. ASSUME NEW i \in 1 .. k PROVE g[i] = IF i = 1 THEN s[i] ELSE g[i - 1] \o s[i]
    <3>1. CASE i = k
      <4>1. k # 1 => k - 1 \in 1 .. k /\ g[k - 1] = f[k - 1]
        BY <2>1
      <4> QED
        BY <3>1, <4>1 DEF e
    <3>2. CASE i # k
      <4>1. i \in 1 .. k - 1 /\ g[i] = f[i]
        BY <2>1, <3>2
      <4>2. i # 1 => i - 1 \in 1 .. k - 1 /\ g[i - 1] = f[i - 1]
        BY <2>1, <4>1
      <4> QED
        BY <2>2, <4>1, <4>2 DEF Concats
    <3> QED
      BY <3>1, <3>2
  <2>6. Concats(g, s, k, W)
    BY <2>4, <2>5 DEF Concats
  <2> QED
    BY <2>6, <1>2
<1> QED
  BY <1>3, <1>4

\* FlattenSeq concatenates all of them.
LEMMA FlattenIs ==
  ASSUME NEW W, NEW n \in Nat \ {0}, NEW s \in [1 .. n -> Seq(W)]
  PROVE  \E g : Concats(g, s, n, W) /\ FlattenSeq(s) = g[n]
<1>1. Len(s) = n
  OBVIOUS
<1> DEFINE f == CHOOSE f : f = [i \in 1 .. n |-> IF i = 1 THEN s[i] ELSE f[i - 1] \o s[i]]
<1>2. FlattenSeq(s) = f[n]
  BY <1>1 DEF FlattenSeq
<1>3. PICK g : Concats(g, s, n, W)
  BY ConcatsExist
<1>4. g = [i \in 1 .. n |-> IF i = 1 THEN s[i] ELSE g[i - 1] \o s[i]]
  BY <1>3 DEF Concats
<1>5. f = [i \in 1 .. n |-> IF i = 1 THEN s[i] ELSE f[i - 1] \o s[i]]
  BY <1>4
<1> HIDE DEF f
<1>6. \A i \in 1 .. n : f[i] = IF i = 1 THEN s[i] ELSE f[i - 1] \o s[i]
  BY <1>5
<1>7. \A i \in 1 .. n : f[i] \in Seq(W)
  <2> DEFINE T == {i \in 1 .. n : f[i] \notin Seq(W)}
  <2> SUFFICES ASSUME T # {} PROVE FALSE
    OBVIOUS
  <2>1. PICK i \in T : \A y \in T : i <= y
    <3> T \in SUBSET Nat
      OBVIOUS
    <3> HIDE DEF T
    <3> QED
      BY LeastNat
  <2>2. i \in 1 .. n /\ s[i] \in Seq(W)
    OBVIOUS
  <2>3. CASE i = 1
    BY <2>2, <2>3, <1>6
  <2>4. CASE i # 1
    <3>1. i - 1 \in 1 .. n /\ i - 1 \notin T
      BY <2>1, <2>2, <2>4
    <3>2. f[i - 1] \o s[i] \in Seq(W)
      BY <2>2, <3>1, ConcatProperties
    <3> QED
      BY <2>2, <2>4, <3>2, <1>6
  <2> QED
    BY <2>3, <2>4
<1>8. f \in [1 .. n -> Seq(W)]
  <2>1. f = [i \in 1 .. n |-> f[i]]
    BY <1>5
  <2> QED
    BY <2>1, <1>7
<1>9. Concats(f, s, n, W)
  BY <1>6, <1>8 DEF Concats
<1> QED
  BY <1>2, <1>9

\* Two texts joined.
Glue(a, b) == a \o (<<Sep>> \o b)

\* g[i] is the first i parts, joined.
Joins(g, parts, n, W) ==
  /\ g \in [1 .. n -> Seq(W)]
  /\ \A i \in 1 .. n : g[i] = IF i = 1 THEN parts[i] ELSE Glue(g[i - 1], parts[i])

\* JoinWith joins the parts one after the other.
LEMMA JoinIs ==
  ASSUME NEW W, Sep \in W, NEW n \in Nat \ {0}, NEW parts \in [1 .. n -> Seq(W)]
  PROVE  \E g : Joins(g, parts, n, W) /\ JoinWith(parts) = g[n]
<1> DEFINE s == [i \in 1 .. n |-> IF i = 1 THEN parts[i] ELSE <<Sep>> \o parts[i]]
<1>6. Len(parts) = n
  OBVIOUS
<1>1. JoinWith(parts) = FlattenSeq(s)
  BY <1>6 DEF JoinWith
<1>2. s \in [1 .. n -> Seq(W)]
  <2>1. <<Sep>> \in Seq(W)
    OBVIOUS
  <2>2. \A i \in 1 .. n : parts[i] \in Seq(W) /\ <<Sep>> \o parts[i] \in Seq(W)
    BY <2>1, ConcatProperties
  <2> QED
    BY <2>2
<1>3. \A i \in 1 .. n : s[i] = IF i = 1 THEN parts[i] ELSE <<Sep>> \o parts[i]
  OBVIOUS
<1> HIDE DEF s
<1>4. PICK g : Concats(g, s, n, W) /\ FlattenSeq(s) = g[n]
  BY <1>2, FlattenIs
<1>5. Joins(g, parts, n, W)
  BY <1>3, <1>4 DEF Joins, Concats, Glue
<1> QED
  BY <1>1, <1>4, <1>5

\* A text without the separator in it.
Free(v) == \A h \in 1 .. Len(v) : v[h] # Sep

\* t is a, the separator and b.
JoinedOf(t, a, b, W) ==
  /\ t \in Seq(W) /\ Len(t) = Len(a) + 1 + Len(b)
  /\ \A h \in 1 .. Len(a) : t[h] = a[h]
  /\ t[Len(a) + 1] = Sep
  /\ \A h \in 1 .. Len(b) : t[Len(a) + 1 + h] = b[h]

\* Where the elements of a text joined from two go.
LEMMA JoinTwo ==
  ASSUME NEW W, Sep \in W, NEW a \in Seq(W), NEW b \in Seq(W)
  PROVE  JoinedOf(Glue(a, b), a, b, W)
<1> DEFINE t == Glue(a, b)
<1> HIDE DEF t
<1> DEFINE r == <<Sep>> \o b
<1>1. <<Sep>> \in Seq(W) /\ Len(<<Sep>>) = 1 /\ <<Sep>>[1] = Sep
  OBVIOUS
<1>2. /\ r \in Seq(W) /\ Len(r) = 1 + Len(b) /\ r[1] = Sep
      /\ \A h \in 1 .. Len(b) : r[1 + h] = b[h]
  <2>1. r \in Seq(W) /\ Len(r) = 1 + Len(b)
    BY <1>1, ConcatProperties
  <2>2. \A h \in 1 .. 1 + Len(b) : r[h] = IF h <= 1 THEN Sep ELSE b[h - 1]
    BY <1>1
  <2>3. Len(b) \in Nat
    OBVIOUS
  <2>4. r[1] = Sep
    BY <2>2, <2>3
  <2>5. ASSUME NEW h \in 1 .. Len(b) PROVE r[1 + h] = b[h]
    <3>1. 1 + h \in 1 .. 1 + Len(b) /\ ~(1 + h <= 1) /\ (1 + h) - 1 = h
      BY <2>3
    <3> QED
      BY <2>2, <3>1
  <2> QED
    BY <2>1, <2>4, <2>5
<1> HIDE DEF r
<1>3. t = a \o r
  BY DEF t, r, Glue
<1>4. Len(a) \in Nat /\ Len(b) \in Nat
  OBVIOUS
<1>5. t \in Seq(W) /\ Len(t) = Len(a) + Len(r)
  BY <1>2, <1>3, ConcatProperties
<1>6. \A h \in 1 .. Len(a) + Len(r) : t[h] = IF h <= Len(a) THEN a[h] ELSE r[h - Len(a)]
  BY <1>2, <1>3
<1>7. \A h \in 1 .. Len(a) : t[h] = a[h]
  BY <1>2, <1>4, <1>6
<1>8. t[Len(a) + 1] = Sep
  <2>1. Len(a) + 1 \in 1 .. Len(a) + Len(r) /\ (Len(a) + 1) - Len(a) = 1 /\ ~(Len(a) + 1 <= Len(a))
    BY <1>2, <1>4
  <2> QED
    BY <2>1, <1>2, <1>6
<1>9. ASSUME NEW h \in 1 .. Len(b) PROVE t[Len(a) + 1 + h] = b[h]
  <2>1. /\ Len(a) + 1 + h \in 1 .. Len(a) + Len(r)
        /\ (Len(a) + 1 + h) - Len(a) = 1 + h /\ ~(Len(a) + 1 + h <= Len(a))
    BY <1>2, <1>4
  <2> QED
    BY <2>1, <1>2, <1>6
<1>10. Len(t) = Len(a) + 1 + Len(b)
  BY <1>2, <1>4, <1>5
<1>11. JoinedOf(t, a, b, W)
  BY <1>5, <1>7, <1>8, <1>9, <1>10 DEF JoinedOf
<1> QED
  BY <1>11 DEF t

\* A text splits at its last separator in one way.
LEMMA SplitUnique ==
  ASSUME NEW W, Sep \in W,
         NEW a1 \in Seq(W), NEW b1 \in Seq(W), Free(b1),
         NEW a2 \in Seq(W), NEW b2 \in Seq(W), Free(b2),
         Glue(a1, b1) = Glue(a2, b2)
  PROVE  a1 = a2 /\ b1 = b2
<1> DEFINE t == Glue(a1, b1)
<1>11. JoinedOf(t, a1, b1, W)
  BY JoinTwo
<1>12. t = Glue(a2, b2)
  OBVIOUS
<1> HIDE DEF t
<1>13. JoinedOf(t, a2, b2, W)
  BY <1>12, JoinTwo
<1>1. /\ Len(t) = Len(a1) + 1 + Len(b1) /\ t[Len(a1) + 1] = Sep
      /\ \A h \in 1 .. Len(a1) : t[h] = a1[h]
      /\ \A h \in 1 .. Len(b1) : t[Len(a1) + 1 + h] = b1[h]
  BY <1>11 DEF JoinedOf
<1>2. /\ Len(t) = Len(a2) + 1 + Len(b2) /\ t[Len(a2) + 1] = Sep
      /\ \A h \in 1 .. Len(a2) : t[h] = a2[h]
      /\ \A h \in 1 .. Len(b2) : t[Len(a2) + 1 + h] = b2[h]
  BY <1>13 DEF JoinedOf
<1>3. Len(a1) \in Nat /\ Len(a2) \in Nat /\ Len(b1) \in Nat /\ Len(b2) \in Nat
  OBVIOUS
<1>4. ~(Len(a2) < Len(a1))
  <2> SUFFICES ASSUME Len(a2) < Len(a1) PROVE FALSE
    OBVIOUS
  <2> DEFINE h == Len(a1) - Len(a2)
  <2>1. h \in 1 .. Len(b2) /\ Len(a2) + 1 + h = Len(a1) + 1
    BY <1>1, <1>2, <1>3
  <2> HIDE DEF h
  <2>2. b2[h] = Sep
    BY <1>1, <1>2, <2>1
  <2> QED
    BY <2>1, <2>2 DEF Free
<1>5. ~(Len(a1) < Len(a2))
  <2> SUFFICES ASSUME Len(a1) < Len(a2) PROVE FALSE
    OBVIOUS
  <2> DEFINE h == Len(a2) - Len(a1)
  <2>1. h \in 1 .. Len(b1) /\ Len(a1) + 1 + h = Len(a2) + 1
    BY <1>1, <1>2, <1>3
  <2> HIDE DEF h
  <2>2. b1[h] = Sep
    BY <1>1, <1>2, <2>1
  <2> QED
    BY <2>1, <2>2 DEF Free
<1>6. Len(a1) = Len(a2) /\ Len(b1) = Len(b2)
  BY <1>1, <1>2, <1>3, <1>4, <1>5
<1>7. \A h \in 1 .. Len(a1) : a1[h] = a2[h]
  BY <1>1, <1>2, <1>6
<1>8. \A h \in 1 .. Len(b1) : b1[h] = b2[h]
  BY <1>1, <1>2, <1>6
<1>9. a1 = a2
  BY <1>6, <1>7, SeqEqual
<1>10. b1 = b2
  BY <1>6, <1>8, SeqEqual
<1> QED
  BY <1>9, <1>10

\* A text without a separator is none that was joined from two.
LEMMA NoSplit ==
  ASSUME NEW W, Sep \in W, NEW a \in Seq(W), NEW b \in Seq(W), NEW t, Free(t),
         t = Glue(a, b)
  PROVE  FALSE
<1>3. JoinedOf(Glue(a, b), a, b, W)
  BY JoinTwo
<1>1. Len(t) = Len(a) + 1 + Len(b) /\ t[Len(a) + 1] = Sep
  BY <1>3 DEF JoinedOf
<1>2. Len(a) + 1 \in 1 .. Len(t)
  BY <1>1
<1> QED
  BY <1>1, <1>2 DEF Free

\* n parts without separators.
FreeParts(p, n, W) == n \in Nat \ {0} /\ p \in [1 .. n -> Seq(W)] /\ \A i \in 1 .. n : Free(p[i])

\* Joined parts without separators can be told again from the text: different
\* parts, also of different number, give different texts.
LEMMA JoinInjective ==
  ASSUME NEW W, Sep \in W,
         NEW n, NEW p, FreeParts(p, n, W), NEW m, NEW q, FreeParts(q, m, W),
         JoinWith(p) = JoinWith(q)
  PROVE  n = m /\ p = q
<1>0. /\ n \in Nat \ {0} /\ p \in [1 .. n -> Seq(W)] /\ \A i \in 1 .. n : Free(p[i])
      /\ m \in Nat \ {0} /\ q \in [1 .. m -> Seq(W)] /\ \A i \in 1 .. m : Free(q[i])
  BY DEF FreeParts
<1>1. PICK g : Joins(g, p, n, W) /\ JoinWith(p) = g[n]
  BY <1>0, JoinIs
<1>2. PICK h : Joins(h, q, m, W) /\ JoinWith(q) = h[m]
  BY <1>0, JoinIs
<1> DEFINE Same(i, j) == i = j /\ \A l \in 1 .. i : p[l] = q[l]
<1>3. \A i \in 1 .. n : \A j \in 1 .. m : g[i] = h[j] => Same(i, j)
  <2> DEFINE T == {i \in 1 .. n : \E j \in 1 .. m : g[i] = h[j] /\ ~ Same(i, j)}
  <2> SUFFICES ASSUME T # {} PROVE FALSE
    OBVIOUS
  <2>1. PICK i \in T : \A y \in T : i <= y
    <3> T \in SUBSET Nat
      OBVIOUS
    <3> HIDE DEF T
    <3> QED
      BY LeastNat
  <2>2. PICK j \in 1 .. m : g[i] = h[j] /\ ~ Same(i, j)
    OBVIOUS
  <2>3. i \in 1 .. n /\ i \in Nat /\ j \in Nat
    OBVIOUS
  <2>4. ASSUME NEW y \in 1 .. n, y < i PROVE y \notin T
    <3> HIDE DEF T
    <3>1. y \in T => i <= y
      BY <2>1
    <3> QED
      BY <2>3, <2>4, <3>1
  <2>5. p[i] \in Seq(W) /\ Free(p[i]) /\ q[j] \in Seq(W) /\ Free(q[j])
    BY <1>0, <2>3
  <2>6. /\ g[i] = IF i = 1 THEN p[i] ELSE Glue(g[i - 1], p[i])
        /\ h[j] = IF j = 1 THEN q[j] ELSE Glue(h[j - 1], q[j])
    BY <2>3, <1>1, <1>2 DEF Joins
  <2>7. (i # 1 => i - 1 \in 1 .. n /\ g[i - 1] \in Seq(W)) /\ (j # 1 => j - 1 \in 1 .. m /\ h[j - 1] \in Seq(W))
    <3>1. i # 1 => i - 1 \in 1 .. n
      BY <1>0, <2>3
    <3>2. j # 1 => j - 1 \in 1 .. m
      BY <1>0, <2>3
    <3> QED
      BY <3>1, <3>2, <1>1, <1>2 DEF Joins
  <2>8. CASE i = 1 /\ j = 1
    <3>1. p[1] = q[1]
      BY <2>2, <2>6, <2>8
    <3> QED
      BY <2>2, <2>8, <3>1
  <2>9. CASE i = 1 /\ j # 1
    <3>1. p[i] = Glue(h[j - 1], q[j]) /\ h[j - 1] \in Seq(W)
      BY <2>9, <2>2, <2>6, <2>7
    <3> HIDE DEF T, Same
    <3> QED
      BY <3>1, <2>5, NoSplit
  <2>10. CASE i # 1 /\ j = 1
    <3>1. q[j] = Glue(g[i - 1], p[i]) /\ g[i - 1] \in Seq(W)
      BY <2>10, <2>2, <2>6, <2>7
    <3> HIDE DEF T, Same
    <3> QED
      BY <3>1, <2>5, NoSplit
  <2>11. CASE i # 1 /\ j # 1
    <3>1. g[i - 1] = h[j - 1] /\ p[i] = q[j]
      <4>1. g[i - 1] \in Seq(W) /\ h[j - 1] \in Seq(W)
            /\ Glue(g[i - 1], p[i]) = Glue(h[j - 1], q[j])
        BY <2>11, <2>2, <2>6, <2>7
      <4> HIDE DEF T, Same
      <4>2. p[i] \in Seq(W) /\ Free(p[i]) /\ q[j] \in Seq(W) /\ Free(q[j])
        BY <2>5
      <4> QED
        BY <4>1, <4>2, SplitUnique
    <3>2. i - 1 \notin T
      <4>1. i - 1 \in 1 .. n /\ i - 1 < i
        BY <2>3, <2>7, <2>11
      <4> HIDE DEF T
      <4> QED
        BY <4>1, <2>4
    <3>3. Same(i - 1, j - 1)
      BY <2>7, <2>11, <3>1, <3>2
    <3>4. i = j /\ \A l \in 1 .. i : p[l] = q[l]
      BY <2>3, <3>1, <3>3
    <3> QED
      BY <2>2, <3>4
  <2> QED
    BY <2>8, <2>9, <2>10, <2>11
<1>4. g[n] = h[m] /\ n \in 1 .. n /\ m \in 1 .. m
  <2>1. g[n] = h[m]
    BY <1>1, <1>2
  <2>2. n \in 1 .. n /\ m \in 1 .. m
    BY <1>0
  <2> QED
    BY <2>1, <2>2
<1>5. Same(n, m)
  <2> HIDE DEF Same
  <2> QED
    BY <1>3, <1>4
<1> QED
  BY <1>0, <1>5

-----------------------------------------------------------------------------
(* The generators tell messages apart.                                      *)

\* The values of the whitelist, or all keys, that attrs has.
Chosen(gen, attrs) ==
  IF gen.fields = << >> THEN DOMAIN attrs ELSE Range(gen.fields) \cap DOMAIN attrs

\* SelectKeys lists the chosen keys.
LEMMA KeysAre ==
  ASSUME NEW gen, gen.fields \in Seq(Nat),
         NEW attrs, DOMAIN attrs \subseteq Nat, IsFiniteSet(DOMAIN attrs)
  PROVE  \E k \in Nat : /\ SelectKeys(gen, attrs) \in [1 .. k -> Chosen(gen, attrs)]
                        /\ Range(SelectKeys(gen, attrs)) = Chosen(gen, attrs)
<1>1. CASE gen.fields = << >>
  <2> DEFINE D == DOMAIN attrs
             k == Cardinality(D)
             q == Sorted(SetToSeq(D))
  <2>1. k \in Nat /\ Enumerates(q, k, D)
    BY Ascending
  <2>2. SelectKeys(gen, attrs) = q /\ Chosen(gen, attrs) = D
    BY <1>1 DEF SelectKeys, Chosen
  <2> HIDE DEF q, k, D
  <2>3. q \in [1 .. k -> D] /\ Range(q) = D
    BY <2>1 DEF Enumerates, Range
  <2> QED
    BY <2>1, <2>2, <2>3
<1>2. CASE gen.fields # << >>
  <2> DEFINE s == gen.fields
             n == Len(s)
             I == {i \in 1 .. n : s[i] \in DOMAIN attrs}
  <2>1. n \in Nat /\ s \in [1 .. n -> Nat]
    OBVIOUS
  <2>2. PICK k \in Nat : \E q : Keeps(Keep(s, I), s, I, k, q)
    <3>1. I \in SUBSET (1 .. n) /\ n \in Nat
      OBVIOUS
    <3> HIDE DEF I, n, s
    <3> QED
      BY <3>1, KeepIs
  <2>3. PICK q : Keeps(Keep(s, I), s, I, k, q)
    BY <2>2
  <2>4. SelectKeys(gen, attrs) = Keep(s, I)
    BY <1>2 DEF SelectKeys
  <2>5. Chosen(gen, attrs) = {s[i] : i \in I}
    <3>1. Chosen(gen, attrs) = Range(s) \cap DOMAIN attrs
      BY <1>2 DEF Chosen
    <3>2. Range(s) = {s[i] : i \in 1 .. n}
      BY <2>1 DEF Range
    <3> QED
      BY <3>1, <3>2
  <2> DEFINE C == {s[i] : i \in I}
  <2>6. q \in [1 .. k -> I] /\ \A x \in I : \E i \in 1 .. k : q[i] = x
    BY <2>3 DEF Keeps, Enumerates
  <2> DEFINE r == Keep(s, I)
  <2>7. r = [i \in 1 .. k |-> s[q[i]]]
    BY <2>3 DEF Keeps
  <2> HIDE DEF I, n, s, r
  <2>8. r \in [1 .. k -> C]
    BY <2>6, <2>7
  <2>9. Range(r) = C
    <3>1. Range(r) = {s[q[i]] : i \in 1 .. k}
      BY <2>7 DEF Range
    <3>2. \A x \in C : \E i \in 1 .. k : x = s[q[i]]
      BY <2>6
    <3>3. \A i \in 1 .. k : s[q[i]] \in C
      BY <2>6
    <3> QED
      BY <3>1, <3>2, <3>3
  <2> QED
    BY <2>2, <2>4, <2>5, <2>8, <2>9 DEF r
<1> QED
  BY <1>1, <1>2

\* The keys selected, as a set, determine the sequence they are in.
LEMMA KeysDetermined ==
  ASSUME NEW gen, gen.fields \in Seq(Nat), NEW a, NEW b, Chosen(gen, a) = Chosen(gen, b)
  PROVE  SelectKeys(gen, a) = SelectKeys(gen, b)
<1>1. CASE gen.fields = << >>
  BY <1>1 DEF Chosen, SelectKeys
<1>2. CASE gen.fields # << >>
  <2> DEFINE s == gen.fields
             n == Len(s)
             I(x) == {i \in 1 .. n : s[i] \in DOMAIN x}
  <2>1. \A i \in 1 .. n : s[i] \in Range(s)
    BY DEF Range
  <2>2. Range(s) \cap DOMAIN a = Range(s) \cap DOMAIN b
    BY <1>2 DEF Chosen
  <2>3. I(a) = I(b)
    BY <2>1, <2>2
  <2>4. SelectKeys(gen, a) = Keep(s, I(a)) /\ SelectKeys(gen, b) = Keep(s, I(b))
    BY <1>2 DEF SelectKeys
  <2> HIDE DEF I, n, s
  <2> QED
    BY <2>3, <2>4
<1> QED
  BY <1>1, <1>2

\* What texts are made of.
Words == Tokens \cup Nat \cup {Sep}

\* The attributes of a message, free of the separator where gen reads them.
Clean(gen, attrs) ==
  /\ gen.fields \in Seq(Nat)
  /\ DOMAIN attrs \subseteq Nat /\ IsFiniteSet(DOMAIN attrs)
  /\ attrs \in [DOMAIN attrs -> Seq(Tokens)]
  /\ \A x \in Chosen(gen, attrs) : Free(attrs[x])

\* The selected fields and their values.
Picked(gen, attrs) == [x \in Chosen(gen, attrs) |-> attrs[x]]

\* v are the n values of the keys q, which are all the chosen ones.
Values(v, q, n, gen, attrs) ==
  /\ q \in [1 .. n -> Chosen(gen, attrs)]
  /\ \A x \in Chosen(gen, attrs) : \E i \in 1 .. n : q[i] = x
  /\ v \in [1 .. n -> Seq(Words)]
  /\ \A i \in 1 .. n : v[i] = attrs[q[i]] /\ Free(v[i])

\* A value of a chosen key is a text without a separator.
LEMMA ValueIs ==
  ASSUME NEW gen, NEW attrs, Clean(gen, attrs), NEW x \in Chosen(gen, attrs)
  PROVE  attrs[x] \in Seq(Words) /\ Free(attrs[x]) /\ x \in Nat
<1>1. x \in DOMAIN attrs
  BY DEF Chosen
<1>2. attrs[x] \in Seq(Tokens)
  BY <1>1 DEF Clean
<1>3. attrs[x] \in Seq(Words)
  BY <1>2 DEF Words
<1> QED
  BY <1>1, <1>3 DEF Clean

\* SelectValues lists the values of the chosen keys.
LEMMA ValuesAre ==
  ASSUME NEW gen, NEW attrs, Clean(gen, attrs)
  PROVE  \E n \in Nat : Values(SelectValues(gen, attrs), SelectKeys(gen, attrs), n, gen, attrs)
<1> DEFINE q == SelectKeys(gen, attrs)
           v == SelectValues(gen, attrs)
           C == Chosen(gen, attrs)
<1>1. PICK n \in Nat : q \in [1 .. n -> C] /\ Range(q) = C
  BY KeysAre DEF Clean
<1>2. Len(q) = n
  BY <1>1
<1>3. v = [i \in 1 .. n |-> attrs[q[i]]]
  BY <1>2 DEF SelectValues
<1> HIDE DEF q, v
<1>4. \A i \in 1 .. n : attrs[q[i]] \in Seq(Words) /\ Free(attrs[q[i]])
  <2> TAKE i \in 1 .. n
  <2>1. q[i] \in C
    BY <1>1
  <2> QED
    BY <2>1, ValueIs
<1>5. v \in [1 .. n -> Seq(Words)] /\ \A i \in 1 .. n : v[i] = attrs[q[i]] /\ Free(v[i])
  BY <1>3, <1>4
<1>6. \A x \in C : \E i \in 1 .. n : q[i] = x
  BY <1>1 DEF Range
<1>7. Values(v, q, n, gen, attrs)
  BY <1>1, <1>5, <1>6 DEF Values
<1> QED
  BY <1>7 DEF q, v

\* Equal values of equal keys are equal selections.
LEMMA SamePicked ==
  ASSUME NEW gen, NEW a, NEW b, NEW v, NEW w, NEW q, NEW n \in Nat,
         Values(v, q, n, gen, a), Values(w, q, n, gen, b), \A i \in 1 .. n : v[i] = w[i]
  PROVE  Picked(gen, a) = Picked(gen, b)
<1>1. Chosen(gen, a) = Chosen(gen, b)
  <2> DEFINE C == Chosen(gen, a)
             D == Chosen(gen, b)
  <2>1. /\ q \in [1 .. n -> C] /\ \A x \in C : \E i \in 1 .. n : q[i] = x
        /\ q \in [1 .. n -> D] /\ \A x \in D : \E i \in 1 .. n : q[i] = x
    BY DEF Values
  <2> HIDE DEF C, D
  <2>2. C \subseteq D /\ D \subseteq C
    BY <2>1
  <2>3. C = D
    BY <2>2
  <2> QED
    BY <2>3 DEF C, D
<1>2. \A x \in Chosen(gen, a) : a[x] = b[x]
  BY DEF Values
<1> QED
  BY <1>1, <1>2 DEF Picked

\* p are the parts of the key-based text: each of the n keys and its value.
Parts(p, v, q, n) ==
  /\ p \in [1 .. 2 * n -> Seq(Words)]
  /\ \A i \in 1 .. 2 * n : Free(p[i])
  /\ \A i \in 1 .. n : p[2 * i - 1] = <<q[i]>> /\ p[2 * i] = v[i]

\* The key-based text joins its parts.
LEMMA PartsAre ==
  ASSUME NEW gen, NEW attrs, Clean(gen, attrs)
  PROVE  \E n \in Nat : \E p, v, q : /\ Values(v, q, n, gen, attrs)
                                     /\ Parts(p, v, q, n)
                                     /\ KeyBasedText(gen, attrs) = JoinWith(p)
                                     /\ SelectKeys(gen, attrs) # << >> => n # 0
<1> DEFINE s == SelectKeys(gen, attrs)
           q == Sorted(s)
           C == Chosen(gen, attrs)
<1>1. PICK n \in Nat : s \in [1 .. n -> C] /\ Range(s) = C
  BY KeysAre DEF Clean
<1>2. s \in [1 .. n -> Nat]
  BY <1>1 DEF Clean, Chosen
<1>3. q \in [1 .. n -> Nat] /\ Range(q) = C
  <2> HIDE DEF s
  <2> QED
    BY <1>1, <1>2, SortedRange
<1>11. s # << >> => n # 0
  BY <1>1
<1> DEFINE p == [i \in 1 .. 2 * n |-> IF i % 2 = 1 THEN <<q[(i + 1) \div 2]>> ELSE attrs[q[i \div 2]]]
           v == [i \in 1 .. n |-> attrs[q[i]]]
<1>4. KeyBasedText(gen, attrs) = JoinWith(p)
  <2>1. Len(q) = n
    BY <1>3
  <2> QED
    BY <2>1 DEF KeyBasedText
<1>5. q \in [1 .. n -> C] /\ \A x \in C : \E i \in 1 .. n : q[i] = x
  <2> HIDE DEF q
  <2> QED
    BY <1>3 DEF Range
<1> HIDE DEF q, s
<1>6. \A i \in 1 .. n : attrs[q[i]] \in Seq(Words) /\ Free(attrs[q[i]])
  <2> TAKE i \in 1 .. n
  <2>1. q[i] \in C
    BY <1>5
  <2> QED
    BY <2>1, ValueIs
<1>7. Values(v, q, n, gen, attrs)
  BY <1>5, <1>6 DEF Values
<1>8. \A i \in 1 .. n : <<q[i]>> \in Seq(Words) /\ Free(<<q[i]>>)
  <2> TAKE i \in 1 .. n
  <2>1. q[i] \in Nat /\ q[i] # Sep
    BY <1>3, ProducerAssumption DEF ProducerAssumption
  <2>2. <<q[i]>> \in Seq(Words)
    BY <2>1 DEF Words
  <2>3. Free(<<q[i]>>)
    BY <2>1 DEF Free
  <2> QED
    BY <2>2, <2>3
<1>9. \A i \in 1 .. 2 * n : p[i] \in Seq(Words) /\ Free(p[i])
  <2> TAKE i \in 1 .. 2 * n
  <2>1. CASE i % 2 = 1
    <3>1. (i + 1) \div 2 \in 1 .. n
      BY <2>1
    <3>2. p[i] = <<q[(i + 1) \div 2]>>
      BY <2>1
    <3> QED
      BY <3>1, <3>2, <1>8
  <2>2. CASE i % 2 # 1
    <3>1. i \div 2 \in 1 .. n
      BY <2>2
    <3>2. p[i] = attrs[q[i \div 2]]
      BY <2>2
    <3> QED
      BY <3>1, <3>2, <1>6
  <2> QED
    BY <2>1, <2>2
<1>12. p \in [1 .. 2 * n -> Seq(Words)]
  BY <1>9
<1>10. \A i \in 1 .. n : p[2 * i - 1] = <<q[i]>> /\ p[2 * i] = v[i]
  <2> TAKE i \in 1 .. n
  <2>1. /\ 2 * i - 1 \in 1 .. 2 * n /\ (2 * i - 1) % 2 = 1 /\ ((2 * i - 1) + 1) \div 2 = i
        /\ 2 * i \in 1 .. 2 * n /\ (2 * i) % 2 # 1 /\ (2 * i) \div 2 = i
    OBVIOUS
  <2> QED
    BY <2>1
<1> HIDE DEF p, v
<1>13. Parts(p, v, q, n)
  BY <1>9, <1>10, <1>12 DEF Parts
<1> QED
  BY <1>4, <1>7, <1>11, <1>13 DEF s

\* The kinds of generators that make an identifier from attributes.
Deterministic == {"keyBased", "composite", "suffix"}

\* What the generators that read attributes return.
LEMMA GeneratedBy ==
  ASSUME NEW gen, gen.kind \in Deterministic, NEW attrs, NEW u, NEW d \in Generate(gen, attrs, u)
  PROVE  /\ SelectKeys(gen, attrs) # << >> /\ d.alg = gen.kind
         /\ gen.kind = "keyBased" => d.text = KeyBasedText(gen, attrs)
         /\ gen.kind = "composite" => d.text = JoinWith(SelectValues(gen, attrs))
         /\ gen.kind = "suffix" =>
              \E n \in SuffixRange : d.text = JoinWith(Append(SelectValues(gen, attrs), <<n>>))
<1>1. SelectKeys(gen, attrs) # << >>
  <2> SUFFICES ASSUME SelectKeys(gen, attrs) = << >> PROVE FALSE
    OBVIOUS
  <2>1. gen.kind # "random"
    BY DEF Deterministic
  <2>2. Generate(gen, attrs, u) = {}
    BY <2>1 DEF Generate
  <2> QED
    BY <2>2
<1>2. CASE gen.kind = "keyBased"
  <2>1. Generate(gen, attrs, u) = {[alg |-> gen.kind, text |-> t] : t \in {KeyBasedText(gen, attrs)}}
    BY <1>1, <1>2 DEF Generate
  <2> QED
    BY <1>1, <1>2, <2>1
<1>3. CASE gen.kind = "composite"
  <2>1. Generate(gen, attrs, u) =
          {[alg |-> gen.kind, text |-> t] : t \in {JoinWith(SelectValues(gen, attrs))}}
    BY <1>1, <1>3 DEF Generate
  <2> QED
    BY <1>1, <1>3, <2>1
<1>4. CASE gen.kind = "suffix"
  <2>1. Generate(gen, attrs, u) =
          {[alg |-> gen.kind, text |-> t] :
             t \in {JoinWith(Append(SelectValues(gen, attrs), <<n>>)) : n \in SuffixRange}}
    BY <1>1, <1>4 DEF Generate
  <2>2. PICK t \in {JoinWith(Append(SelectValues(gen, attrs), <<n>>)) : n \in SuffixRange} :
          d = [alg |-> gen.kind, text |-> t]
    BY <2>1
  <2>3. d.alg = gen.kind /\ d.text = t
    BY <2>2
  <2> QED
    BY <1>1, <1>4, <2>2, <2>3
<1> QED
  BY <1>2, <1>3, <1>4 DEF Deterministic

\* One generator makes different identifiers from different selections: the
\* composite generators, which leave the keys out, when they select the same keys.
LEMMA TextsDiffer ==
  ASSUME NEW gen, gen.kind \in Deterministic,
         NEW a, Clean(gen, a), NEW b, Clean(gen, b),
         gen.kind # "keyBased" => Chosen(gen, a) = Chosen(gen, b),
         NEW u, NEW v, NEW d \in Generate(gen, a, u), d \in Generate(gen, b, v)
  PROVE  Picked(gen, a) = Picked(gen, b)
<1>1. SelectKeys(gen, a) # << >> /\ SelectKeys(gen, b) # << >>
  BY GeneratedBy
<1>0. Sep \in Words
  BY DEF Words
<1>2. CASE gen.kind = "keyBased"
  <2>1. d.text = KeyBasedText(gen, a) /\ d.text = KeyBasedText(gen, b)
    BY <1>2, GeneratedBy
  <2>2. PICK n \in Nat : \E p, v1, q : /\ Values(v1, q, n, gen, a) /\ Parts(p, v1, q, n)
                                       /\ KeyBasedText(gen, a) = JoinWith(p)
                                       /\ SelectKeys(gen, a) # << >> => n # 0
    BY PartsAre
  <2>3. PICK p, v1, q : /\ Values(v1, q, n, gen, a) /\ Parts(p, v1, q, n)
                        /\ KeyBasedText(gen, a) = JoinWith(p) /\ n # 0
    BY <1>1, <2>2
  <2>4. PICK m \in Nat : \E r, v2, s : /\ Values(v2, s, m, gen, b) /\ Parts(r, v2, s, m)
                                       /\ KeyBasedText(gen, b) = JoinWith(r)
                                       /\ SelectKeys(gen, b) # << >> => m # 0
    BY PartsAre
  <2>5. PICK r, v2, s : /\ Values(v2, s, m, gen, b) /\ Parts(r, v2, s, m)
                        /\ KeyBasedText(gen, b) = JoinWith(r) /\ m # 0
    BY <1>1, <2>4
  <2>6. 2 * n \in Nat \ {0} /\ 2 * m \in Nat \ {0}
    BY <2>3, <2>5
  <2>7. FreeParts(p, 2 * n, Words) /\ FreeParts(r, 2 * m, Words)
    BY <2>3, <2>5, <2>6 DEF Parts, FreeParts
  <2>8. JoinWith(p) = JoinWith(r)
    BY <2>1, <2>3, <2>5
  <2>9. 2 * n = 2 * m /\ p = r
    BY <1>0, <2>7, <2>8, JoinInjective
  <2>10. n = m
    BY <2>9
  <2>11. \A i \in 1 .. n : <<q[i]>> = <<s[i]>> /\ v1[i] = v2[i]
    BY <2>3, <2>5, <2>9, <2>10 DEF Parts
  <2>12. \A i \in 1 .. n : q[i] = s[i]
    BY <2>11
  <2>13. q = s
    <3>1. q \in [1 .. n -> Chosen(gen, a)] /\ s \in [1 .. n -> Chosen(gen, b)]
      BY <2>3, <2>5, <2>10 DEF Values
    <3> QED
      BY <2>12, <3>1
  <2> QED
    BY <2>3, <2>5, <2>10, <2>11, <2>13, SamePicked
<1>3. CASE gen.kind # "keyBased"
  <2> DEFINE q == SelectKeys(gen, a)
             v1 == SelectValues(gen, a)
             v2 == SelectValues(gen, b)
  <2>1. q = SelectKeys(gen, b)
    BY <1>3, KeysDetermined DEF Clean
  <2>2. PICK n \in Nat : Values(v1, q, n, gen, a)
    BY ValuesAre
  <2>3. PICK m \in Nat : Values(v2, q, m, gen, b)
    BY <2>1, ValuesAre
  <2>4. q # << >>
    BY <1>1
  <2>10. \/ gen.kind = "composite" /\ d.text = JoinWith(v1) /\ d.text = JoinWith(v2)
         \/ \E x, y \in SuffixRange : d.text = JoinWith(Append(v1, <<x>>)) /\ d.text = JoinWith(Append(v2, <<y>>))
    <3>1. CASE gen.kind = "composite"
      BY <3>1, GeneratedBy
    <3>2. CASE gen.kind = "suffix"
      <4>1. PICK x \in SuffixRange : d.text = JoinWith(Append(v1, <<x>>))
        BY <3>2, GeneratedBy
      <4>2. PICK y \in SuffixRange : d.text = JoinWith(Append(v2, <<y>>))
        BY <3>2, GeneratedBy
      <4> QED
        BY <4>1, <4>2
    <3> QED
      BY <1>3, <3>1, <3>2 DEF Deterministic
  <2> HIDE DEF q, v1, v2
  <2>5. n = m /\ n # 0
    BY <2>2, <2>3, <2>4 DEF Values
  <2>6. /\ v1 \in [1 .. n -> Seq(Words)] /\ \A i \in 1 .. n : Free(v1[i])
        /\ v2 \in [1 .. n -> Seq(Words)] /\ \A i \in 1 .. n : Free(v2[i])
    BY <2>2, <2>3, <2>5 DEF Values
  <2>7. \A i \in 1 .. n : v1[i] = v2[i]
    <3>1. CASE JoinWith(v1) = JoinWith(v2)
      <4>1. FreeParts(v1, n, Words) /\ FreeParts(v2, n, Words)
        BY <2>5, <2>6 DEF FreeParts
      <4>2. v1 = v2
        BY <1>0, <3>1, <4>1, JoinInjective
      <4> QED
        BY <4>2
    <3>2. ASSUME NEW x \in SuffixRange, NEW y \in SuffixRange,
                 JoinWith(Append(v1, <<x>>)) = JoinWith(Append(v2, <<y>>))
          PROVE  \A i \in 1 .. n : v1[i] = v2[i]
      <4> DEFINE p == Append(v1, <<x>>)
                 r == Append(v2, <<y>>)
      <4>1. <<x>> \in Seq(Words) /\ <<y>> \in Seq(Words) /\ Free(<<x>>) /\ Free(<<y>>)
        <5>1. x \in Nat /\ y \in Nat /\ x # Sep /\ y # Sep
          BY ProducerAssumption DEF ProducerAssumption
        <5>2. <<x>> \in Seq(Words) /\ <<y>> \in Seq(Words)
          BY <5>1 DEF Words
        <5>3. Free(<<x>>) /\ Free(<<y>>)
          BY <5>1 DEF Free
        <5> QED
          BY <5>2, <5>3
      <4>2. /\ p \in [1 .. n + 1 -> Seq(Words)] /\ r \in [1 .. n + 1 -> Seq(Words)]
            /\ p[n + 1] = <<x>> /\ r[n + 1] = <<y>>
            /\ \A i \in 1 .. n : p[i] = v1[i] /\ r[i] = v2[i]
        <5>1. v1 \in Seq(Seq(Words)) /\ v2 \in Seq(Seq(Words)) /\ Len(v1) = n /\ Len(v2) = n
          BY <2>6
        <5>2. p \in Seq(Seq(Words)) /\ Len(p) = n + 1 /\ p[n + 1] = <<x>> /\ \A i \in 1 .. n : p[i] = v1[i]
          BY <4>1, <5>1, AppendProperties
        <5>3. r \in Seq(Seq(Words)) /\ Len(r) = n + 1 /\ r[n + 1] = <<y>> /\ \A i \in 1 .. n : r[i] = v2[i]
          BY <4>1, <5>1, AppendProperties
        <5> HIDE DEF p, r
        <5>4. p \in [1 .. n + 1 -> Seq(Words)] /\ r \in [1 .. n + 1 -> Seq(Words)]
          BY <5>2, <5>3
        <5> QED
          BY <5>2, <5>3, <5>4
      <4>4. JoinWith(p) = JoinWith(r)
        BY <3>2
      <4> HIDE DEF p, r
      <4>3. \A i \in 1 .. n + 1 : i \in 1 .. n \/ i = n + 1
        OBVIOUS
      <4>6. FreeParts(p, n + 1, Words)
        <5>1. \A i \in 1 .. n : Free(p[i])
          BY <2>6, <4>2
        <5>2. Free(p[n + 1])
          BY <4>1, <4>2
        <5>3. n + 1 \in Nat \ {0}
          OBVIOUS
        <5> QED
          BY <4>2, <4>3, <5>1, <5>2, <5>3 DEF FreeParts
      <4>7. FreeParts(r, n + 1, Words)
        <5>1. \A i \in 1 .. n : Free(r[i])
          BY <2>6, <4>2
        <5>2. Free(r[n + 1])
          BY <4>1, <4>2
        <5>3. n + 1 \in Nat \ {0}
          OBVIOUS
        <5> QED
          BY <4>2, <4>3, <5>1, <5>2, <5>3 DEF FreeParts
      <4>5. p = r
        BY <1>0, <4>4, <4>6, <4>7, JoinInjective
      <4> QED
        BY <4>2, <4>5
    <3> QED
      BY <2>10, <3>1, <3>2
  <2> QED
    BY <2>2, <2>3, <2>5, <2>7, SamePicked
<1> QED
  BY <1>2, <1>3

\* The selected fields of a message.
LEMMA SelectedIs ==
  ASSUME conf \in Configs, NEW m \in Messages
  PROVE  /\ Selected(m) = Picked(conf.dedupIDGen, Attributes[m])
         /\ conf.dedupIDGen.fields \in Seq(Nat) /\ conf.dedupIDGen.kind \in Generators
         /\ DOMAIN Attributes[m] \subseteq Nat /\ IsFiniteSet(DOMAIN Attributes[m])
         /\ Attributes[m] \in [DOMAIN Attributes[m] -> Seq(Tokens)]
<1> DEFINE gen == conf.dedupIDGen
           A == Attributes[m]
<1>1. gen.fields \in Seq(Nat) /\ gen.kind \in Generators
  BY ProducerAssumption DEF ProducerAssumption
<1>2. DOMAIN A \subseteq Nat /\ IsFiniteSet(DOMAIN A) /\ A \in [DOMAIN A -> Seq(Tokens)]
  BY ProducerAssumption DEF ProducerAssumption
<1>3. Range(SelectKeys(gen, A)) = Chosen(gen, A)
  <2> HIDE DEF gen, A
  <2> QED
    BY <1>1, <1>2, KeysAre
<1> QED
  BY <1>1, <1>2, <1>3 DEF Selected, Picked

\* A message that is told apart from another shares no deduplication ID with
\* it, except of a random generator's.
LEMMA TellsApart ==
  ASSUME conf \in Configs, conf.fifo, NEW m \in Messages, NEW n \in Messages \ {m}, ToldApart(m),
         NEW d, d # NoID, d.alg # "random", NEW u, NEW v,
         d \in ResolveID(conf.dedupIDGen, DedupID[m], Attributes[m], u),
         d \in ResolveID(conf.dedupIDGen, DedupID[n], Attributes[n], v)
  PROVE  FALSE
<1> DEFINE gen == conf.dedupIDGen
<1>1. \A l \in Messages : DedupID[l] = NoID \/ DedupID[l].alg \notin Generators
  BY ProducerAssumption DEF ProducerAssumption
<1>2. gen.kind \in Generators
  BY SelectedIs
<1>3. /\ d = DedupID[m] \/ (DedupID[m] = NoID /\ gen.kind # "none" /\ d \in Generate(gen, Attributes[m], u))
      /\ d = DedupID[n] \/ (DedupID[n] = NoID /\ gen.kind # "none" /\ d \in Generate(gen, Attributes[n], v))
  BY DEF ResolveID
<1>4. \A a, w : d \in Generate(gen, a, w) /\ gen.kind # "none" => gen.kind \in Deterministic /\ d.alg = gen.kind
  <2> SUFFICES ASSUME NEW a, NEW w, d \in Generate(gen, a, w), gen.kind # "none"
               PROVE  gen.kind \in Deterministic /\ d.alg = gen.kind
    OBVIOUS
  <2> HIDE DEF gen
  <2>1. CASE gen.kind = "random"
    <3>1. Generate(gen, a, w) = {[alg |-> gen.kind, text |-> t] : t \in {w}}
      BY <2>1 DEF Generate
    <3> QED
      BY <2>1, <3>1
  <2>2. CASE gen.kind \in Deterministic
    BY <2>2, GeneratedBy
  <2> QED
    BY <1>2, <2>1, <2>2 DEF Generators, Deterministic
<1>5. CASE d = DedupID[m] /\ d = DedupID[n]
  BY <1>5 DEF ToldApart
<1>6. CASE d = DedupID[m] /\ DedupID[n] = NoID /\ gen.kind # "none" /\ d \in Generate(gen, Attributes[n], v)
  BY <1>1, <1>2, <1>4, <1>6
<1>7. CASE d = DedupID[n] /\ DedupID[m] = NoID /\ gen.kind # "none" /\ d \in Generate(gen, Attributes[m], u)
  BY <1>1, <1>2, <1>4, <1>7
<1>8. CASE /\ DedupID[m] = NoID /\ DedupID[n] = NoID /\ gen.kind # "none"
           /\ d \in Generate(gen, Attributes[m], u) /\ d \in Generate(gen, Attributes[n], v)
  <2>1. gen.kind \in Deterministic
    BY <1>4, <1>8
  <2>2. /\ Selected(m) # Selected(n)
        /\ gen.kind # "keyBased" => DOMAIN Selected(m) = DOMAIN Selected(n)
        /\ \A l \in {m, n} : \A k \in DOMAIN Selected(l) : Sep \notin Range(Selected(l)[k])
    BY <1>8, <2>1 DEF ToldApart, Deterministic
  <2>3. Clean(gen, Attributes[m])
    <3>1. \A x \in Chosen(gen, Attributes[m]) : Sep \notin Range(Attributes[m][x])
      BY <2>2, SelectedIs DEF Picked
    <3>2. \A x \in Chosen(gen, Attributes[m]) : Free(Attributes[m][x])
      BY <3>1, SelectedIs DEF Chosen, Free, Range
    <3> QED
      BY <3>2, SelectedIs DEF Clean
  <2>4. Clean(gen, Attributes[n])
    <3>1. \A x \in Chosen(gen, Attributes[n]) : Sep \notin Range(Attributes[n][x])
      BY <2>2, SelectedIs DEF Picked
    <3>2. \A x \in Chosen(gen, Attributes[n]) : Free(Attributes[n][x])
      BY <3>1, SelectedIs DEF Chosen, Free, Range
    <3> QED
      BY <3>2, SelectedIs DEF Clean
  <2>5. gen.kind # "keyBased" => Chosen(gen, Attributes[m]) = Chosen(gen, Attributes[n])
    BY <2>2, SelectedIs DEF Picked
  <2>6. Picked(gen, Attributes[m]) # Picked(gen, Attributes[n])
    BY <2>2, SelectedIs
  <2> HIDE DEF gen
  <2> QED
    BY <1>8, <2>1, <2>3, <2>4, <2>5, <2>6, TextsDiffer
<1> QED
  BY <1>3, <1>5, <1>6, <1>7, <1>8

-----------------------------------------------------------------------------
(* The invariant.                                                           *)

\* The entries that the k-th call may make for m at its index i; Entries(m, i)
\* are those of the current one.
EntryOf(m, k, i) ==
  [msg : {m},
   group : ResolveID(conf.groupIDGen, GroupID[m], Attributes[m], <<"group", k, i>>),
   dedup : ResolveID(conf.dedupIDGen, DedupID[m], Attributes[m], <<"dedup", k, i>>)]

AnyEntry == UNION {EntryOf(m, k, i) : m \in Messages, k \in 0 .. MaxCalls, i \in 1 .. MaxBatch}

Msgs(c) == {entries[c][i].msg : i \in 1 .. Len(entries[c])}

Types ==
  /\ conf \in Configs
  /\ pc \in [Callers -> {"idle", "request", "answer"}]
  /\ single \in [Callers -> BOOLEAN]
  /\ entries \in [Callers -> Seq(AnyEntry)]
  /\ answer \in [Callers -> [error : BOOLEAN, successful : SUBSET Messages, failed : SUBSET Messages]]
  /\ topic \in Seq(AnyEntry)
  /\ outcome \in [Messages -> {"none", "ok", "failed", "error", "refused"}]
  /\ uncertain \subseteq Messages
  /\ calls \in 0 .. MaxCalls
  /\ faults \in 0 .. MaxFaults

\* A caller has a request only during a call, of no more than MaxBatch entries,
\* and no message in one is in another call; nothing is known of its outcome.
Requests ==
  \A c \in Callers :
    /\ Len(entries[c]) \in IF pc[c] = "idle" THEN {0} ELSE 1 .. MaxBatch
    /\ answer[c].successful \cap answer[c].failed = {}
    /\ \A d \in Callers \ {c} : Msgs(c) \cap Msgs(d) = {}
    /\ \A m \in Msgs(c) : outcome[m] = "none"

\* The entries that calls before this one may have made.
Drawn == UNION {EntryOf(m, k, i) : m \in Messages, k \in 0 .. calls - 1, i \in 1 .. MaxBatch}

Random(e) == e.dedup.alg = "random"

\* Every entry was made in an earlier call, and the random IDs in requests are
\* all different, and different from those on the topic until it answers.
Draws ==
  /\ \A i \in 1 .. Len(topic) : topic[i] \in Drawn
  /\ \A c \in Callers : \A i \in 1 .. Len(entries[c]) :
       /\ entries[c][i] \in Drawn
       /\ Random(entries[c][i]) =>
            /\ \A d \in Callers : \A j \in 1 .. Len(entries[d]) :
                 entries[d][j].dedup = entries[c][i].dedup => d = c /\ j = i
            /\ pc[c] = "request" =>
                 \A k \in 1 .. Len(topic) : topic[k].dedup # entries[c][i].dedup

\* A FIFO topic holds no deduplication ID twice, and none that is missing.
Distinct ==
  conf.fifo =>
    /\ \A i, j \in 1 .. Len(topic) : topic[i].dedup = topic[j].dedup => i = j
    /\ \A i \in 1 .. Len(topic) : topic[i].dedup # NoID

\* The deduplication ID of m may have been e's, and is not a random one.
Shares(m, e) ==
  /\ ~ Random(e)
  /\ \E k \in 0 .. MaxCalls : \E i \in 1 .. MaxBatch :
       e.dedup \in ResolveID(conf.dedupIDGen, DedupID[m], Attributes[m], <<"dedup", k, i>>)

\* m is on the topic, or something is that shares its deduplication ID.
Stored(m) ==
  \/ \E k \in 1 .. Len(topic) : topic[k].msg = m
  \/ conf.fifo /\ \E k \in 1 .. Len(topic) : Shares(m, topic[k])

\* What is acknowledged, to the caller or on the way to it, is stored.
Acknowledged ==
  /\ \A m \in Messages : outcome[m] = "ok" => Stored(m)
  /\ \A c \in Callers : pc[c] = "answer" => \A m \in answer[c].successful : Stored(m)

\* What is on the topic and not in doubt is acknowledged, or the answer that
\* acknowledges it, or puts it in doubt, is on the way to the caller.
Accounted ==
  \A k \in 1 .. Len(topic) :
    LET m == topic[k].msg
    IN  m \in uncertain \/ outcome[m] = "ok"
        \/ \E c \in Callers : /\ pc[c] = "answer" /\ m \in Msgs(c)
                              /\ answer[c].error \/ m \in answer[c].successful

IInv == Types /\ Requests /\ Draws /\ Distinct /\ Acknowledged /\ Accounted
\* The request that is made of es: entries for messages that may be published.
Made(es) ==
  /\ es \in Seq(AnyEntry) /\ Len(es) \in 1 .. MaxBatch
  /\ \A i \in 1 .. Len(es) : es[i].msg \in Publishable /\ es[i] \in EntryOf(es[i].msg, calls, i)

\* While the configuration stays, so do the entries that can be made.
LEMMA EntryFixed ==
  ASSUME conf' = conf
  PROVE  /\ \A m, k, i : EntryOf(m, k, i)' = EntryOf(m, k, i)
         /\ AnyEntry' = AnyEntry
         /\ \A m, e : Shares(m, e)' = Shares(m, e)
<1>0. \A gen, x, a, u : ResolveID(gen, x, a, u)' = ResolveID(gen, x, a, u)
  BY DEF ResolveID
<1>1. \A m, k, i : EntryOf(m, k, i)' = EntryOf(m, k, i)
  BY <1>0 DEF EntryOf
<1>2. AnyEntry' = AnyEntry
  BY <1>1 DEF AnyEntry
<1>3. \A m, e : Shares(m, e)' = Shares(m, e)
  BY <1>0 DEF Shares, Random
<1> QED
  BY <1>1, <1>2, <1>3

\* What was made before a call was made before a later one.
LEMMA DrawnLater ==
  ASSUME conf' = conf, calls \in Nat, calls' = calls \/ calls' = calls + 1
  PROVE  Drawn \subseteq Drawn'
<1>1. \A m, k, i : EntryOf(m, k, i)' = EntryOf(m, k, i)
  BY EntryFixed
<1>2. 0 .. calls - 1 \subseteq 0 .. calls' - 1
  OBVIOUS
<1> QED
  BY <1>1, <1>2 DEF Drawn

\* An entry is for its message, with an ID for each use.
LEMMA EntryIs ==
  ASSUME NEW m, NEW k, NEW i, NEW e \in EntryOf(m, k, i)
  PROVE  /\ e.msg = m
         /\ e.group \in ResolveID(conf.groupIDGen, GroupID[m], Attributes[m], <<"group", k, i>>)
         /\ e.dedup \in ResolveID(conf.dedupIDGen, DedupID[m], Attributes[m], <<"dedup", k, i>>)
BY DEF EntryOf

\* A random ID names the call and the index it was made at.
LEMMA RandomIs ==
  ASSUME conf \in Configs, NEW m \in Messages, NEW k, NEW i, NEW e \in EntryOf(m, k, i), Random(e)
  PROVE  e.dedup.text = <<"dedup", k, i>>
<1> DEFINE gen == conf.dedupIDGen
           d == e.dedup
           u == <<"dedup", k, i>>
<1>1. d.alg = "random" /\ d \in ResolveID(gen, DedupID[m], Attributes[m], u)
  BY EntryIs DEF Random
<1>2. DedupID[m] = NoID \/ DedupID[m].alg \notin Generators
  BY ProducerAssumption DEF ProducerAssumption
<1>3. gen.kind \in Generators
  BY SelectedIs
<1>4. d # DedupID[m]
  BY <1>1, <1>2 DEF NoID, Generators
<1>5. d \in Generate(gen, Attributes[m], u) /\ gen.kind # "none"
  BY <1>1, <1>4 DEF ResolveID
<1> HIDE DEF gen, d, u
<1>6. gen.kind \notin Deterministic
  <2> SUFFICES ASSUME gen.kind \in Deterministic PROVE FALSE
    OBVIOUS
  <2>1. d.alg = gen.kind
    BY <1>5, GeneratedBy
  <2> QED
    BY <1>1, <2>1 DEF Deterministic
<1>7. gen.kind = "random"
  BY <1>3, <1>5, <1>6 DEF Generators, Deterministic
<1>8. Generate(gen, Attributes[m], u) = {[alg |-> gen.kind, text |-> t] : t \in {u}}
  BY <1>7 DEF Generate
<1>9. d.text = u
  BY <1>5, <1>8
<1> QED
  BY <1>9 DEF d, u

\* The messages of a request, and those that are in none.
LEMMA MsgsIs ==
  ASSUME Types
  PROVE  /\ \A c \in Callers : Msgs(c) = {e.msg : e \in Range(entries[c])}
         /\ \A m \in Publishable : /\ m \in Messages /\ outcome[m] # "ok"
                                   /\ \A c \in Callers : m \notin Msgs(c)
<1>1. ASSUME NEW c \in Callers PROVE Msgs(c) = {e.msg : e \in Range(entries[c])}
  <2>1. entries[c] \in Seq(AnyEntry)
    BY DEF Types
  <2>2. Range(entries[c]) = {entries[c][i] : i \in 1 .. Len(entries[c])}
    BY <2>1 DEF Range
  <2> QED
    BY <2>2 DEF Msgs
<1>2. \A m \in Publishable : m \in Messages /\ outcome[m] # "ok" /\ m \notin Busy
  BY DEF Publishable
<1>3. \A c \in Callers : Msgs(c) \subseteq Busy
  BY <1>1 DEF Busy
<1> QED
  BY <1>1, <1>2, <1>3

\* Of entries made before this call, none has an ID this call draws at random.
LEMMA NewRandom ==
  ASSUME Types, NEW e \in Drawn, NEW m \in Messages, NEW i, NEW f \in EntryOf(m, calls, i), Random(f)
  PROVE  e.dedup # f.dedup
<1> SUFFICES ASSUME e.dedup = f.dedup PROVE FALSE
  OBVIOUS
<1>1. PICK n \in Messages, k \in 0 .. calls - 1, j \in 1 .. MaxBatch : e \in EntryOf(n, k, j)
  BY DEF Drawn
<1>3. Random(e) /\ conf \in Configs
  BY DEF Random, Types
<1>4. e.dedup.text = <<"dedup", k, j>>
  BY <1>1, <1>3, RandomIs
<1>5. f.dedup.text = <<"dedup", calls, i>>
  BY <1>3, RandomIs
<1>6. k = calls
  BY <1>4, <1>5
<1>7. calls \in Nat
  BY DEF Types
<1> QED
  BY <1>1, <1>6, <1>7

\* What is in a request or on the topic is an entry for a message.
LEMMA EntriesAre ==
  ASSUME Types
  PROVE  /\ \A d \in Callers : \A j \in 1 .. Len(entries[d]) : entries[d][j].msg \in Messages
         /\ \A k \in 1 .. Len(topic) : topic[k].msg \in Messages
         /\ \A d \in Callers : Msgs(d) \subseteq Messages
<1>1. \A e \in AnyEntry : e.msg \in Messages
  <2> TAKE e \in AnyEntry
  <2>1. PICK m \in Messages, k \in 0 .. MaxCalls, i \in 1 .. MaxBatch : e \in EntryOf(m, k, i)
    BY DEF AnyEntry
  <2>2. e.msg = m
    BY <2>1, EntryIs
  <2> QED
    BY <2>2
<1>2. \A k \in 1 .. Len(topic) : topic[k] \in AnyEntry
  BY DEF Types
<1>3. \A d \in Callers : \A j \in 1 .. Len(entries[d]) : entries[d][j] \in AnyEntry
  <2> TAKE d \in Callers
  <2>1. entries[d] \in Seq(AnyEntry)
    BY DEF Types
  <2> QED
    BY <2>1
<1>4. \A d \in Callers : Msgs(d) \subseteq Messages
  BY <1>1, <1>3 DEF Msgs
<1> QED
  BY <1>1, <1>2, <1>3, <1>4

-----------------------------------------------------------------------------
(* Every step keeps the invariant.                                          *)

\* The start.
LEMMA InitInv == Init => IInv
<1> SUFFICES ASSUME Init PROVE IInv
  OBVIOUS
<1>1. Types
  <2>1. NoAnswer \in [error : BOOLEAN, successful : SUBSET Messages, failed : SUBSET Messages]
    BY DEF NoAnswer
  <2>2. MaxCalls \in Nat /\ MaxFaults \in Nat
    BY ProducerAssumption DEF ProducerAssumption
  <2>3. << >> \in Seq(AnyEntry)
    OBVIOUS
  <2> QED
    BY <2>1, <2>2, <2>3 DEF Init, Types
<1>2. Len(<< >>) = 0
  OBVIOUS
<1>3. \A c \in Callers : Msgs(c) = {} /\ Len(entries[c]) = 0
  BY <1>2 DEF Init, Msgs
<1>4. Requests
  BY <1>3 DEF Init, Requests, NoAnswer
<1>5. Draws
  BY <1>2, <1>3 DEF Init, Draws
<1>6. Distinct /\ Accounted
  BY <1>2 DEF Init, Distinct, Accounted
<1>7. Acknowledged
  BY DEF Init, Acknowledged
<1> QED
  BY <1>1, <1>4, <1>5, <1>6, <1>7 DEF IInv

\* A call that is refused.
LEMMA RefuseKeeps ==
  ASSUME IInv, NEW c \in Callers, Call(c), NEW ms, Refuse(ms), Range(ms) \subseteq Publishable
  PROVE  IInv'
<1>1. /\ conf' = conf /\ pc' = pc /\ single' = single /\ entries' = entries /\ answer' = answer
      /\ topic' = topic /\ uncertain' = uncertain /\ calls' = calls + 1 /\ faults' = faults
      /\ calls < MaxCalls
  BY DEF Call, Refuse
<1>2. outcome' = [m \in Messages |-> IF m \in Range(ms) THEN "refused" ELSE outcome[m]]
  BY DEF Refuse
<1>3. Types /\ Requests /\ Draws /\ Distinct /\ Acknowledged /\ Accounted
  BY DEF IInv
<1>4. /\ AnyEntry' = AnyEntry /\ \A m, e : Shares(m, e)' = Shares(m, e)
      /\ Drawn \subseteq Drawn'
  BY <1>1, <1>3, EntryFixed, DrawnLater DEF Types
<1>5. \A d \in Callers : Msgs(d)' = Msgs(d)
  BY <1>1 DEF Msgs
<1>6. \A m \in Range(ms) : m \in Messages /\ outcome[m] # "ok" /\ \A d \in Callers : m \notin Msgs(d)
  BY <1>3, MsgsIs
<1>7. Types'
  <2>1. calls' \in 0 .. MaxCalls
    BY <1>1, <1>3, ProducerAssumption DEF Types, ProducerAssumption
  <2>2. outcome' \in [Messages -> {"none", "ok", "failed", "error", "refused"}]
    BY <1>2, <1>3 DEF Types
  <2> QED
    BY <1>1, <1>3, <1>4, <2>1, <2>2 DEF Types
<1>8. Requests'
  <2> SUFFICES ASSUME NEW d \in Callers
               PROVE  /\ Len(entries'[d]) \in IF pc'[d] = "idle" THEN {0} ELSE 1 .. MaxBatch
                      /\ answer'[d].successful \cap answer'[d].failed = {}
                      /\ \A x \in Callers \ {d} : Msgs(d)' \cap Msgs(x)' = {}
                      /\ \A m \in Msgs(d)' : outcome'[m] = "none"
    BY DEF Requests
  <2>1. \A m \in Msgs(d) : outcome[m] = "none" /\ outcome'[m] = "none"
    <3>1. \A m \in Msgs(d) : m \notin Range(ms) /\ outcome[m] = "none"
      BY <1>3, <1>6 DEF Requests
    <3>2. \A m \in Msgs(d) : m \in Messages
      BY <1>3, EntriesAre
    <3> QED
      BY <1>2, <3>1, <3>2
  <2> QED
    BY <1>1, <1>3, <1>5, <2>1 DEF Requests
<1>9. Draws'
  BY <1>1, <1>3, <1>4 DEF Draws, Random
<1>10. Distinct'
  BY <1>1, <1>3 DEF Distinct
<1>11. \A m : Stored(m)' = Stored(m)
  BY <1>1, <1>4 DEF Stored
<1>12. Acknowledged'
  <2>1. \A m \in Messages : outcome'[m] = "ok" => outcome[m] = "ok"
    BY <1>2
  <2> QED
    BY <1>1, <1>3, <1>11, <2>1 DEF Acknowledged
<1>13. Accounted'
  <2>1. \A m \in Messages : outcome[m] = "ok" => outcome'[m] = "ok"
    BY <1>2, <1>6
  <2>2. \A k \in 1 .. Len(topic) : topic[k].msg \in Messages
    BY <1>3, EntriesAre
  <2> QED
    BY <1>1, <1>3, <1>5, <2>1, <2>2 DEF Accounted
<1> QED
  BY <1>7, <1>8, <1>9, <1>10, <1>12, <1>13 DEF IInv

\* A request that goes out.
LEMMA RequestKeeps ==
  ASSUME IInv, NEW c \in Callers, Call(c), NEW alone \in BOOLEAN, NEW es, Made(es), Request(c, alone, es)
  PROVE  IInv'
<1>1. /\ conf' = conf /\ answer' = answer /\ topic' = topic /\ uncertain' = uncertain
      /\ calls' = calls + 1 /\ faults' = faults /\ calls < MaxCalls /\ pc[c] = "idle"
  BY DEF Call
<1>2. /\ entries' = [entries EXCEPT ![c] = es] /\ single' = [single EXCEPT ![c] = alone]
      /\ pc' = [pc EXCEPT ![c] = "request"]
      /\ outcome' = [m \in Messages |-> IF \E e \in Range(es) : e.msg = m THEN "none" ELSE outcome[m]]
  BY DEF Request
<1>3. Types /\ Requests /\ Draws /\ Distinct /\ Acknowledged /\ Accounted
  BY DEF IInv
<1>4. /\ AnyEntry' = AnyEntry /\ \A m, e : Shares(m, e)' = Shares(m, e)
      /\ \A m, k, i : EntryOf(m, k, i)' = EntryOf(m, k, i)
      /\ Drawn \subseteq Drawn'
  BY <1>1, <1>3, EntryFixed, DrawnLater DEF Types
<1>5. /\ es \in Seq(AnyEntry) /\ Len(es) \in 1 .. MaxBatch /\ DOMAIN es = 1 .. Len(es)
      /\ \A i \in 1 .. Len(es) : es[i].msg \in Publishable /\ es[i] \in EntryOf(es[i].msg, calls, i)
  BY DEF Made
<1>6. /\ entries'[c] = es /\ pc'[c] = "request"
      /\ \A d \in Callers \ {c} : entries'[d] = entries[d] /\ pc'[d] = pc[d]
  BY <1>2, <1>3 DEF Types
<1>7. /\ Msgs(c)' = {es[i].msg : i \in 1 .. Len(es)}
      /\ \A d \in Callers \ {c} : Msgs(d)' = Msgs(d)
  BY <1>6 DEF Msgs
<1>8. \A m \in Msgs(c)' : /\ m \in Messages /\ outcome[m] # "ok"
                          /\ \A d \in Callers : m \notin Msgs(d)
  BY <1>3, <1>5, <1>7, MsgsIs
<1>9. \A m \in Messages : outcome'[m] = IF m \in Msgs(c)' THEN "none" ELSE outcome[m]
  <2>1. \A m : (\E e \in Range(es) : e.msg = m) <=> m \in Msgs(c)'
    <3>1. Range(es) = {es[i] : i \in 1 .. Len(es)}
      BY <1>5 DEF Range
    <3> QED
      BY <1>7, <3>1
  <2> QED
    BY <1>2, <2>1
<1>10. \A d \in Callers : \A m \in Msgs(d) : m \in Messages
  BY <1>3, EntriesAre
<1>11. Types'
  <2>1. calls' \in 0 .. MaxCalls
    BY <1>1, <1>3, ProducerAssumption DEF Types, ProducerAssumption
  <2>2. outcome' \in [Messages -> {"none", "ok", "failed", "error", "refused"}]
    BY <1>2, <1>3 DEF Types
  <2>3. entries' \in [Callers -> Seq(AnyEntry)]
    BY <1>2, <1>3, <1>5 DEF Types
  <2>4. /\ pc' \in [Callers -> {"idle", "request", "answer"}]
        /\ single' \in [Callers -> BOOLEAN]
    BY <1>2, <1>3 DEF Types
  <2> QED
    BY <1>1, <1>3, <1>4, <2>1, <2>2, <2>3, <2>4 DEF Types
<1>12. Requests'
  <2> SUFFICES ASSUME NEW d \in Callers
               PROVE  /\ Len(entries'[d]) \in IF pc'[d] = "idle" THEN {0} ELSE 1 .. MaxBatch
                      /\ answer'[d].successful \cap answer'[d].failed = {}
                      /\ \A x \in Callers \ {d} : Msgs(d)' \cap Msgs(x)' = {}
                      /\ \A m \in Msgs(d)' : outcome'[m] = "none"
    BY DEF Requests
  <2>1. Len(entries'[d]) \in IF pc'[d] = "idle" THEN {0} ELSE 1 .. MaxBatch
    BY <1>3, <1>5, <1>6 DEF Requests
  <2>2. answer'[d].successful \cap answer'[d].failed = {}
    BY <1>1, <1>3 DEF Requests
  <2>3. \A x \in Callers \ {d} : Msgs(d)' \cap Msgs(x)' = {}
    <3> TAKE x \in Callers \ {d}
    <3>1. CASE d = c
      BY <3>1, <1>7, <1>8
    <3>2. CASE x = c
      BY <3>2, <1>7, <1>8
    <3>3. CASE d # c /\ x # c
      BY <3>3, <1>3, <1>7 DEF Requests
    <3> QED
      BY <3>1, <3>2, <3>3
  <2>4. \A m \in Msgs(d)' : outcome'[m] = "none"
    <3>1. CASE d = c
      BY <3>1, <1>8, <1>9
    <3>2. CASE d # c
      BY <3>2, <1>3, <1>7, <1>9, <1>10 DEF Requests
    <3> QED
      BY <3>1, <3>2
  <2> QED
    BY <2>1, <2>2, <2>3, <2>4
<1>13. \A i \in 1 .. Len(es) : es[i].msg \in Messages
  BY <1>7, <1>8
<1>14. /\ \A d \in Callers : \A j \in 1 .. Len(entries[d]) : entries[d][j].msg \in Messages
       /\ \A k \in 1 .. Len(topic) : topic[k].msg \in Messages
  BY <1>3, EntriesAre
<1>15. Draws'
  <2>1. \A k \in 1 .. Len(topic) : topic[k] \in Drawn'
    BY <1>3, <1>4 DEF Draws
  <2>2. \A i \in 1 .. Len(es) : es[i] \in Drawn'
    <3>1. calls \in 0 .. calls' - 1
      BY <1>1, <1>3 DEF Types
    <3>2. \A i \in 1 .. Len(es) : i \in 1 .. MaxBatch
      BY <1>5, ProducerAssumption DEF ProducerAssumption
    <3> QED
      BY <1>4, <1>5, <1>13, <3>1, <3>2 DEF Drawn
  <2>3. ASSUME NEW i \in 1 .. Len(es), Random(es[i])
        PROVE  /\ \A d \in Callers : \A j \in 1 .. Len(entries[d]) : entries[d][j].dedup # es[i].dedup
               /\ \A k \in 1 .. Len(topic) : topic[k].dedup # es[i].dedup
               /\ \A j \in 1 .. Len(es) : es[j].dedup = es[i].dedup => j = i
    <3>1. es[i] \in EntryOf(es[i].msg, calls, i) /\ es[i].msg \in Messages
      BY <1>5, <1>13
    <3>2. \A e \in Drawn : e.dedup # es[i].dedup
      BY <1>3, <2>3, <3>1, NewRandom
    <3>3. \A d \in Callers : \A j \in 1 .. Len(entries[d]) : entries[d][j].dedup # es[i].dedup
      BY <1>3, <3>2 DEF Draws
    <3>4. \A k \in 1 .. Len(topic) : topic[k].dedup # es[i].dedup
      BY <1>3, <3>2 DEF Draws
    <3>5. ASSUME NEW j \in 1 .. Len(es), es[j].dedup = es[i].dedup PROVE j = i
      <4>1. es[j] \in EntryOf(es[j].msg, calls, j) /\ es[j].msg \in Messages /\ Random(es[j])
        BY <1>5, <1>13, <2>3, <3>5 DEF Random
      <4>2. conf \in Configs
        BY <1>3 DEF Types
      <4>3. es[j].dedup.text = <<"dedup", calls, j>>
        BY <4>1, <4>2, RandomIs
      <4>4. es[i].dedup.text = <<"dedup", calls, i>>
        BY <2>3, <3>1, <4>2, RandomIs
      <4> QED
        BY <3>5, <4>3, <4>4
    <3> QED
      BY <3>3, <3>4, <3>5
  <2>4. ASSUME NEW d \in Callers, NEW i \in 1 .. Len(entries'[d])
        PROVE  /\ entries'[d][i] \in Drawn'
               /\ Random(entries'[d][i]) =>
                    /\ \A x \in Callers : \A j \in 1 .. Len(entries'[x]) :
                         entries'[x][j].dedup = entries'[d][i].dedup => x = d /\ j = i
                    /\ pc'[d] = "request" =>
                         \A k \in 1 .. Len(topic) : topic[k].dedup # entries'[d][i].dedup
    <3>1. CASE d = c
      <4>1. i \in 1 .. Len(es) /\ entries'[d][i] = es[i]
        BY <1>6, <3>1
      <4> QED
        BY <1>6, <2>2, <2>3, <3>1, <4>1
    <3>2. CASE d # c
      <4>1. i \in 1 .. Len(entries[d]) /\ entries'[d] = entries[d] /\ pc'[d] = pc[d]
        BY <1>6, <3>2
      <4>2. entries[d][i] \in Drawn'
        BY <1>3, <1>4, <4>1 DEF Draws
      <4>3. ASSUME Random(entries[d][i]), NEW x \in Callers, NEW j \in 1 .. Len(entries'[x]),
                   entries'[x][j].dedup = entries[d][i].dedup
            PROVE  x = d /\ j = i
        <5>1. CASE x = c
          <6>1. j \in 1 .. Len(es) /\ es[j].dedup = entries[d][i].dedup
            BY <1>6, <4>3, <5>1
          <6>2. Random(es[j])
            BY <4>3, <6>1 DEF Random
          <6> QED
            BY <2>3, <4>1, <6>1, <6>2
        <5>2. CASE x # c
          BY <1>3, <1>6, <4>1, <4>3, <5>2 DEF Draws
        <5> QED
          BY <5>1, <5>2
      <4>4. Random(entries[d][i]) /\ pc[d] = "request" =>
              \A k \in 1 .. Len(topic) : topic[k].dedup # entries[d][i].dedup
        BY <1>3, <4>1 DEF Draws
      <4> QED
        BY <4>1, <4>2, <4>3, <4>4
    <3> QED
      BY <3>1, <3>2
  <2> QED
    BY <1>1, <2>1, <2>4 DEF Draws, Random
<1>16. Distinct'
  BY <1>1, <1>3 DEF Distinct
<1>17. \A m : Stored(m)' = Stored(m)
  BY <1>1, <1>4 DEF Stored
<1>18. Acknowledged'
  <2>1. \A m \in Messages : outcome'[m] = "ok" => outcome[m] = "ok"
    BY <1>9
  <2>2. \A d \in Callers : pc'[d] = "answer" => pc[d] = "answer"
    BY <1>6
  <2> QED
    BY <1>1, <1>3, <1>17, <2>1, <2>2 DEF Acknowledged
<1>19. Accounted'
  <2>1. \A m \in Messages : outcome[m] = "ok" => outcome'[m] = "ok"
    BY <1>8, <1>9
  <2>2. \A d \in Callers : pc[d] = "answer" => pc'[d] = "answer" /\ Msgs(d)' = Msgs(d)
    BY <1>1, <1>6, <1>7
  <2> QED
    BY <1>1, <1>3, <1>14, <2>1, <2>2 DEF Accounted
<1> QED
  BY <1>11, <1>12, <1>15, <1>16, <1>18, <1>19 DEF IInv

\* A request that is lost.
LEMMA LoseKeeps ==
  ASSUME IInv, NEW c \in Callers, Lose(c)
  PROVE  IInv'
<1>1. /\ conf' = conf /\ single' = single /\ entries' = entries /\ topic' = topic
      /\ outcome' = outcome /\ uncertain' = uncertain /\ calls' = calls
      /\ pc[c] = "request" /\ pc' = [pc EXCEPT ![c] = "answer"]
      /\ answer' = [answer EXCEPT ![c] = NoAnswer]
      /\ faults < MaxFaults /\ faults' = faults + 1
  BY DEF Lose, Fault
<1>2. Types /\ Requests /\ Draws /\ Distinct /\ Acknowledged /\ Accounted
  BY DEF IInv
<1>3. /\ pc'[c] = "answer" /\ answer'[c] = NoAnswer
      /\ \A d \in Callers \ {c} : pc'[d] = pc[d] /\ answer'[d] = answer[d]
  BY <1>1, <1>2 DEF Types
<1>4. /\ AnyEntry' = AnyEntry /\ \A m, e : Shares(m, e)' = Shares(m, e)
      /\ Drawn \subseteq Drawn'
  BY <1>1, <1>2, EntryFixed, DrawnLater DEF Types
<1>5. \A d \in Callers : Msgs(d)' = Msgs(d)
  BY <1>1 DEF Msgs
<1>6. Types'
  <2>1. faults' \in 0 .. MaxFaults
    BY <1>1, <1>2, ProducerAssumption DEF Types, ProducerAssumption
  <2>2. NoAnswer \in [error : BOOLEAN, successful : SUBSET Messages, failed : SUBSET Messages]
    BY DEF NoAnswer
  <2>3. /\ pc' \in [Callers -> {"idle", "request", "answer"}]
        /\ answer' \in [Callers -> [error : BOOLEAN, successful : SUBSET Messages, failed : SUBSET Messages]]
    BY <1>1, <1>2, <2>2 DEF Types
  <2> QED
    BY <1>1, <1>2, <1>4, <2>1, <2>3 DEF Types
<1>7. Requests'
  <2>1. \A d \in Callers : Len(entries'[d]) \in IF pc'[d] = "idle" THEN {0} ELSE 1 .. MaxBatch
    BY <1>1, <1>2, <1>3 DEF Requests
  <2>2. \A d \in Callers : answer'[d].successful \cap answer'[d].failed = {}
    BY <1>2, <1>3 DEF Requests, NoAnswer
  <2> QED
    BY <1>1, <1>2, <1>5, <2>1, <2>2 DEF Requests
<1>8. Draws'
  <2>1. \A d \in Callers : pc'[d] = "request" => pc[d] = "request"
    BY <1>3
  <2> QED
    BY <1>1, <1>2, <1>4, <2>1 DEF Draws, Random
<1>9. Distinct'
  BY <1>1, <1>2 DEF Distinct
<1>10. \A m : Stored(m)' = Stored(m)
  BY <1>1, <1>4 DEF Stored
<1>11. Acknowledged'
  <2>1. \A d \in Callers : pc'[d] = "answer" => \A m \in answer'[d].successful : Stored(m)
    BY <1>2, <1>3 DEF Acknowledged, NoAnswer
  <2> QED
    BY <1>1, <1>2, <1>10, <2>1 DEF Acknowledged
<1>12. Accounted'
  <2>1. \A d \in Callers : pc[d] = "answer" => pc'[d] = "answer" /\ answer'[d] = answer[d]
    BY <1>1, <1>3
  <2> QED
    BY <1>1, <1>2, <1>5, <2>1 DEF Accounted
<1> QED
  BY <1>6, <1>7, <1>8, <1>9, <1>11, <1>12 DEF IInv

\* A call that returns.
LEMMA ReturnKeeps ==
  ASSUME IInv, NEW c \in Callers, Return(c)
  PROVE  IInv'
<1>1. /\ conf' = conf /\ single' = single /\ topic' = topic /\ calls' = calls
      /\ answer' = answer /\ faults' = faults /\ pc[c] = "answer"
      /\ pc' = [pc EXCEPT ![c] = "idle"] /\ entries' = [entries EXCEPT ![c] = << >>]
  BY DEF Return
<1>2. Types /\ Requests /\ Draws /\ Distinct /\ Acknowledged /\ Accounted
  BY DEF IInv
<1>3. /\ pc'[c] = "idle" /\ entries'[c] = << >>
      /\ \A d \in Callers \ {c} : pc'[d] = pc[d] /\ entries'[d] = entries[d]
  BY <1>1, <1>2 DEF Types
<1>4. /\ AnyEntry' = AnyEntry /\ \A m, e : Shares(m, e)' = Shares(m, e)
      /\ Drawn \subseteq Drawn'
  BY <1>1, <1>2, EntryFixed, DrawnLater DEF Types
<1>20. Len(<< >>) = 0
  OBVIOUS
<1>5. Msgs(c)' = {} /\ \A d \in Callers \ {c} : Msgs(d)' = Msgs(d)
  BY <1>3, <1>20 DEF Msgs
<1>21. Msgs(c) = {e.msg : e \in Range(entries[c])} /\ Msgs(c) \subseteq Messages
  BY <1>2, MsgsIs, EntriesAre
<1>6. uncertain' = IF answer[c].error THEN uncertain \cup Msgs(c) ELSE uncertain
  BY <1>21 DEF Return
<1>7. \A m \in Messages :
        outcome'[m] = IF m \in Msgs(c)
                        THEN IF answer[c].error THEN "error"
                             ELSE IF m \in answer[c].successful THEN "ok" ELSE "failed"
                        ELSE outcome[m]
  <2>1. MapBatchOutput(c) =
          [m \in Msgs(c) |-> IF answer[c].error THEN "error"
                             ELSE IF m \in answer[c].successful THEN "ok" ELSE "failed"]
    BY <1>21 DEF MapBatchOutput
  <2>2. outcome' = [m \in Messages |-> IF m \in DOMAIN MapBatchOutput(c) THEN MapBatchOutput(c)[m]
                                                                        ELSE outcome[m]]
    BY DEF Return
  <2> QED
    BY <2>1, <2>2
<1>8. outcome' \in [Messages -> {"none", "ok", "failed", "error", "refused"}]
  <2>1. outcome' = [m \in Messages |-> outcome'[m]]
    BY DEF Return
  <2>2. \A m \in Messages : outcome'[m] \in {"none", "ok", "failed", "error", "refused"}
    BY <1>2, <1>7 DEF Types
  <2> QED
    BY <2>1, <2>2
<1>9. Types'
  <2>1. /\ pc' \in [Callers -> {"idle", "request", "answer"}]
        /\ entries' \in [Callers -> Seq(AnyEntry)]
    BY <1>1, <1>2 DEF Types
  <2>2. uncertain' \subseteq Messages
    BY <1>2, <1>6, <1>21 DEF Types
  <2> QED
    BY <1>1, <1>2, <1>4, <1>8, <2>1, <2>2 DEF Types
<1>10. Requests'
  <2>1. \A d \in Callers : Len(entries'[d]) \in IF pc'[d] = "idle" THEN {0} ELSE 1 .. MaxBatch
    BY <1>2, <1>3, <1>20 DEF Requests
  <2>2. \A d \in Callers : \A x \in Callers \ {d} : Msgs(d)' \cap Msgs(x)' = {}
    BY <1>2, <1>5 DEF Requests
  <2>3. ASSUME NEW d \in Callers, NEW m \in Msgs(d)' PROVE outcome'[m] = "none"
    <3>1. d # c /\ m \in Msgs(d)
      BY <1>5, <2>3
    <3>2. m \in Messages /\ m \notin Msgs(c) /\ outcome[m] = "none"
      BY <1>2, <3>1, EntriesAre DEF Requests
    <3> QED
      BY <1>7, <3>2
  <2> QED
    BY <1>1, <1>2, <2>1, <2>2, <2>3 DEF Requests
<1>11. Draws'
  <2>1. ASSUME NEW d \in Callers, NEW i \in 1 .. Len(entries'[d])
        PROVE  /\ entries'[d][i] \in Drawn
               /\ Random(entries'[d][i]) =>
                    /\ \A x \in Callers : \A j \in 1 .. Len(entries'[x]) :
                         entries'[x][j].dedup = entries'[d][i].dedup => x = d /\ j = i
                    /\ pc'[d] = "request" =>
                         \A k \in 1 .. Len(topic) : topic[k].dedup # entries'[d][i].dedup
    <3>1. \A x \in Callers : 1 .. Len(entries'[x]) # {} => x # c
      BY <1>3, <1>20
    <3>2. d # c
      BY <2>1, <3>1
    <3> QED
      BY <1>2, <1>3, <3>1, <3>2 DEF Draws
  <2>2. \A k \in 1 .. Len(topic) : topic[k] \in Drawn
    BY <1>2 DEF Draws
  <2> QED
    BY <1>1, <1>4, <2>1, <2>2 DEF Draws, Random
<1>12. Distinct'
  BY <1>1, <1>2 DEF Distinct
<1>13. \A m : Stored(m)' = Stored(m)
  BY <1>1, <1>4 DEF Stored
<1>14. Acknowledged'
  <2>1. \A m \in Messages : outcome'[m] = "ok" => Stored(m)
    <3> TAKE m \in Messages
    <3>1. CASE m \in Msgs(c)
      BY <1>1, <1>2, <1>7, <3>1 DEF Acknowledged
    <3>2. CASE m \notin Msgs(c)
      BY <1>2, <1>7, <3>2 DEF Acknowledged
    <3> QED
      BY <3>1, <3>2
  <2>2. \A d \in Callers : pc'[d] = "answer" => pc[d] = "answer"
    BY <1>3
  <2> QED
    BY <1>1, <1>2, <1>13, <2>1, <2>2 DEF Acknowledged
<1>15. Accounted'
  <2> SUFFICES ASSUME NEW k \in 1 .. Len(topic), NEW m, m = topic[k].msg
               PROVE  \/ m \in uncertain' \/ outcome'[m] = "ok"
                      \/ \E d \in Callers : /\ pc'[d] = "answer" /\ m \in Msgs(d)'
                                            /\ answer[d].error \/ m \in answer[d].successful
    BY <1>1 DEF Accounted
  <2>1. m \in Messages
    BY <1>2, EntriesAre
  <2>2. CASE m \in uncertain
    BY <1>6, <2>2
  <2>3. CASE outcome[m] = "ok"
    <3>1. m \notin Msgs(c)
      BY <1>2, <2>3 DEF Requests
    <3> QED
      BY <1>7, <2>1, <2>3, <3>1
  <2>4. ASSUME NEW d \in Callers, pc[d] = "answer", m \in Msgs(d),
               answer[d].error \/ m \in answer[d].successful
        PROVE  \/ m \in uncertain' \/ outcome'[m] = "ok"
               \/ \E x \in Callers : /\ pc'[x] = "answer" /\ m \in Msgs(x)'
                                     /\ answer[x].error \/ m \in answer[x].successful
    <3>1. CASE d = c
      BY <1>6, <1>7, <2>1, <2>4, <3>1
    <3>2. CASE d # c
      BY <1>3, <1>5, <2>4, <3>2
    <3> QED
      BY <3>1, <3>2
  <2> QED
    BY <1>2, <2>2, <2>3, <2>4 DEF Accounted
<1> QED
  BY <1>9, <1>10, <1>11, <1>12, <1>14, <1>15 DEF IInv

\* t is the topic and after it what es holds at the k indices in F, in order q.
Extends(t, es, F, k, q) ==
  /\ k \in Nat /\ Enumerates(q, k, F)
  /\ t \in Seq(AnyEntry) /\ Len(t) = Len(topic) + k
  /\ \A h \in 1 .. Len(topic) : t[h] = topic[h]
  /\ \A j \in 1 .. k : t[Len(topic) + j] = es[q[j]]

\* What Accept makes of the topic.
LEMMA ExtendsIs ==
  ASSUME Types, NEW es \in Seq(AnyEntry), NEW F \in SUBSET (1 .. Len(es))
  PROVE  \E k, q : Extends(topic \o Keep(es, F), es, F, k, q)
<1> DEFINE r == Keep(es, F)
           n == Len(topic)
           t == topic \o r
<1>1. PICK k \in Nat : \E q : Keeps(r, es, F, k, q)
  <2>1. Len(es) \in Nat
    OBVIOUS
  <2> QED
    BY <2>1, KeepIs
<1>2. PICK q : Keeps(r, es, F, k, q)
  BY <1>1
<1>3. q \in [1 .. k -> F] /\ r = [i \in 1 .. k |-> es[q[i]]] /\ Enumerates(q, k, F)
  BY <1>2 DEF Keeps, Enumerates
<1> HIDE DEF r
<1>4. \A i \in 1 .. k : r[i] = es[q[i]] /\ es[q[i]] \in AnyEntry
  <2> TAKE i \in 1 .. k
  <2>1. q[i] \in 1 .. Len(es)
    BY <1>3
  <2>2. es[q[i]] \in AnyEntry
    BY <2>1
  <2> QED
    BY <1>3, <2>2
<1>5. r \in Seq(AnyEntry) /\ Len(r) = k
  <2>1. r \in [1 .. k -> AnyEntry]
    BY <1>3, <1>4
  <2> QED
    BY <2>1
<1>6. topic \in Seq(AnyEntry) /\ n \in Nat
  BY DEF Types
<1>7. t \in Seq(AnyEntry) /\ Len(t) = n + k
  BY <1>5, <1>6, ConcatProperties
<1>8. \A h \in 1 .. n + k : t[h] = IF h <= n THEN topic[h] ELSE r[h - n]
  BY <1>5, <1>6
<1> HIDE DEF t, n
<1>9. \A h \in 1 .. n : t[h] = topic[h]
  BY <1>6, <1>8
<1>10. \A j \in 1 .. k : t[n + j] = es[q[j]]
  <2> TAKE j \in 1 .. k
  <2>1. n + j \in 1 .. n + k /\ ~(n + j <= n) /\ (n + j) - n = j
    BY <1>6
  <2> QED
    BY <2>1, <1>4, <1>8
<1>11. Extends(t, es, F, k, q)
  BY <1>3, <1>7, <1>9, <1>10 DEF Extends, n
<1> QED
  BY <1>11 DEF t, r

\* Every index after Len(topic) holds a kept entry.
LEMMA Extended ==
  ASSUME Types, NEW t, NEW es, NEW F, NEW k, NEW q, Extends(t, es, F, k, q), NEW h \in 1 .. Len(t)
  PROVE  \/ h \in 1 .. Len(topic) /\ t[h] = topic[h]
         \/ \E j \in 1 .. k : h = Len(topic) + j /\ q[j] \in F /\ t[h] = es[q[j]]
<1> DEFINE n == Len(topic)
<1>1. n \in Nat /\ k \in Nat /\ Len(t) = n + k /\ q \in [1 .. k -> F]
  BY DEF Types, Extends, Enumerates
<1>2. h \in 1 .. n \/ h - n \in 1 .. k
  BY <1>1
<1>3. CASE h \in 1 .. n
  BY <1>3 DEF Extends
<1>4. CASE h - n \in 1 .. k
  <2>1. h = n + (h - n)
    BY <1>1
  <2>2. t[n + (h - n)] = es[q[h - n]]
    BY <1>4 DEF Extends
  <2> QED
    BY <1>1, <1>4, <2>1, <2>2
<1> QED
  BY <1>2, <1>3, <1>4

\* Whatever a FIFO topic takes, it has the deduplication ID of afterwards.
LEMMA TakenOn ==
  ASSUME Types, conf.fifo, NEW t, NEW es, NEW taken \in SUBSET Nat, NEW k, NEW q,
         Extends(t, es, Fresh(es, taken), k, q), NEW i \in taken
  PROVE  \E h \in 1 .. Len(t) : t[h].dedup = es[i].dedup
<1> DEFINE T == {j \in taken : es[j].dedup = es[i].dedup}
           F == Fresh(es, taken)
           n == Len(topic)
<1>1. PICK j \in T : \A y \in T : j <= y
  <2>1. T \in SUBSET Nat /\ T # {}
    OBVIOUS
  <2> HIDE DEF T
  <2> QED
    BY <2>1, LeastNat
<1>2. j \in taken /\ j \in Nat /\ es[j].dedup = es[i].dedup
  OBVIOUS
<1>3. n \in Nat /\ k \in Nat /\ Len(t) = n + k
  BY DEF Types, Extends
<1>4. CASE \E h \in 1 .. n : topic[h].dedup = es[j].dedup
  <2>1. PICK h \in 1 .. n : topic[h].dedup = es[j].dedup
    BY <1>4
  <2>2. h \in 1 .. Len(t) /\ t[h] = topic[h]
    BY <1>3 DEF Extends
  <2> QED
    BY <1>2, <2>1, <2>2
<1>5. CASE \A h \in 1 .. n : topic[h].dedup # es[j].dedup
  <2>1. \A y \in taken : y < j => es[y].dedup # es[j].dedup
    <3> TAKE y \in taken
    <3> HAVE y < j
    <3>1. y \in Nat /\ ~(j <= y)
      BY <1>2
    <3>2. y \notin T
      <4> HIDE DEF T
      <4> QED
        BY <1>1, <3>1
    <3> QED
      BY <1>2, <3>2
  <2>2. j \in F
    BY <1>2, <1>5, <2>1 DEF Fresh
  <2>3. PICK l \in 1 .. k : q[l] = j
    BY <2>2 DEF Extends, Enumerates
  <2>4. n + l \in 1 .. Len(t) /\ t[n + l] = es[j]
    BY <1>3, <2>3 DEF Extends
  <2> QED
    BY <1>2, <2>4
<1> QED
  BY <1>4, <1>5

\* The indices of the entries that the topic takes of c's request.
Taken(c, rejected) ==
  {i \in 1 .. Len(entries[c]) : Acceptable(entries[c][i]) /\ entries[c][i].msg \notin rejected}

\* What the topic answers, or that its answer is lost.
LEMMA AnswerIs ==
  ASSUME IInv, NEW c \in Callers, NEW rejected, Accept(c, rejected)
  PROVE  /\ conf' = conf /\ single' = single /\ entries' = entries /\ outcome' = outcome
         /\ uncertain' = uncertain /\ calls' = calls /\ pc[c] = "request"
         /\ pc' = [pc EXCEPT ![c] = "answer"]
         /\ topic' = topic \o Keep(entries[c], Fresh(entries[c], Taken(c, rejected)))
         /\ faults' \in 0 .. MaxFaults
         /\ \E a \in [error : BOOLEAN, successful : SUBSET Messages, failed : SUBSET Messages] :
              /\ answer' = [answer EXCEPT ![c] = a]
              /\ a.successful \cap a.failed = {}
              /\ \A m \in a.successful : \E i \in Taken(c, rejected) : m = entries[c][i].msg
              /\ a.error \/ \A i \in Taken(c, rejected) : entries[c][i].msg \in a.successful
<1> DEFINE good == {entries[c][i].msg : i \in Taken(c, rejected)}
           bad == {e.msg : e \in Range(entries[c])} \ good
           a == [error |-> single[c] /\ bad # {}, successful |-> good, failed |-> bad]
<1>1. /\ conf' = conf /\ single' = single /\ entries' = entries /\ outcome' = outcome
      /\ uncertain' = uncertain /\ calls' = calls /\ pc[c] = "request"
      /\ pc' = [pc EXCEPT ![c] = "answer"]
      /\ topic' = topic \o Keep(entries[c], Fresh(entries[c], Taken(c, rejected)))
  BY DEF Accept, Taken
<1>2. \/ /\ answer' = [answer EXCEPT ![c] = a]
         /\ IF rejected = {} THEN UNCHANGED faults ELSE Fault
      \/ answer' = [answer EXCEPT ![c] = NoAnswer] /\ Fault
  BY DEF Accept, Taken
<1>3. faults' \in 0 .. MaxFaults
  <2>1. faults \in 0 .. MaxFaults
    BY DEF IInv, Types
  <2>2. faults' = faults \/ (faults < MaxFaults /\ faults' = faults + 1)
    BY <1>2 DEF Fault
  <2> QED
    BY <2>1, <2>2, ProducerAssumption DEF ProducerAssumption
<1>4. good \subseteq Messages /\ bad \subseteq Messages
  <2>1. {e.msg : e \in Range(entries[c])} = Msgs(c) /\ Msgs(c) \subseteq Messages
    BY MsgsIs, EntriesAre DEF IInv
  <2>2. good \subseteq Msgs(c)
    BY DEF Msgs, Taken
  <2> QED
    BY <2>1, <2>2
<1>5. ASSUME answer' = [answer EXCEPT ![c] = a]
      PROVE  \E b \in [error : BOOLEAN, successful : SUBSET Messages, failed : SUBSET Messages] :
               /\ answer' = [answer EXCEPT ![c] = b]
               /\ b.successful \cap b.failed = {}
               /\ \A m \in b.successful : \E i \in Taken(c, rejected) : m = entries[c][i].msg
               /\ b.error \/ \A i \in Taken(c, rejected) : entries[c][i].msg \in b.successful
  <2>1. single[c] \in BOOLEAN
    BY DEF IInv, Types
  <2>2. a \in [error : BOOLEAN, successful : SUBSET Messages, failed : SUBSET Messages]
    <3> HIDE DEF good, bad
    <3> QED
      BY <1>4, <2>1
  <2>3. a.successful = good /\ a.failed = bad
    OBVIOUS
  <2>4. \A m \in good : \E i \in Taken(c, rejected) : m = entries[c][i].msg
    OBVIOUS
  <2>5. \A i \in Taken(c, rejected) : entries[c][i].msg \in good
    OBVIOUS
  <2>6. good \cap bad = {}
    OBVIOUS
  <2> HIDE DEF a, good, bad
  <2> QED
    BY <1>5, <2>2, <2>3, <2>4, <2>5, <2>6
<1>6. ASSUME answer' = [answer EXCEPT ![c] = NoAnswer]
      PROVE  \E b \in [error : BOOLEAN, successful : SUBSET Messages, failed : SUBSET Messages] :
               /\ answer' = [answer EXCEPT ![c] = b]
               /\ b.successful \cap b.failed = {}
               /\ \A m \in b.successful : \E i \in Taken(c, rejected) : m = entries[c][i].msg
               /\ b.error \/ \A i \in Taken(c, rejected) : entries[c][i].msg \in b.successful
  <2>1. /\ NoAnswer \in [error : BOOLEAN, successful : SUBSET Messages, failed : SUBSET Messages]
        /\ NoAnswer.error /\ NoAnswer.successful = {} /\ NoAnswer.failed = {}
    BY DEF NoAnswer
  <2> HIDE DEF a
  <2> QED
    BY <1>6, <2>1
<1> HIDE DEF a
<1>7. \E b \in [error : BOOLEAN, successful : SUBSET Messages, failed : SUBSET Messages] :
        /\ answer' = [answer EXCEPT ![c] = b]
        /\ b.successful \cap b.failed = {}
        /\ \A m \in b.successful : \E i \in Taken(c, rejected) : m = entries[c][i].msg
        /\ b.error \/ \A i \in Taken(c, rejected) : entries[c][i].msg \in b.successful
  BY <1>2, <1>5, <1>6
<1> QED
  BY <1>1, <1>3, <1>7

\* A request that the topic gets.
LEMMA AcceptKeeps ==
  ASSUME IInv, NEW c \in Callers, NEW rejected, Accept(c, rejected)
  PROVE  IInv'
<1> DEFINE es == entries[c]
           taken == Taken(c, rejected)
           F == Fresh(es, taken)
           n == Len(topic)
<1>1. /\ conf' = conf /\ single' = single /\ entries' = entries /\ outcome' = outcome
      /\ uncertain' = uncertain /\ calls' = calls /\ pc[c] = "request"
      /\ pc' = [pc EXCEPT ![c] = "answer"]
      /\ topic' = topic \o Keep(es, F)
      /\ faults' \in 0 .. MaxFaults
  BY AnswerIs
<1>2. PICK a \in [error : BOOLEAN, successful : SUBSET Messages, failed : SUBSET Messages] :
        /\ answer' = [answer EXCEPT ![c] = a]
        /\ a.successful \cap a.failed = {}
        /\ \A m \in a.successful : \E i \in taken : m = es[i].msg
        /\ a.error \/ \A i \in taken : es[i].msg \in a.successful
  BY AnswerIs
<1>3. Types /\ Requests /\ Draws /\ Distinct /\ Acknowledged /\ Accounted
  BY DEF IInv
<1>4. /\ pc'[c] = "answer" /\ answer'[c] = a
      /\ \A d \in Callers \ {c} : pc'[d] = pc[d] /\ answer'[d] = answer[d]
  BY <1>1, <1>2, <1>3 DEF Types
<1>5. /\ AnyEntry' = AnyEntry /\ \A m, e : Shares(m, e)' = Shares(m, e)
      /\ Drawn \subseteq Drawn'
  BY <1>1, <1>3, EntryFixed, DrawnLater DEF Types
<1>6. \A d \in Callers : Msgs(d)' = Msgs(d)
  BY <1>1 DEF Msgs
<1>7. /\ es \in Seq(AnyEntry) /\ taken \in SUBSET (1 .. Len(es)) /\ F \in SUBSET taken
      /\ \A i \in taken : Acceptable(es[i])
  <2>1. es \in Seq(AnyEntry)
    BY <1>3 DEF Types
  <2>2. taken \in SUBSET (1 .. Len(es)) /\ \A i \in taken : Acceptable(es[i])
    BY DEF Taken
  <2>3. F \in SUBSET taken
    BY DEF Fresh
  <2> QED
    BY <2>1, <2>2, <2>3
<1> HIDE DEF taken, F
<1>8. PICK k, q : Extends(topic', es, F, k, q)
  <2>1. F \in SUBSET (1 .. Len(es))
    BY <1>7
  <2>2. PICK k, q : Extends(topic \o Keep(es, F), es, F, k, q)
    BY <1>3, <1>7, <2>1, ExtendsIs
  <2> QED
    BY <1>1, <2>2
<1>9. /\ k \in Nat /\ n \in Nat /\ q \in [1 .. k -> F] /\ topic' \in Seq(AnyEntry) /\ Len(topic') = n + k
      /\ \A i, j \in 1 .. k : i < j => q[i] < q[j]
      /\ \A h \in 1 .. n : topic'[h] = topic[h]
  BY <1>3, <1>8 DEF Extends, Enumerates, Types
<1>10. ASSUME NEW h \in 1 .. Len(topic')
       PROVE  \/ h \in 1 .. n /\ topic'[h] = topic[h]
              \/ \E j \in 1 .. k : h = n + j /\ q[j] \in F /\ topic'[h] = es[q[j]]
  BY <1>3, <1>8, Extended
<1>11. \A i \in F : i \in taken /\ i \in 1 .. Len(es) /\ es[i].msg \in Msgs(c) /\ Acceptable(es[i])
  BY <1>7 DEF Msgs
<1>12. Types'
  <2>1. /\ pc' \in [Callers -> {"idle", "request", "answer"}]
        /\ answer' \in [Callers -> [error : BOOLEAN, successful : SUBSET Messages, failed : SUBSET Messages]]
    BY <1>1, <1>2, <1>3 DEF Types
  <2> QED
    BY <1>1, <1>3, <1>5, <1>9, <2>1 DEF Types
<1>13. Requests'
  <2>1. \A d \in Callers : Len(entries'[d]) \in IF pc'[d] = "idle" THEN {0} ELSE 1 .. MaxBatch
    BY <1>1, <1>3, <1>4 DEF Requests
  <2>2. \A d \in Callers : answer'[d].successful \cap answer'[d].failed = {}
    BY <1>2, <1>3, <1>4 DEF Requests
  <2> QED
    BY <1>1, <1>3, <1>6, <2>1, <2>2 DEF Requests
<1>14. Draws'
  <2>1. \A h \in 1 .. Len(topic') : topic'[h] \in Drawn
    <3> TAKE h \in 1 .. Len(topic')
    <3>1. \A i \in 1 .. Len(es) : es[i] \in Drawn
      BY <1>3 DEF Draws
    <3>2. \A i \in 1 .. n : topic[i] \in Drawn
      BY <1>3 DEF Draws
    <3> QED
      BY <1>10, <1>11, <3>1, <3>2
  <2>2. ASSUME NEW d \in Callers, NEW i \in 1 .. Len(entries[d]), Random(entries[d][i]), pc'[d] = "request",
               NEW h \in 1 .. Len(topic')
        PROVE  topic'[h].dedup # entries[d][i].dedup
    <3>1. d # c /\ pc[d] = "request"
      BY <1>4, <2>2
    <3>2. \A j \in 1 .. Len(es) : es[j].dedup # entries[d][i].dedup
      BY <1>3, <2>2, <3>1 DEF Draws
    <3>3. \A j \in 1 .. n : topic[j].dedup # entries[d][i].dedup
      BY <1>3, <2>2, <3>1 DEF Draws
    <3> QED
      BY <1>10, <1>11, <3>2, <3>3
  <2>3. \A d \in Callers : \A i \in 1 .. Len(entries[d]) :
          /\ entries[d][i] \in Drawn
          /\ Random(entries[d][i]) =>
               \A x \in Callers : \A j \in 1 .. Len(entries[x]) :
                 entries[x][j].dedup = entries[d][i].dedup => x = d /\ j = i
    BY <1>3 DEF Draws
  <2> QED
    BY <1>1, <1>5, <2>1, <2>2, <2>3 DEF Draws, Random
<1>15. Distinct'
  <2> SUFFICES ASSUME conf.fifo
               PROVE  /\ \A x, y \in 1 .. Len(topic') : topic'[x].dedup = topic'[y].dedup => x = y
                      /\ \A x \in 1 .. Len(topic') : topic'[x].dedup # NoID
    BY <1>1 DEF Distinct
  <2>1. /\ \A i, j \in 1 .. n : topic[i].dedup = topic[j].dedup => i = j
        /\ \A i \in 1 .. n : topic[i].dedup # NoID
    BY <1>3 DEF Distinct
  <2>2. \A i \in F : /\ \A h \in 1 .. n : topic[h].dedup # es[i].dedup
                     /\ \A j \in taken : j < i => es[j].dedup # es[i].dedup
    BY DEF F, Fresh
  <2>3. \A i \in F : es[i].dedup # NoID
    BY <1>11 DEF Acceptable
  <2>4. \A i, j \in 1 .. k : es[q[i]].dedup = es[q[j]].dedup => i = j
    <3> SUFFICES ASSUME NEW i \in 1 .. k, NEW j \in 1 .. k, i < j PROVE es[q[i]].dedup # es[q[j]].dedup
      BY <1>9
    <3>1. q[i] < q[j] /\ q[i] \in F /\ q[j] \in F /\ q[i] \in taken
      BY <1>9, <1>11
    <3> QED
      BY <2>2, <3>1
  <2>5. ASSUME NEW x \in 1 .. Len(topic'), NEW y \in 1 .. Len(topic'), topic'[x].dedup = topic'[y].dedup
        PROVE  x = y
    <3>1. CASE x \in 1 .. n /\ y \in 1 .. n
      BY <1>9, <2>1, <2>5, <3>1
    <3>2. ASSUME x \in 1 .. n, NEW j \in 1 .. k, q[j] \in F, topic'[y] = es[q[j]] PROVE FALSE
      BY <1>9, <2>2, <2>5, <3>2
    <3>3. ASSUME y \in 1 .. n, NEW j \in 1 .. k, q[j] \in F, topic'[x] = es[q[j]] PROVE FALSE
      BY <1>9, <2>2, <2>5, <3>3
    <3>4. ASSUME NEW i \in 1 .. k, x = n + i, topic'[x] = es[q[i]],
                 NEW j \in 1 .. k, y = n + j, topic'[y] = es[q[j]]
          PROVE  x = y
      BY <2>4, <2>5, <3>4
    <3> QED
      BY <1>10, <3>1, <3>2, <3>3, <3>4
  <2>6. ASSUME NEW x \in 1 .. Len(topic') PROVE topic'[x].dedup # NoID
    <3>1. CASE x \in 1 .. n /\ topic'[x] = topic[x]
      BY <2>1, <3>1
    <3>2. ASSUME NEW j \in 1 .. k, q[j] \in F, topic'[x] = es[q[j]] PROVE topic'[x].dedup # NoID
      BY <2>3, <3>2
    <3> QED
      BY <1>10, <3>1, <3>2
  <2> QED
    BY <2>5, <2>6
<1>16. ASSUME NEW m, Stored(m) PROVE Stored(m)'
  <2>1. \A h \in 1 .. n : h \in 1 .. Len(topic') /\ topic'[h] = topic[h]
    BY <1>9
  <2>2. CASE \E h \in 1 .. n : topic[h].msg = m
    BY <2>1, <2>2 DEF Stored
  <2>3. CASE conf.fifo /\ \E h \in 1 .. n : Shares(m, topic[h])
    <3>1. PICK h \in 1 .. n : Shares(m, topic[h])
      BY <2>3
    <3>2. h \in 1 .. Len(topic') /\ Shares(m, topic[h])'
      BY <1>5, <2>1, <3>1
    <3> QED
      BY <1>1, <2>3, <3>2 DEF Stored
  <2> QED
    BY <1>16, <2>2, <2>3 DEF Stored
<1>17. ASSUME NEW i \in taken, NEW m, m = es[i].msg PROVE Stored(m)'
  <2>1. i \in 1 .. Len(es) /\ i \in Nat
    BY <1>7
  <2>2. CASE i \in F
    <3>1. PICK j \in 1 .. k : q[j] = i
      BY <1>8, <2>2 DEF Extends, Enumerates
    <3>2. n + j \in 1 .. Len(topic') /\ topic'[n + j] = es[i]
      BY <1>8, <1>9, <3>1 DEF Extends
    <3> QED
      BY <1>17, <3>2 DEF Stored
  <2>3. CASE i \notin F
    <3>1. /\ conf.fifo
          /\ \/ \E h \in 1 .. n : topic[h].dedup = es[i].dedup
             \/ \E j \in taken : j < i /\ es[j].dedup = es[i].dedup
      BY <1>17, <2>3 DEF F, Fresh
    <3>2. ~ Random(es[i])
      <4> SUFFICES ASSUME Random(es[i]) PROVE FALSE
        OBVIOUS
      <4>1. \A h \in 1 .. n : topic[h].dedup # es[i].dedup
        BY <1>1, <1>3, <2>1 DEF Draws
      <4>2. \A j \in 1 .. Len(es) : es[j].dedup = es[i].dedup => j = i
        BY <1>3, <2>1 DEF Draws
      <4>3. PICK j \in taken : j < i /\ es[j].dedup = es[i].dedup
        BY <3>1, <4>1
      <4> QED
        BY <1>7, <2>1, <4>2, <4>3
    <3>3. PICK h \in 1 .. Len(topic') : topic'[h].dedup = es[i].dedup
      <4>1. taken \in SUBSET Nat
        BY <1>7
      <4>2. Extends(topic', es, Fresh(es, taken), k, q)
        BY <1>8 DEF F
      <4> HIDE DEF es
      <4> QED
        BY <1>3, <1>17, <3>1, <4>1, <4>2, TakenOn
    <3>4. es[i] \in AnyEntry
      BY <1>7, <2>1
    <3>5. PICK l \in Messages, x \in 0 .. MaxCalls, y \in 1 .. MaxBatch : es[i] \in EntryOf(l, x, y)
      BY <3>4 DEF AnyEntry
    <3>9. l = m
      BY <1>17, <3>5, EntryIs
    <3>10. es[i].dedup \in ResolveID(conf.dedupIDGen, DedupID[l], Attributes[l], <<"dedup", x, y>>)
      BY <3>5, EntryIs
    <3>6. /\ l = m
          /\ es[i].dedup \in ResolveID(conf.dedupIDGen, DedupID[m], Attributes[m], <<"dedup", x, y>>)
      BY <3>9, <3>10
    <3>7. Shares(m, topic'[h])
      BY <3>2, <3>3, <3>6 DEF Shares, Random
    <3>8. Shares(m, topic[h])'
      BY <1>5, <3>7
    <3> QED
      BY <1>1, <3>1, <3>6, <3>8 DEF Stored
  <2> QED
    BY <2>2, <2>3
<1>18. Acknowledged'
  <2>1. \A m \in Messages : outcome'[m] = "ok" => Stored(m)'
    BY <1>1, <1>3, <1>16 DEF Acknowledged
  <2>2. ASSUME NEW d \in Callers, pc'[d] = "answer", NEW m \in answer'[d].successful PROVE Stored(m)'
    <3>1. CASE d = c
      <4>1. PICK i \in taken : m = es[i].msg
        BY <1>2, <1>4, <2>2, <3>1
      <4> QED
        BY <1>17, <4>1
    <3>2. CASE d # c
      <4>1. pc[d] = "answer" /\ m \in answer[d].successful
        BY <1>4, <2>2, <3>2
      <4>2. Stored(m)
        BY <1>3, <4>1 DEF Acknowledged
      <4> QED
        BY <1>16, <4>2
    <3> QED
      BY <3>1, <3>2
  <2> QED
    BY <2>1, <2>2 DEF Acknowledged
<1>19. Accounted'
  <2> SUFFICES ASSUME NEW h \in 1 .. Len(topic'), NEW m, m = topic'[h].msg
               PROVE  \/ m \in uncertain \/ outcome[m] = "ok"
                      \/ \E d \in Callers : /\ pc'[d] = "answer" /\ m \in Msgs(d)
                                            /\ answer'[d].error \/ m \in answer'[d].successful
    <3>1. uncertain' = uncertain /\ outcome' = outcome
      BY <1>1
    <3> QED
      BY <1>6, <3>1 DEF Accounted
  <2>1. CASE h \in 1 .. n /\ topic'[h] = topic[h]
    <3>1. \/ m \in uncertain \/ outcome[m] = "ok"
          \/ \E d \in Callers : /\ pc[d] = "answer" /\ m \in Msgs(d)
                                /\ answer[d].error \/ m \in answer[d].successful
      BY <1>3, <2>1 DEF Accounted
    <3>2. \A d \in Callers : pc[d] = "answer" => pc'[d] = "answer" /\ answer'[d] = answer[d]
      BY <1>1, <1>4
    <3> QED
      BY <3>1, <3>2
  <2>2. ASSUME NEW j \in 1 .. k, q[j] \in F, topic'[h] = es[q[j]]
        PROVE  pc'[c] = "answer" /\ m \in Msgs(c) /\ (answer'[c].error \/ m \in answer'[c].successful)
    BY <1>2, <1>4, <1>11, <2>2
  <2> QED
    BY <1>10, <2>1, <2>2
<1> QED
  BY <1>12, <1>13, <1>14, <1>15, <1>18, <1>19 DEF IInv

\* A call of Publish.
LEMMA PublishKeeps ==
  ASSUME IInv, NEW c \in Callers, NEW m \in Publishable, Publish(c, m)
  PROVE  IInv'
<1>1. Call(c)
  BY DEF Publish
<1>2. Entries(m, 1) = EntryOf(m, calls, 1)
  BY DEF Entries, EntryOf, Uuid
<1>3. m \in Messages /\ Types
  BY MsgsIs DEF IInv
<1>4. CASE Refuse(<<m>>)
  <2>1. Range(<<m>>) \subseteq Publishable
    BY DEF Range
  <2> QED
    BY <1>1, <1>4, <2>1, RefuseKeeps
<1>5. ASSUME NEW e \in Entries(m, 1), Request(c, TRUE, <<e>>) PROVE IInv'
  <2> DEFINE es == <<e>>
  <2>7. e \in EntryOf(m, calls, 1)
    BY <1>2
  <2>1. e \in EntryOf(m, calls, 1) /\ e.msg = m
    BY <2>7, EntryIs
  <2>2. e \in AnyEntry
    <3>1. calls \in 0 .. MaxCalls /\ 1 \in 1 .. MaxBatch
      BY <1>3, ProducerAssumption DEF Types, ProducerAssumption
    <3> QED
      BY <1>3, <2>1, <3>1 DEF AnyEntry
  <2>3. es \in Seq(AnyEntry) /\ Len(es) = 1 /\ es[1] = e
    BY <2>2
  <2>4. Len(es) \in 1 .. MaxBatch
    BY <2>3, ProducerAssumption DEF ProducerAssumption
  <2>5. Made(es)
    BY <2>1, <2>3, <2>4 DEF Made
  <2> HIDE DEF es
  <2>6. Request(c, TRUE, es)
    BY <1>5 DEF es
  <2> QED
    BY <1>1, <2>5, <2>6, RequestKeeps
<1> QED
  BY <1>4, <1>5 DEF Publish

\* A call of PublishBatch.
LEMMA BatchKeeps ==
  ASSUME IInv, NEW c \in Callers, NEW ms \in Batches, PublishBatch(c, ms)
  PROVE  IInv'
<1>1. Call(c)
  BY DEF PublishBatch
<1>2. \A m, i : Entries(m, i) = EntryOf(m, calls, i)
  BY DEF Entries, EntryOf, Uuid
<1>3. Types
  BY DEF IInv
<1>4. PICK n \in 0 .. MaxBatch + 1 : ms \in [1 .. n -> Publishable]
  BY DEF Batches, SeqOf
<1>5. Len(ms) = n
  BY <1>4
<1>6. CASE Refuse(ms)
  <2>1. Range(ms) \subseteq Publishable
    BY <1>4 DEF Range
  <2> QED
    BY <1>1, <1>6, <2>1, RefuseKeeps
<1>7. CASE /\ ~(ms = << >> \/ Len(ms) > MaxBatch)
           /\ \E es \in {f \in [1 .. Len(ms) -> UNION {Entries(ms[i], i) : i \in 1 .. Len(ms)}] :
                           \A i \in 1 .. Len(ms) : f[i] \in Entries(ms[i], i)} :
                Request(c, FALSE, es)
  <2>1. n \in 1 .. MaxBatch
    <3>1. ms # << >> /\ ~(n > MaxBatch)
      BY <1>5, <1>7
    <3>2. n # 0
      BY <1>4, <3>1
    <3> QED
      BY <3>1, <3>2, ProducerAssumption DEF ProducerAssumption
  <2>2. PICK es : /\ es \in [1 .. n -> UNION {Entries(ms[i], i) : i \in 1 .. n}]
                  /\ \A i \in 1 .. n : es[i] \in Entries(ms[i], i)
                  /\ Request(c, FALSE, es)
    BY <1>5, <1>7
  <2>3. \A i \in 1 .. n : es[i] \in EntryOf(ms[i], calls, i) /\ es[i].msg = ms[i] /\ ms[i] \in Publishable
    <3> TAKE i \in 1 .. n
    <3>1. es[i] \in EntryOf(ms[i], calls, i) /\ ms[i] \in Publishable
      BY <1>2, <1>4, <2>2
    <3> QED
      BY <3>1, EntryIs
  <2>4. \A i \in 1 .. n : es[i] \in AnyEntry
    <3> TAKE i \in 1 .. n
    <3>1. calls \in 0 .. MaxCalls /\ i \in 1 .. MaxBatch
      BY <1>3, <2>1, ProducerAssumption DEF Types, ProducerAssumption
    <3>2. ms[i] \in Messages
      BY <1>3, <2>3, MsgsIs
    <3> QED
      BY <2>3, <3>1, <3>2 DEF AnyEntry
  <2>5. es \in Seq(AnyEntry) /\ Len(es) = n
    <3>1. es \in [1 .. n -> AnyEntry]
      BY <2>2, <2>4
    <3> QED
      BY <2>1, <3>1
  <2>6. Made(es)
    BY <2>1, <2>3, <2>5 DEF Made
  <2> QED
    BY <1>1, <2>2, <2>6, RequestKeeps
<1> QED
  BY <1>6, <1>7 DEF PublishBatch

\* Every step, and the ones that change nothing.
LEMMA NextInv == IInv /\ [Next]_vars => IInv'
<1> SUFFICES ASSUME IInv, [Next]_vars PROVE IInv'
  OBVIOUS
<1>1. CASE UNCHANGED vars
  <2>1. /\ conf' = conf /\ pc' = pc /\ single' = single /\ entries' = entries /\ answer' = answer
        /\ topic' = topic /\ outcome' = outcome /\ uncertain' = uncertain /\ calls' = calls
        /\ faults' = faults
    BY <1>1 DEF vars
  <2>2. Types /\ Requests /\ Draws /\ Distinct /\ Acknowledged /\ Accounted
    BY DEF IInv
  <2>3. /\ AnyEntry' = AnyEntry /\ \A m, e : Shares(m, e)' = Shares(m, e)
        /\ Drawn \subseteq Drawn'
    BY <2>1, <2>2, EntryFixed, DrawnLater DEF Types
  <2>4. \A d \in Callers : Msgs(d)' = Msgs(d)
    BY <2>1 DEF Msgs
  <2>5. \A m : Stored(m)' = Stored(m)
    BY <2>1, <2>3 DEF Stored
  <2>6. Types' /\ Requests'
    BY <2>1, <2>2, <2>3, <2>4 DEF Types, Requests
  <2>7. Draws'
    BY <2>1, <2>2, <2>3 DEF Draws, Random
  <2>8. Distinct'
    BY <2>1, <2>2 DEF Distinct
  <2>9. Acknowledged'
    BY <2>1, <2>2, <2>5 DEF Acknowledged
  <2>10. Accounted'
    BY <2>1, <2>2, <2>4 DEF Accounted
  <2> QED
    BY <2>6, <2>7, <2>8, <2>9, <2>10 DEF IInv
<1>2. ASSUME NEW c \in Callers, NEW m \in Publishable, Publish(c, m) PROVE IInv'
  BY <1>2, PublishKeeps
<1>3. ASSUME NEW c \in Callers, NEW m \in Publishable, PublishTyped(c, m) PROVE IInv'
  <2>1. CASE m \in conf.opaque
    <3>1. Call(c) /\ Refuse(<<m>>) /\ Range(<<m>>) \subseteq Publishable
      BY <1>3, <2>1 DEF PublishTyped, Range
    <3> QED
      BY <3>1, RefuseKeeps
  <2>2. CASE m \notin conf.opaque
    BY <1>3, <2>2, PublishKeeps DEF PublishTyped
  <2> QED
    BY <2>1, <2>2
<1>4. ASSUME NEW c \in Callers, NEW ms \in Batches, PublishBatch(c, ms) PROVE IInv'
  BY <1>4, BatchKeeps
<1>5. ASSUME NEW c \in Callers, Topic(c) PROVE IInv'
  BY <1>5, AcceptKeeps, LoseKeeps DEF Topic
<1>6. ASSUME NEW c \in Callers, Return(c) PROVE IInv'
  BY <1>6, ReturnKeeps
<1>7. CASE Over
  BY <1>1, <1>7 DEF Over
<1> QED
  BY <1>1, <1>2, <1>3, <1>4, <1>5, <1>6, <1>7 DEF Next

-----------------------------------------------------------------------------
(* The theorems.                                                            *)

\* The invariant: who is in which request, where its identifiers are from, and
\* what the topic holds of what was told to the callers.
THEOREM Invariance == Spec => []IInv
<1> QED
  BY InitInv, NextInv, PTL DEF Spec

\* Every variable has its type, a request holds one to MaxBatch entries, and no
\* entry of an answer is both successful and failed.
THEOREM TypeCorrect == Spec => []TypeOK
<1>1. IInv => TypeOK
  <2> SUFFICES ASSUME IInv PROVE TypeOK
    OBVIOUS
  <2>1. Types /\ Requests
    BY DEF IInv
  <2>2. \A i \in 1 .. Len(topic) : topic[i].msg \in Messages
    BY <2>1, EntriesAre
  <2> QED
    BY <2>1, <2>2 DEF Types, Requests, TypeOK
<1> QED
  BY <1>1, Invariance, PTL

\* A message whose deduplication ID is the same for every call is on a FIFO
\* topic at most once, whatever was lost, rejected and published again.
THEOREM PublishedOnce == Spec => []AtMostOnce
<1>1. IInv => AtMostOnce
  <2> SUFFICES ASSUME IInv, conf.fifo, NEW m \in Messages, Stable(m)
               PROVE  Cardinality({i \in 1 .. Len(topic) : topic[i].msg = m}) <= 1
    BY DEF AtMostOnce
  <2> DEFINE gen == conf.dedupIDGen
             At == {i \in 1 .. Len(topic) : topic[i].msg = m}
  <2>1. Types /\ Draws /\ Distinct
    BY DEF IInv
  <2>2. \A u, v, d, e : d \in ResolveID(gen, DedupID[m], Attributes[m], u)
                        /\ e \in ResolveID(gen, DedupID[m], Attributes[m], v) => d = e
    <3> SUFFICES ASSUME NEW u, NEW v,
                        NEW d \in ResolveID(gen, DedupID[m], Attributes[m], u),
                        NEW e \in ResolveID(gen, DedupID[m], Attributes[m], v)
                 PROVE  d = e
      OBVIOUS
    <3>1. CASE DedupID[m] # NoID
      BY <3>1 DEF ResolveID
    <3>2. CASE DedupID[m] = NoID
      <4>1. gen.kind = "keyBased" \/ gen.kind = "composite"
        BY <3>2 DEF Stable
      <4>2. d \in Generate(gen, Attributes[m], u) /\ e \in Generate(gen, Attributes[m], v)
        BY <3>2, <4>1 DEF ResolveID
      <4> HIDE DEF gen
      <4>3. CASE gen.kind = "keyBased"
        BY <4>2, <4>3 DEF Generate
      <4>4. CASE gen.kind = "composite"
        BY <4>2, <4>4 DEF Generate
      <4> QED
        BY <4>1, <4>3, <4>4
    <3> QED
      BY <3>1, <3>2
  <2>3. ASSUME NEW i \in At PROVE \E u : topic[i].dedup \in ResolveID(gen, DedupID[m], Attributes[m], u)
    <3>1. topic[i] \in Drawn /\ topic[i].msg = m
      BY <2>1 DEF Draws
    <3>2. PICK l \in Messages, k \in 0 .. calls - 1, j \in 1 .. MaxBatch : topic[i] \in EntryOf(l, k, j)
      BY <3>1 DEF Drawn
    <3> DEFINE e == topic[i]
    <3>5. e.msg = m
      BY <3>1
    <3>6. e \in EntryOf(l, k, j)
      BY <3>2
    <3> HIDE DEF e, At, gen
    <3>3. e.msg = l /\ e.dedup \in ResolveID(conf.dedupIDGen, DedupID[l], Attributes[l], <<"dedup", k, j>>)
      BY <3>6, EntryIs
    <3>4. l = m
      BY <3>3, <3>5
    <3> QED
      BY <3>3, <3>4 DEF e, gen
  <2>4. \A i, j \in At : i = j
    <3> TAKE i, j \in At
    <3>1. topic[i].dedup = topic[j].dedup
      BY <2>2, <2>3
    <3> QED
      BY <2>1, <3>1 DEF Distinct
  <2> HIDE DEF At
  <2>5. CASE At = {}
    <3>1. Cardinality(At) = 0
      BY <2>5, FS_EmptySet
    <3> QED
      BY <3>1 DEF At
  <2>6. CASE At # {}
    <3>1. PICK i \in At : TRUE
      BY <2>6
    <3>2. At = {i}
      BY <2>4, <3>1
    <3>3. Cardinality(At) = 1
      BY <3>2, FS_Singleton
    <3> QED
      BY <3>3 DEF At
  <2> QED
    BY <2>5, <2>6
<1> QED
  BY <1>1, Invariance, PTL

\* What a call tells its caller is true: an acknowledged message is on the topic
\* if its deduplication ID, made of its attributes, may tell it from every
\* other, and what was refused or rejected is not there.
THEOREM OutcomesTrue == Spec => []OutcomeTruthful
<1>1. IInv => OutcomeTruthful
  <2> SUFFICES ASSUME IInv, NEW m \in Messages
               PROVE  /\ outcome[m] = "ok" /\ (conf.fifo => ToldApart(m)) => m \in Published
                      /\ outcome[m] \in {"refused", "failed"} /\ m \notin uncertain => m \notin Published
    BY DEF OutcomeTruthful
  <2>1. Types /\ Requests /\ Draws /\ Distinct /\ Acknowledged /\ Accounted
    BY DEF IInv
  <2>2. ASSUME outcome[m] = "ok", conf.fifo => ToldApart(m) PROVE m \in Published
    <3>1. Stored(m)
      BY <2>1, <2>2 DEF Acknowledged
    <3>2. CASE \E k \in 1 .. Len(topic) : topic[k].msg = m
      BY <3>2 DEF Published
    <3>3. CASE conf.fifo /\ \E k \in 1 .. Len(topic) : Shares(m, topic[k])
      <4>1. PICK k \in 1 .. Len(topic) : Shares(m, topic[k])
        BY <3>3
      <4> DEFINE d == topic[k].dedup
                 n == topic[k].msg
      <4>2. d.alg # "random" /\ \E u : d \in ResolveID(conf.dedupIDGen, DedupID[m], Attributes[m], u)
        BY <4>1 DEF Shares, Random
      <4>3. d # NoID
        BY <2>1, <3>3 DEF Distinct
      <4>4. n \in Messages /\ \E v : d \in ResolveID(conf.dedupIDGen, DedupID[n], Attributes[n], v)
        <5>1. topic[k] \in Drawn
          BY <2>1 DEF Draws
        <5>2. PICK l \in Messages, x \in 0 .. calls - 1, y \in 1 .. MaxBatch : topic[k] \in EntryOf(l, x, y)
          BY <5>1 DEF Drawn
        <5>3. n = l /\ d \in ResolveID(conf.dedupIDGen, DedupID[l], Attributes[l], <<"dedup", x, y>>)
          BY <5>2, EntryIs
        <5> QED
          BY <5>3
      <4>5. conf \in Configs /\ conf.fifo /\ ToldApart(m)
        BY <2>1, <2>2, <3>3 DEF Types
      <4>6. n = m
        <5> SUFFICES ASSUME n # m PROVE FALSE
          OBVIOUS
        <5> HIDE DEF d, n
        <5> QED
          BY <4>2, <4>3, <4>4, <4>5, TellsApart
      <4> QED
        BY <4>6 DEF Published
    <3> QED
      BY <3>1, <3>2, <3>3 DEF Stored
  <2>3. ASSUME outcome[m] \in {"refused", "failed"}, m \notin uncertain, m \in Published PROVE FALSE
    <3>1. PICK k \in 1 .. Len(topic) : topic[k].msg = m
      BY <2>3 DEF Published
    <3>2. \E c \in Callers : m \in Msgs(c)
      BY <2>1, <2>3, <3>1 DEF Accounted
    <3>3. outcome[m] = "none"
      BY <2>1, <3>2 DEF Requests
    <3> QED
      BY <2>3, <3>3
  <2> QED
    BY <2>2, <2>3
<1> QED
  BY <1>1, Invariance, PTL

=============================================================================
